-------------------------- MODULE DominanceProofs --------------------------
(***************************************************************************)
(* LLVM accepts the code the translator emits for a well typed body: every *)
(* operand is defined on each path to its use, every block ends once, and  *)
(* every phi has a value of its type from each block it is entered from.   *)
(* For any signatures, opcode families and bounds.                         *)
(***************************************************************************)
EXTENDS BodyValidationProofs, Integers, WellFoundedInduction

-----------------------------------------------------------------------------
(* Induction over the naturals, on sets of them, and what it gives: the    *)
(* last of a set of positions, and the values of a recursive function.     *)

\* A set of naturals that is not empty has a least element.
LEMMA LeastExists ==
    ASSUME NEW T, T \subseteq Nat, T # {}
    PROVE  \E x \in T : \A y \in T : x <= y
PROOF
  <1> DEFINE R == OpToRel(<, Nat)
  <1>1. IsWellFoundedOn(R, Nat)
    BY NatLessThanWellFounded
  <1>2. PICK x \in T : \A y \in T : ~ (<<y, x>> \in R)
    BY <1>1, WFMin
  <1>3. \A y \in T : ~ (y < x)
    BY <1>2 DEF OpToRel
  <1> QED
    BY <1>3

\* A set of naturals with zero and the successors of its elements has them all.
LEMMA AllNaturals ==
    ASSUME NEW T, 0 \in T, \A n \in Nat : n \in T => n + 1 \in T
    PROVE  \A n \in Nat : n \in T
PROOF
  <1> DEFINE F == {n \in Nat : n \notin T}
  <1> SUFFICES ASSUME F # {} PROVE FALSE
    OBVIOUS
  <1>1. PICK x \in F : \A y \in F : x <= y
    BY LeastExists
  <1>2. x # 0
    OBVIOUS
  <1>3. x - 1 \in Nat /\ x - 1 \notin F
    BY <1>1, <1>2
  <1> QED
    BY <1>3

\* A set of positions of a sequence that is not empty has a last element.
LEMMA LastExists ==
    ASSUME NEW n \in Nat, NEW W, W \subseteq 1 .. n, W # {}
    PROVE  \E i \in W : \A j \in W : j <= i
PROOF
  <1> DEFINE T == {n - i : i \in W}
  <1>1. T \subseteq Nat /\ T # {}
    <2>1. \A i \in W : n - i \in Nat /\ n - i \in T
      OBVIOUS
    <2> QED
      BY <2>1
  <1>2. PICK x \in T : \A y \in T : x <= y
    <2> HIDE DEF T
    <2> QED
      BY <1>1, LeastExists
  <1>3. PICK i \in W : x = n - i
    OBVIOUS
  <1>4. ASSUME NEW j \in W PROVE j <= i
    <2>1. n - j \in T /\ n - i <= n - j
      BY <1>2, <1>3
    <2>2. i \in Nat /\ j \in Nat
      OBVIOUS
    <2> QED
      BY <2>1, <2>2
  <1> QED
    BY <1>4

\* f takes its first value from start and each of the n others from the one before.
Iterates(f, start, next, n) ==
    f[0] = start /\ \A k \in 1 .. n : f[k] = next[f[k - 1]]

\* A function that takes each value from the one before it exists.
LEMMA IteratesExist ==
    ASSUME NEW S, NEW start \in S, NEW next \in [S -> S], NEW n \in Nat
    PROVE  \E f \in [0 .. n -> S] : Iterates(f, start, next, n)
PROOF
  <1> DEFINE T == {m \in Nat : \E f \in [0 .. m -> S] : Iterates(f, start, next, m)}
  <1>1. 0 \in T
    <2>1. Iterates([k \in 0 .. 0 |-> start], start, next, 0)
      BY DEF Iterates
    <2> QED
      BY <2>1
  <1>2. ASSUME NEW m \in Nat, m \in T PROVE m + 1 \in T
    <2>1. PICK f \in [0 .. m -> S] : Iterates(f, start, next, m)
      BY <1>2
    <2> DEFINE g == [k \in 0 .. m + 1 |-> IF k <= m THEN f[k] ELSE next[f[m]]]
    <2>2. g \in [0 .. m + 1 -> S]
      OBVIOUS
    <2>3. Iterates(g, start, next, m + 1)
      BY <2>1 DEF Iterates
    <2> HIDE DEF g
    <2> QED
      BY <2>2, <2>3
  <1> HIDE DEF T
  <1>3. n \in T
    BY <1>1, <1>2, AllNaturals
  <1> QED
    BY <1>3 DEF T

-----------------------------------------------------------------------------
(* Dominance.                                                              *)

\* The blocks next to one of a set, but one.
Onward(B, avoided) == B \cup {b \in DOMAIN blocks \ {avoided} : \E e \in edges : e[1] \in B /\ e[2] = b}

\* A set of blocks that no edge leaves, but to the block that is avoided, holds
\* what is reached without that block.
LEMMA ReachedWithin ==
    ASSUME NEW a, NEW S, blocks \in Seq(ResultTypes), FuncEntry \in S \cup {a},
           \A e \in edges : e[1] \in S => e[2] \in S \cup {a, NoBlock}
    PROVE  ReachedWithout(a) \subseteq S
PROOF
  <1>1. PICK n \in Nat : n = Len(blocks) /\ DOMAIN blocks = 1 .. n
    BY LenProperties
  <1> DEFINE next == [B \in SUBSET S |-> Onward(B, a)]
             start == {FuncEntry} \ {a}
             Is(g) == g = [k \in 0 .. n |->
                             IF k = 0 THEN {FuncEntry} \ {a}
                             ELSE g[k - 1] \cup {b \in DOMAIN blocks \ {a} :
                                                   \E e \in edges : e[1] \in g[k - 1] /\ e[2] = b}]
  <1>2. next \in [SUBSET S -> SUBSET S]
    <2>1. NoBlock \notin DOMAIN blocks
      BY <1>1 DEF NoBlock
    <2>2. ASSUME NEW B \in SUBSET S PROVE Onward(B, a) \in SUBSET S
      BY <2>1 DEF Onward
    <2> QED
      BY <2>2
  <1>3. start \in SUBSET S
    OBVIOUS
  <1>4. PICK f \in [0 .. n -> SUBSET S] : f[0] = start /\ \A k \in 1 .. n : f[k] = next[f[k - 1]]
    <2>1. PICK P, first, step : P = SUBSET S /\ first = start /\ step = next
      OBVIOUS
    <2>2. step \in [P -> P] /\ first \in P
      BY <1>2, <1>3, <2>1
    <2> HIDE DEF next, start
    <2>3. \E f \in [0 .. n -> P] : Iterates(f, first, step, n)
      BY <2>2, IteratesExist
    <2> QED
      BY <2>1, <2>3 DEF Iterates
  <1>5. Is(f)
    <2>1. \A k \in 0 .. n : k # 0 => k \in 1 .. n /\ f[k - 1] \in SUBSET S
      OBVIOUS
    <2>2. \A k \in 0 .. n : k # 0 => f[k] = Onward(f[k - 1], a)
      BY <1>4, <2>1
    <2>3. \A k \in 0 .. n : f[k] = IF k = 0 THEN {FuncEntry} \ {a} ELSE Onward(f[k - 1], a)
      BY <1>4, <2>2
    <2>4. ASSUME NEW k \in 0 .. n
          PROVE  f[k] = IF k = 0 THEN {FuncEntry} \ {a}
                        ELSE f[k - 1] \cup {b \in DOMAIN blocks \ {a} :
                                              \E e \in edges : e[1] \in f[k - 1] /\ e[2] = b}
      BY <2>3, Zenon DEF Onward
    <2>5. DOMAIN f = 0 .. n /\ f = [k \in DOMAIN f |-> f[k]]
      BY <1>4
    <2> QED
      BY <2>4, <2>5, Zenon
  <1> DEFINE reached == CHOOSE g : Is(g)
  <1>6. Is(reached)
    <2> HIDE DEF Is
    <2> QED
      BY <1>5
  <1>7. ReachedWithout(a) = reached[n]
    BY <1>1 DEF ReachedWithout
  <1> DEFINE T == {k \in Nat : k \in 0 .. n => reached[k] \in SUBSET S}
  <1>8. \A k \in 0 .. n : reached[k] = IF k = 0 THEN {FuncEntry} \ {a} ELSE Onward(reached[k - 1], a)
    <2> HIDE DEF reached
    <2> QED
      BY <1>6 DEF Onward
  <1> HIDE DEF reached
  <1>9. 0 \in T
    BY <1>3, <1>8
  <1>10. ASSUME NEW k \in Nat, k \in T PROVE k + 1 \in T
    <2> SUFFICES ASSUME k + 1 \in 0 .. n PROVE reached[k + 1] \in SUBSET S
      OBVIOUS
    <2>1. k \in 0 .. n /\ k + 1 # 0 /\ (k + 1) - 1 = k
      OBVIOUS
    <2>2. reached[k] \in SUBSET S
      BY <1>10, <2>1
    <2>3. next[reached[k]] \in SUBSET S
      BY <1>2, <2>2
    <2> QED
      BY <1>8, <2>1, <2>2, <2>3
  <1> HIDE DEF T
  <1>11. n \in T
    BY <1>9, <1>10, AllNaturals
  <1> QED
    BY <1>7, <1>11 DEF T
\* The structure a position is in, its target and what waits in it.
Waiting(i) == {blockEntries[i].block, cfEntries[i].end, cfEntries[i].else}

\* The blocks an instruction may branch to: targets and ends.
Reachable(b) == \E i \in DOMAIN cfEntries : b \in {blockEntries[i].block, cfEntries[i].end}

\* What the paths that avoid a block may reach, beyond a set.
Beyond(S, d) == S \cup {d, NoBlock}
AroundBeyond(i, S, d) == \A j \in 1 .. i - 1 : Waiting(j) \subseteq Beyond(S, d)

\* S holds what is reached without d, and what will be: no edge leaves it but
\* to d, and code in it may branch to the structures open around it.
Region(d, S) ==
    /\ d \in DOMAIN blocks /\ S \subseteq DOMAIN blocks \ {d}
    /\ FuncEntry \in Beyond(S, d)
    /\ \A e \in edges : e[1] \in S => e[2] \in Beyond(S, d)
    /\ insertBlock \in S => \A i \in DOMAIN cfEntries : Waiting(i) \subseteq Beyond(S, d)
    /\ \A i \in DOMAIN cfEntries : cfEntries[i].end \in S => AroundBeyond(i, S, d)
    /\ \A i \in DOMAIN cfEntries :
         cfEntries[i].else \in S =>
           /\ AroundBeyond(i, S, d)
           /\ {blockEntries[i].block, cfEntries[i].end} \subseteq Beyond(S, d)

\* The code the operand at p is for is none of what is reached without the
\* block that computes it: the insertion point, and what waits inside the
\* structure the operand is in.
Apart(p, S) ==
    /\ insertBlock \notin S
    /\ \A i \in DOMAIN cfEntries :
         Outer(i) >= p => cfEntries[i].end \notin S /\ cfEntries[i].else \notin S

OperandsApart ==
    \A p \in DOMAIN evalStack :
        evalStack[p].def # NoBlock => \E S : Region(evalStack[p].def, S) /\ Apart(p, S)
UsesApart ==
    \A u \in uses : u[2] \in DOMAIN blocks /\ \E S : Region(u[1], S) /\ u[2] \notin S

Dominance == FuncEntry \in DOMAIN blocks /\ OperandsApart /\ UsesApart

\* A region has what is reached without its block.
LEMMA RegionHolds ==
    ASSUME TypeOK, NEW d, NEW S, Region(d, S)
    PROVE  ReachedWithout(d) \subseteq S
PROOF
  <1>1. blocks \in Seq(ResultTypes)
    BY DEF TypeOK
  <1>2. FuncEntry \in S \cup {d}
    <2>1. NoBlock # FuncEntry
      BY DEF NoBlock, FuncEntry
    <2> QED
      BY <2>1 DEF Region, Beyond
  <1>3. \A e \in edges : e[1] \in S => e[2] \in S \cup {d, NoBlock}
    BY DEF Region, Beyond
  <1> QED
    BY <1>1, <1>2, <1>3, ReachedWithin

\* All blocks but one are a region of that one.
LEMMA FreshRegion ==
    ASSUME IInv', GraphInv', status' = "body", (FuncEntry \in DOMAIN blocks)',
           NEW d, d \in DOMAIN blocks'
    PROVE  \E S : Region(d, S)' /\ S = DOMAIN blocks' \ {d}
PROOF
  <1>1. PICK S : S = DOMAIN blocks' \ {d}
    OBVIOUS
  <1>2. (Within /\ EndsTyped /\ TargetsTyped /\ Open)'
    BY DEF GraphInv, OpenInv, Phis
  <1>3. (DOMAIN blockEntries = DOMAIN cfEntries)'
    BY DEF IInv, StacksInv, FramesAligned, TypeOK
  <1>4. \A b \in DOMAIN blocks' : b \in Beyond(S, d)
    BY <1>1 DEF Beyond
  <1>5. ASSUME NEW i \in DOMAIN cfEntries' PROVE (Waiting(i))' \subseteq Beyond(S, d)
    <2>1. cfEntries'[i].end \in DOMAIN blocks' /\ blockEntries'[i].block \in DOMAIN blocks'
      BY <1>2, <1>3 DEF EndsTyped, TargetsTyped
    <2>2. cfEntries'[i].else \in DOMAIN blocks' \cup {NoBlock}
      BY <1>2 DEF Open, Elses
    <2>3. NoBlock \in Beyond(S, d)
      BY DEF Beyond
    <2> QED
      BY <1>4, <2>1, <2>2, <2>3 DEF Waiting
  <1>6. (DOMAIN cfEntries)' = 1 .. Len(cfEntries') /\ Len(cfEntries') \in Nat
    BY DEF IInv, TypeOK
  <1>7. ASSUME NEW i \in DOMAIN cfEntries' PROVE AroundBeyond(i, S, d)'
    <2>1. \A j \in 1 .. i - 1 : j \in DOMAIN cfEntries'
      BY <1>6
    <2> QED
      BY <1>5, <2>1 DEF AroundBeyond
  <1>8. \A e \in edges' : e[2] \in Beyond(S, d)
    BY <1>2, <1>4 DEF Within
  <1>9. FuncEntry \in Beyond(S, d)
    BY <1>4
  <1>10. d \in DOMAIN blocks' /\ S \subseteq DOMAIN blocks' \ {d}
    BY <1>1
  <1>11. \A i \in DOMAIN cfEntries' : {blockEntries'[i].block, cfEntries'[i].end} \subseteq Beyond(S, d)
    BY <1>5 DEF Waiting
  <1>12. Region(d, S)'
    BY <1>5, <1>7, <1>8, <1>9, <1>10, <1>11, Zenon DEF Region
  <1> QED
    BY <1>1, <1>12

-----------------------------------------------------------------------------
(* Code is appended.                                                       *)

\* Blocks are added, and edges from the insertion point or between new blocks
\* to new blocks or to the structures that are open.
Appends(E) ==
    /\ DOMAIN blocks' = DOMAIN blocks \cup New /\ DOMAIN blocks \cap New = {}
    /\ insertBlock' \in {insertBlock} \cup New
    /\ edges' = edges \cup E
    /\ \A e \in E : e[1] \in {insertBlock} \cup New /\ (e[2] \in New \/ Reachable(e[2]))

\* The open structures stay, and those that open wait in new blocks.
Opened ==
    /\ DOMAIN cfEntries \subseteq DOMAIN cfEntries'
    /\ \A i \in DOMAIN cfEntries : Waiting(i)' = Waiting(i) /\ Outer(i)' = Outer(i)
                                   /\ cfEntries'[i].end = cfEntries[i].end
                                   /\ cfEntries'[i].else = cfEntries[i].else
                                   /\ blockEntries'[i].block = blockEntries[i].block
    /\ \A i \in DOMAIN cfEntries' \ DOMAIN cfEntries :
         /\ cfEntries'[i].end \in New /\ blockEntries'[i].block \in New
         /\ cfEntries'[i].else \in New \cup {NoBlock}

Grows(E) == Appends(E) /\ Opened

\* What a region becomes: the new blocks join it when they follow it.
Grown(S) == IF insertBlock \in S THEN S \cup New ELSE S

\* A region grows with the blocks entered from it.
LEMMA RegionGrows ==
    ASSUME IInv, GraphInv, InBody, TypeOK', NEW E, Grows(E), NEW d, NEW S, Region(d, S)
    PROVE  \E R : Region(d, R)' /\ R = Grown(S)
PROOF
  <1>1. PICK R : R = Grown(S)
    OBVIOUS
  <1>2. /\ Within /\ EndsTyped /\ TargetsTyped /\ Open
        /\ DOMAIN cfEntries = 1 .. Len(cfEntries) /\ Len(cfEntries) \in Nat
        /\ DOMAIN cfEntries' = 1 .. Len(cfEntries') /\ Len(cfEntries') \in Nat
    BY StackLengths, TypePartsNext DEF GraphInv, OpenInv, Phis, InBody, StackTypes
  <1>3. NoBlock \notin DOMAIN blocks' /\ NoBlock \notin DOMAIN blocks /\ NoBlock \notin New
    <2>1. blocks' \in Seq(ResultTypes)
      BY DEF TypeOK
    <2> QED
      BY <2>1, LenProperties DEF NoBlock, Grows, Appends, Opened
  <1>4. S \subseteq R /\ S \subseteq DOMAIN blocks /\ d \in DOMAIN blocks /\ d \notin S
    BY <1>1 DEF Grown, Region
  <1>5. \A b \in DOMAIN blocks : b \in R => b \in S
    BY <1>1 DEF Grown, Grows, Appends, Opened
  <1>6. \A b \in New : b \in R => insertBlock \in S /\ R = S \cup New
    BY <1>1, <1>4 DEF Grown, Grows, Appends, Opened
  <1>7. d \in DOMAIN blocks' /\ R \subseteq DOMAIN blocks' \ {d}
    BY <1>1, <1>4 DEF Grown, Grows, Appends, Opened
  <1>8. Beyond(S, d) \subseteq Beyond(R, d) /\ (insertBlock \in S => New \subseteq Beyond(R, d))
    BY <1>1, <1>4 DEF Beyond, Grown
  <1>9. FuncEntry \in Beyond(R, d)
    BY <1>8 DEF Region
  <1>10. insertBlock' \in R => insertBlock \in S
    BY <1>1, <1>6 DEF Grows, Appends, Opened, Grown
  <1>11. ASSUME NEW e \in edges', e[1] \in R PROVE e[2] \in Beyond(R, d)
    <2>1. CASE e \in edges
      BY <1>2, <1>5, <1>8, <1>11, <2>1 DEF Within, Region
    <2>2. CASE e \in E
      <3>1. insertBlock \in S
        BY <1>1, <1>6, <1>11, <2>2 DEF Grows, Appends, Opened, Grown
      <3>2. \A b : Reachable(b) => b \in Beyond(S, d)
        BY <3>1 DEF Region, Reachable, Waiting
      <3> QED
        BY <1>8, <2>2, <3>1, <3>2 DEF Grows, Appends, Opened
    <2> QED
      BY <2>1, <2>2 DEF Grows, Appends, Opened
  <1>12. ASSUME insertBlock \in S, NEW i \in DOMAIN cfEntries'
         PROVE  Waiting(i)' \subseteq Beyond(R, d)
    <2>1. CASE i \in DOMAIN cfEntries
      BY <1>8, <1>12, <2>1 DEF Grows, Appends, Opened, Region
    <2>2. CASE i \notin DOMAIN cfEntries
      <3>1. /\ cfEntries'[i].end \in New /\ blockEntries'[i].block \in New
            /\ cfEntries'[i].else \in New \cup {NoBlock}
        BY <2>2 DEF Grows, Appends, Opened
      <3>2. New \cup {NoBlock} \subseteq Beyond(R, d)
        BY <1>8, <1>12 DEF Beyond
      <3> QED
        BY <3>1, <3>2 DEF Waiting
    <2> QED
      BY <2>1, <2>2
  <1>13. ASSUME NEW i \in DOMAIN cfEntries, AroundBeyond(i, S, d)
         PROVE  AroundBeyond(i, R, d)'
    <2>1. \A j \in 1 .. i - 1 : j \in DOMAIN cfEntries
      BY <1>2
    <2> QED
      BY <1>8, <1>13, <2>1 DEF AroundBeyond, Grows, Appends, Opened
  <1>14. ASSUME insertBlock \in S, NEW i \in DOMAIN cfEntries'
         PROVE  AroundBeyond(i, R, d)'
    <2>1. \A j \in 1 .. i - 1 : j \in DOMAIN cfEntries'
      BY <1>2
    <2> QED
      BY <1>12, <1>14, <2>1 DEF AroundBeyond
  <1>15. ASSUME NEW i \in DOMAIN cfEntries', cfEntries'[i].end \in R
         PROVE  AroundBeyond(i, R, d)'
    <2>1. CASE i \in DOMAIN cfEntries
      <3>1. cfEntries[i].end \in S
        BY <1>2, <1>5, <1>15, <2>1 DEF Grows, Appends, Opened, EndsTyped
      <3> QED
        BY <1>13, <2>1, <3>1 DEF Region
    <2>2. CASE i \notin DOMAIN cfEntries
      BY <1>6, <1>14, <1>15, <2>2 DEF Grows, Appends, Opened
    <2> QED
      BY <2>1, <2>2
  <1>16. ASSUME NEW i \in DOMAIN cfEntries', cfEntries'[i].else \in R
         PROVE  /\ AroundBeyond(i, R, d)'
                /\ {blockEntries'[i].block, cfEntries'[i].end} \subseteq Beyond(R, d)
    <2>1. CASE i \in DOMAIN cfEntries
      <3>1. cfEntries[i].else \in DOMAIN blocks
        <4>1. cfEntries[i].else # NoBlock
          BY <1>3, <1>7, <1>16, <2>1 DEF Grows, Appends, Opened
        <4> QED
          BY <1>2, <2>1, <4>1 DEF Open, Elses
      <3>2. cfEntries[i].else \in S
        BY <1>5, <1>16, <2>1, <3>1 DEF Grows, Appends, Opened
      <3>3. AroundBeyond(i, S, d) /\ {blockEntries[i].block, cfEntries[i].end} \subseteq Beyond(S, d)
        BY <2>1, <3>2 DEF Region
      <3>4. {blockEntries'[i].block, cfEntries'[i].end} \subseteq Beyond(R, d)
        BY <1>8, <2>1, <3>3 DEF Grows, Appends, Opened
      <3> QED
        BY <1>13, <2>1, <3>3, <3>4
    <2>2. CASE i \notin DOMAIN cfEntries
      <3>1. cfEntries'[i].else \in New
        BY <1>3, <1>7, <1>16, <2>2 DEF Grows, Appends, Opened
      <3>2. insertBlock \in S
        BY <1>6, <1>16, <3>1
      <3>3. {blockEntries'[i].block, cfEntries'[i].end} \subseteq Beyond(R, d)
        BY <1>8, <2>2, <3>2 DEF Grows, Appends, Opened
      <3> QED
        BY <1>14, <3>2, <3>3
    <2> QED
      BY <2>1, <2>2
  <1>17. Region(d, R)'
    BY <1>7, <1>9, <1>10, <1>11, <1>12, <1>15, <1>16, Zenon DEF Region
  <1> QED
    BY <1>1, <1>17

-----------------------------------------------------------------------------
(* What a step must do to keep the dominance.                              *)

\* A value that stays where it is.
Kept(p) ==
    p \in DOMAIN evalStack /\ p \in DOMAIN evalStack' /\ evalStack'[p].def = evalStack[p].def

\* A value computed where code is appended, above the operands of the
\* structures around it, or a constant.
Fresh(p) ==
    \/ evalStack'[p].def = NoBlock
    \/ /\ evalStack'[p].def = insertBlock' /\ insertBlock' \in DOMAIN blocks'
       /\ \A i \in DOMAIN cfEntries' : ~ (Outer(i)' >= p)

\* The uses are of values on the stack, in the code that is appended.
UsesAdded ==
    \A u \in uses' :
        \/ u \in uses
        \/ /\ u[2] = insertBlock /\ insertBlock \in DOMAIN blocks /\ u[1] # NoBlock
           /\ \E p \in DOMAIN evalStack : evalStack[p].def = u[1]

\* A region becomes a region of the same block, with no more of the blocks that
\* were there, and apart from what its block's values on the stack are for.
RegionsKept ==
    \A d, S : Region(d, S) =>
        \E Q : /\ Region(d, Q)' /\ Q \cap DOMAIN blocks \subseteq S
               /\ \A p : Kept(p) /\ ~Fresh(p) /\ Apart(p, S) => Apart(p, Q)'

\* A step that keeps the regions keeps the dominance.
LEMMA DominanceKept ==
    ASSUME Dominance, IInv', GraphInv', status' = "body", DOMAIN blocks \subseteq DOMAIN blocks',
           RegionsKept, UsesAdded, \A p \in DOMAIN evalStack' : Kept(p) \/ Fresh(p)
    PROVE  Dominance'
PROOF
  <1>1. FuncEntry \in DOMAIN blocks'
    BY DEF Dominance
  <1>2. ASSUME NEW p \in DOMAIN evalStack', evalStack'[p].def # NoBlock
        PROVE  \E d, S : d = evalStack'[p].def /\ Region(d, S)' /\ Apart(p, S)'
    <2>1. CASE Kept(p) /\ ~Fresh(p)
      <3>1. PICK S : Region(evalStack[p].def, S) /\ Apart(p, S)
        BY <1>2, <2>1 DEF Kept, Dominance, OperandsApart
      <3>2. PICK d : d = evalStack[p].def /\ d = evalStack'[p].def
        BY <2>1 DEF Kept
      <3>3. Region(d, S)
        BY <3>1, <3>2
      <3>4. PICK Q : Region(d, Q)' /\ Apart(p, Q)'
        BY <2>1, <3>1, <3>3 DEF RegionsKept
      <3> QED
        BY <3>2, <3>4
    <2>2. CASE Fresh(p)
      <3>1. PICK d : d = insertBlock'
        OBVIOUS
      <3>2. evalStack'[p].def = d /\ d \in DOMAIN blocks'
        BY <1>2, <2>2, <3>1 DEF Fresh
      <3>3. PICK S : Region(d, S)' /\ S = DOMAIN blocks' \ {d}
        BY <1>1, <3>2, FreshRegion
      <3>4. insertBlock' \notin S /\ \A i \in DOMAIN cfEntries' : ~ (Outer(i)' >= p)
        BY <1>2, <2>2, <3>1, <3>3 DEF Fresh
      <3>5. Apart(p, S)'
        BY <3>4 DEF Apart
      <3> QED
        BY <3>2, <3>3, <3>5
    <2> QED
      BY <2>1, <2>2
  <1>3. ASSUME NEW u \in uses'
        PROVE  u[2] \in DOMAIN blocks' /\ \E S : Region(u[1], S)' /\ u[2] \notin S
    <2>1. PICK S : Region(u[1], S) /\ u[2] \notin S /\ u[2] \in DOMAIN blocks
      <3>1. CASE u \in uses
        BY <3>1 DEF Dominance, UsesApart
      <3>2. CASE u \notin uses
        <4>1. /\ u[2] = insertBlock /\ insertBlock \in DOMAIN blocks /\ u[1] # NoBlock
              /\ \E p \in DOMAIN evalStack : evalStack[p].def = u[1]
          BY <3>2 DEF UsesAdded
        <4>2. PICK p \in DOMAIN evalStack : evalStack[p].def = u[1]
          BY <4>1
        <4>3. PICK S : Region(u[1], S) /\ Apart(p, S)
          BY <4>1, <4>2 DEF Dominance, OperandsApart
        <4> QED
          BY <4>1, <4>3 DEF Apart
      <3> QED
        BY <3>1, <3>2
    <2>2. PICK d : d = u[1]
      OBVIOUS
    <2>3. PICK Q : Region(d, Q)' /\ Q \cap DOMAIN blocks \subseteq S
      BY <2>1, <2>2 DEF RegionsKept
    <2>4. Region(u[1], Q)'
      BY <2>2, <2>3
    <2> QED
      BY <2>1, <2>3, <2>4
  <1>4. OperandsApart'
    BY <1>2, ZenonT(30) DEF OperandsApart, Region
  <1>5. UsesApart'
    BY <1>3 DEF UsesApart
  <1> QED
    BY <1>1, <1>4, <1>5 DEF Dominance

\* Code that is appended keeps the regions.
LEMMA GrowsKeeps ==
    ASSUME IInv, GraphInv, InBody, TypeOK', NEW E, Grows(E)
    PROVE  RegionsKept /\ DOMAIN blocks \subseteq DOMAIN blocks'
PROOF
  <1>1. ASSUME NEW d, NEW S, Region(d, S)
        PROVE  \E Q : /\ Region(d, Q)' /\ Q \cap DOMAIN blocks \subseteq S
                      /\ \A p : Kept(p) /\ ~Fresh(p) /\ Apart(p, S) => Apart(p, Q)'
    <2>1. PICK Q : Region(d, Q)' /\ Q = Grown(S)
      BY <1>1, RegionGrows
    <2>2. Q \cap DOMAIN blocks \subseteq S
      BY <2>1 DEF Grown, Grows, Appends, Opened
    <2>3. S \cap New = {} /\ NoBlock \notin S
      <3>1. blocks \in Seq(ResultTypes)
        BY DEF IInv, TypeOK
      <3> QED
        BY <1>1, <3>1, LenProperties DEF Region, Grows, Appends, Opened, NoBlock
    <2>4. ASSUME NEW p, Apart(p, S)
          PROVE  Apart(p, Q)'
      <3>1. insertBlock \notin S /\ Q = S
        BY <2>1, <2>4 DEF Apart, Grown
      <3>2. insertBlock' \notin S
        BY <2>3, <3>1 DEF Grows, Appends, Opened
      <3>3. ASSUME NEW i \in DOMAIN cfEntries', Outer(i)' >= p
            PROVE  cfEntries'[i].end \notin S /\ cfEntries'[i].else \notin S
        <4>1. CASE i \in DOMAIN cfEntries
          BY <2>4, <3>3, <4>1 DEF Apart, Grows, Appends, Opened
        <4>2. CASE i \notin DOMAIN cfEntries
          BY <2>3, <4>2 DEF Grows, Appends, Opened
        <4> QED
          BY <4>1, <4>2
      <3>4. Apart(p, S)'
        BY <3>2, <3>3 DEF Apart
      <3> QED
        BY <3>1, <3>4
    <2> QED
      BY <2>1, <2>2, <2>4
  <1>2. RegionsKept
    BY <1>1 DEF RegionsKept
  <1> QED
    BY <1>2 DEF Grows, Appends, Opened

\* Operands of an instruction are used where its code is.
LEMMA UsedOperands ==
    ASSUME TypeOK, NEW n \in Nat, n <= Len(evalStack), uses' = Use(n),
           n = 0 \/ insertBlock \in DOMAIN blocks
    PROVE  UsesAdded
PROOF
  <1>1. evalStack \in Seq(Operands) /\ Len(evalStack) \in Nat /\ DOMAIN evalStack = 1 .. Len(evalStack)
    BY TypeParts, LenProperties DEF StackTypes
  <1>2. ASSUME NEW u \in uses', u \notin uses
        PROVE  /\ u[2] = insertBlock /\ insertBlock \in DOMAIN blocks /\ u[1] # NoBlock
               /\ \E p \in DOMAIN evalStack : evalStack[p].def = u[1]
    <2>1. PICK d \in {evalStack[i].def : i \in Len(evalStack) - n + 1 .. Len(evalStack)} :
             u = <<d, insertBlock>> /\ d # NoBlock
      BY <1>2 DEF Use
    <2>2. PICK i \in Len(evalStack) - n + 1 .. Len(evalStack) : d = evalStack[i].def
      BY <2>1
    <2>3. i \in DOMAIN evalStack /\ n # 0
      BY <1>1, <2>2
    <2> QED
      BY <2>1, <2>2, <2>3
  <1> QED
    BY <1>2 DEF UsesAdded

\* Nothing is used by an instruction without operands.
LEMMA NothingUsed ==
    ASSUME uses' = uses
    PROVE  UsesAdded
BY DEF UsesAdded

-----------------------------------------------------------------------------
(* The instructions that append code.                                      *)

\* Structures that are left alone.
LEMMA SameOpened ==
    ASSUME UNCHANGED <<cfEntries, blockEntries>>
    PROVE  Opened
BY DEF Opened, Waiting, Outer

\* A jump leaves the structures open.
LEMMA SkipOpened ==
    ASSUME IInv, InBody, NEW stack, SkipUnreachable(stack), blockEntries' = blockEntries
    PROVE  Opened
PROOF
  <1>1. PICK n \in Nat \ {0} : n = Len(cfEntries)
    BY TopType DEF IInv
  <1>2. /\ cfEntries \in Seq(Entries) /\ DOMAIN cfEntries = 1 .. n
    BY <1>1, StackLengths
  <1>3. /\ DOMAIN cfEntries' = DOMAIN cfEntries
        /\ cfEntries' = [cfEntries EXCEPT ![n] = [cfEntries[n] EXCEPT !.reachable = FALSE]]
    BY <1>1, <1>2 DEF SkipUnreachable
  <1>4. ASSUME NEW i \in DOMAIN cfEntries
        PROVE  /\ cfEntries'[i].end = cfEntries[i].end /\ cfEntries'[i].else = cfEntries[i].else
               /\ cfEntries'[i].outerStackSize = cfEntries[i].outerStackSize
    <2>1. cfEntries[i] \in Entries
      BY <1>2
    <2> QED
      BY <1>2, <1>3, <2>1 DEF Entries
  <1>5. \A i \in DOMAIN cfEntries : Waiting(i)' = Waiting(i) /\ Outer(i)' = Outer(i)
    BY <1>4 DEF Waiting, Outer
  <1> QED
    BY <1>3, <1>4, <1>5 DEF Opened

\* A structure opens with blocks of its own.
LEMMA PushOpened ==
    ASSUME IInv, NEW instr \in Kinds, NEW signature \in ResultTypes, NEW end \in Nat,
           NEW else \in Nat, NEW stack \in Seq(Operands), NEW target \in ResultTypes,
           NEW block \in Nat,
           PushCFEntry(instr, signature, end, else, stack), PushBlockEntry(target, block),
           end \in New, block \in New, else \in New \cup {NoBlock}
    PROVE  Opened
PROOF
  <1>1. PICK n \in Nat : n = Len(cfEntries) /\ n = Len(blockEntries)
    BY StackLengths
  <1>2. /\ DOMAIN cfEntries = 1 .. n /\ DOMAIN cfEntries' = 1 .. n + 1
        /\ \A i \in 1 .. n : cfEntries'[i] = cfEntries[i] /\ blockEntries'[i] = blockEntries[i]
    BY <1>1, StackLengths, PushedEntry
  <1>3. /\ cfEntries \in Seq(Entries) /\ blockEntries \in Seq(Targets)
    BY StackLengths
  <1>4. /\ cfEntries'[n + 1].end = end /\ cfEntries'[n + 1].else = else
        /\ blockEntries'[n + 1].block = block
    <2>1. cfEntries'[n + 1].end = end /\ cfEntries'[n + 1].else = else
      <3>1. PICK entry : entry = [instr |-> instr, signature |-> signature, end |-> end, else |-> else,
                                  outerStackSize |-> Len(stack), outerBlockDepth |-> Len(blockEntries),
                                  reachable |-> TRUE]
        OBVIOUS
      <3>2. cfEntries' = Append(cfEntries, entry)
        BY <3>1 DEF PushCFEntry
      <3>3. entry \in Entries
        <4>1. Len(stack) \in Nat /\ Len(blockEntries) \in Nat
          BY <1>1, LenProperties
        <4> QED
          BY <3>1, <4>1 DEF Entries
      <3>4. cfEntries'[n + 1] = entry
        <4>1. Append(cfEntries, entry)[Len(cfEntries) + 1] = entry
          BY <1>3, <3>3, AppendProperties
        <4> QED
          BY <1>1, <3>2, <4>1
      <3> QED
        BY <3>1, <3>4
    <2>2. blockEntries'[n + 1].block = block
      <3>1. PICK entry : entry = [signature |-> target, block |-> block]
        OBVIOUS
      <3>2. blockEntries' = Append(blockEntries, entry)
        BY <3>1 DEF PushBlockEntry
      <3>3. entry \in Targets
        BY <3>1 DEF Targets
      <3>4. blockEntries'[n + 1] = entry
        <4>1. Append(cfEntries, entry)[Len(cfEntries) + 1] = entry
          BY <1>3, <3>3, AppendProperties
        <4> QED
          BY <1>1, <3>2, <4>1
      <3> QED
        BY <3>1, <3>4
    <2> QED
      BY <2>1, <2>2
  <1>5. \A i \in 1 .. n : Waiting(i)' = Waiting(i) /\ Outer(i)' = Outer(i)
    BY <1>2 DEF Waiting, Outer
  <1>6. \A i \in DOMAIN cfEntries' \ DOMAIN cfEntries : i = n + 1
    BY <1>2
  <1> QED
    BY <1>2, <1>4, <1>5, <1>6 DEF Opened

\* Blocks go after the others.
LEMMA BlocksAppend ==
    ASSUME IInv, NEW new \in Seq(ResultTypes), blocks' = blocks \o new,
           insertBlock' \in {insertBlock} \cup New, NEW E, edges' = edges \cup E,
           \A e \in E : e[1] \in {insertBlock} \cup New /\ (e[2] \in New \/ Reachable(e[2]))
    PROVE  Appends(E)
PROOF
  <1>1. /\ Len(blocks) \in Nat /\ Len(new) \in Nat /\ DOMAIN blocks = 1 .. Len(blocks)
        /\ DOMAIN blocks' = 1 .. Len(blocks) + Len(new)
        /\ New = Len(blocks) + 1 .. Len(blocks) + Len(new)
    BY BlocksAdded DEF IInv
  <1>2. DOMAIN blocks' = DOMAIN blocks \cup New /\ DOMAIN blocks \cap New = {}
    BY <1>1
  <1> QED
    BY <1>2 DEF Appends

\* Code in a straight line.
LEMMA NothingAppended ==
    ASSUME IInv, UNCHANGED <<blocks, edges, insertBlock>>
    PROVE  Appends({})
PROOF
  <1>1. New = {} /\ edges' = edges \cup {}
    <2>1. Len(blocks) \in Nat
      BY LenProperties DEF IInv, TypeOK
    <2> QED
      BY <2>1 DEF New
  <1> QED
    BY <1>1 DEF Appends

\* The block a depth names is one that code may branch to.
LEMMA TargetReachable ==
    ASSUME IInv, NEW depth \in Nat, InRange(depth)
    PROVE  Reachable(Target(depth).block)
PROOF
  <1>1. PICK n \in Nat : n = Len(cfEntries) /\ n = Len(blockEntries) /\ DOMAIN cfEntries = 1 .. n
    BY StackLengths
  <1>2. n - depth \in DOMAIN cfEntries
    BY <1>1 DEF InRange
  <1> QED
    BY <1>1, <1>2 DEF Reachable, Target

\* A trap is a block of its own, and one around it.
LEMMA TrapAppends ==
    ASSUME IInv, TrapIf
    PROVE  \E E : Appends(E)
PROOF
  <1> DEFINE then == Len(blocks) + 1
             skip == Len(blocks) + 2
             new == <<Void, Void>>
             E == {<<insertBlock, then, Taken>>, <<insertBlock, skip, NotTaken>>}
  <1>1. blocks' = blocks \o new /\ edges' = edges \cup E /\ insertBlock' = skip
    BY DEF TrapIf
  <1>2. new \in Seq(ResultTypes) /\ Len(new) = 2
    BY ValTypesFacts
  <1> HIDE DEF new
  <1>3. then \in New /\ skip \in New
    <2>1. Len(blocks) \in Nat /\ New = Len(blocks) + 1 .. Len(blocks) + 2
      BY <1>1, <1>2, BlocksAdded DEF IInv
    <2> QED
      BY <2>1
  <1> HIDE DEF then, skip
  <1>4. \A e \in E : e[1] \in {insertBlock} \cup New /\ e[2] \in New
    BY <1>3
  <1> HIDE DEF E
  <1> QED
    BY <1>1, <1>2, <1>3, <1>4, BlocksAppend

\* The diamond of a remainder has no edge out of it.
LEMMA SRemAppends ==
    ASSUME IInv, NEW type \in ResultTypes, SRemDiamond(type)
    PROVE  \E E : Appends(E)
PROOF
  <1> DEFINE then == Len(blocks) + 1
             skip == Len(blocks) + 2
             rem == Len(blocks) + 3
             end == Len(blocks) + 4
             new == <<Void, Void, Void, type>>
             E == {<<insertBlock, then, Taken>>, <<insertBlock, skip, NotTaken>>,
                   <<skip, rem, Taken>>, <<skip, end, NotTaken>>, <<rem, end, Taken>>}
  <1>1. blocks' = blocks \o new /\ edges' = edges \cup E /\ insertBlock' = end
    BY DEF SRemDiamond
  <1>2. new \in Seq(ResultTypes) /\ Len(new) = 4
    BY ValTypesFacts
  <1> HIDE DEF new
  <1>3. then \in New /\ skip \in New /\ rem \in New /\ end \in New
    <2>1. Len(blocks) \in Nat /\ New = Len(blocks) + 1 .. Len(blocks) + 4
      BY <1>1, <1>2, BlocksAdded DEF IInv
    <2> QED
      BY <2>1
  <1> HIDE DEF then, skip, rem, end
  <1>4. \A e \in E : e[1] \in {insertBlock} \cup New /\ e[2] \in New
    BY <1>3
  <1> HIDE DEF E
  <1> QED
    BY <1>1, <1>2, <1>3, <1>4, BlocksAppend

\* What an instruction of an open body that obeys the rules starts from, when
\* the translator does not stop at it.
Dominating ==
    /\ IInv /\ Agreement /\ DeadEmpty /\ GraphInv /\ Dominance /\ InBody
    /\ IInv' /\ GraphInv' /\ status' = "body"

\* Code that is appended, and values that are kept or fresh, keep the dominance.
LEMMA CodeAppended ==
    ASSUME Dominating, NEW E, Appends(E), Opened, UsesAdded,
           \A p \in DOMAIN evalStack' : Kept(p) \/ Fresh(p)
    PROVE  Dominance'
PROOF
  <1>1. IInv /\ GraphInv /\ InBody /\ TypeOK' /\ Grows(E) /\ Dominance /\ IInv' /\ GraphInv' /\ status' = "body"
    BY DEF Dominating, Grows, IInv
  <1> QED
    BY <1>1, GrowsKeeps, DominanceKept

\* The values left of a stack that is cut.
LEMMA PoppedKept ==
    ASSUME TypeOK, NEW n \in Nat, n <= Len(evalStack), evalStack' = Popped(n)
    PROVE  \A p \in DOMAIN evalStack' : Kept(p)
PROOF
  <1>1. PICK l \in Nat : l = Len(evalStack) /\ DOMAIN evalStack = 1 .. l
    BY TypeParts, LenProperties DEF StackTypes
  <1>2. /\ Popped(n) \in Seq(Operands) /\ Len(Popped(n)) = l - n
        /\ \A i \in 1 .. l - n : Popped(n)[i] = evalStack[i]
    BY <1>1, PoppedType
  <1>3. DOMAIN evalStack' = 1 .. l - n
    BY <1>2, LenProperties
  <1> QED
    BY <1>1, <1>2, <1>3 DEF Kept

\* The values left by a jump are those of the structures around it.
LEMMA SkipKeeps ==
    ASSUME TypeOK, InBody, NEW n \in Nat, Top.outerStackSize + n <= Len(evalStack),
           SkipUnreachable(Popped(n))
    PROVE  \A p \in DOMAIN evalStack' : Kept(p)
PROOF
  <1>1. PICK l \in Nat, base \in Nat : l = Len(evalStack) /\ DOMAIN evalStack = 1 .. l /\ base = Top.outerStackSize
    BY TypeParts, TopType, LenProperties DEF StackTypes
  <1>2. n <= Len(evalStack) /\ base <= l - n
    BY <1>1
  <1>3. PICK popped \in Seq(Operands) : popped = Popped(n)
    BY <1>2, PoppedType
  <1>4. Len(popped) = l - n /\ \A i \in 1 .. l - n : popped[i] = evalStack[i]
    BY <1>1, <1>2, <1>3, PoppedType
  <1>5. evalStack' = SubSeq(popped, 1, base)
    BY <1>1, <1>3 DEF SkipUnreachable
  <1>6. DOMAIN evalStack' = 1 .. base /\ \A i \in 1 .. base : evalStack'[i] = popped[i]
    BY <1>2, <1>3, <1>4, <1>5, Prefix
  <1>7. ASSUME NEW p \in 1 .. base PROVE p \in 1 .. l - n /\ p \in 1 .. l
    BY <1>2
  <1>8. ASSUME NEW p \in 1 .. base PROVE p \in DOMAIN evalStack /\ evalStack'[p] = evalStack[p]
    BY <1>1, <1>4, <1>6, <1>7
  <1> QED
    BY <1>6, <1>8 DEF Kept

\* The operands of an instruction are in the innermost structure, and what it
\* leaves in their place is above those around it.
LEMMA ReplacedOrKept ==
    ASSUME IInv, Agreement, InBody, NEW n \in Nat, Top.outerStackSize + n <= Len(evalStack),
           NEW result \in ResultTypes, NEW def \in Nat, Replace(n, result, def),
           def = NoBlock \/ (def = insertBlock' /\ insertBlock' \in DOMAIN blocks'),
           UNCHANGED cfEntries
    PROVE  \A p \in DOMAIN evalStack' : Kept(p) \/ Fresh(p)
PROOF
  <1>1. PICK l \in Nat, base \in Nat : l = Len(evalStack) /\ DOMAIN evalStack = 1 .. l /\ base = Top.outerStackSize
    BY TypeParts, TopType, LenProperties DEF StackTypes, IInv
  <1>2. PICK m \in Nat : m = l - n /\ n <= Len(evalStack) /\ base <= m /\ m <= l
    <2>1. l - n \in Nat /\ n <= l /\ base <= l - n /\ l - n <= l
      BY <1>1
    <2> QED
      BY <1>1, <2>1
  <1>3. PICK popped \in Seq(Operands) : popped = Popped(n)
    BY <1>2, PoppedType DEF IInv
  <1>4. Len(popped) = m /\ \A i \in 1 .. m : popped[i] = evalStack[i]
    <2>1. /\ Len(Popped(n)) = Len(evalStack) - n
          /\ \A i \in 1 .. Len(evalStack) - n : Popped(n)[i] = evalStack[i]
      BY <1>2, PoppedType DEF IInv
    <2>2. Len(evalStack) - n = m
      BY <1>1, <1>2
    <2> QED
      BY <1>3, <2>1, <2>2
  <1>5. PICK pushed \in Seq(Operands) : /\ pushed = Pushed(result, def) /\ Len(pushed) \in {0, 1}
                                        /\ \A k \in 1 .. Len(pushed) : pushed[k].def = def
    <2>1. Pushed(result, def) \in Seq(Operands)
      BY PushedTypes
    <2>2. /\ Len(Pushed(result, def)) \in {0, 1}
          /\ \A k \in 1 .. Len(Pushed(result, def)) : Pushed(result, def)[k].def = def
      BY DEF Pushed, Value
    <2> QED
      BY <2>1, <2>2
  <1>6. evalStack' = popped \o pushed
    BY <1>3, <1>5 DEF Replace, Pushed
  <1>7. /\ DOMAIN evalStack' = 1 .. m + Len(pushed)
        /\ \A i \in 1 .. m : evalStack'[i] = evalStack[i]
        /\ \A i \in DOMAIN evalStack' : i \notin 1 .. m => evalStack'[i].def = def
    <2>1. /\ Len(popped \o pushed) = Len(popped) + Len(pushed) /\ popped \o pushed \in Seq(Operands)
          /\ \A i \in 1 .. Len(popped) + Len(pushed) :
               (popped \o pushed)[i] = IF i <= Len(popped) THEN popped[i] ELSE pushed[i - Len(popped)]
      BY ConcatProperties
    <2>2. DOMAIN evalStack' = 1 .. m + Len(pushed)
      BY <1>4, <1>6, <2>1, LenProperties
    <2>3. Len(pushed) \in Nat /\ m \in Nat
      BY <1>5
    <2>4. ASSUME NEW i \in 1 .. m PROVE evalStack'[i] = evalStack[i]
      BY <1>4, <1>6, <2>1, <2>3
    <2>5. ASSUME NEW i \in DOMAIN evalStack', i \notin 1 .. m PROVE evalStack'[i].def = def
      <3>1. i \in 1 .. m + Len(pushed) /\ i > m /\ i - m \in 1 .. Len(pushed)
        BY <2>2, <2>3, <2>5
      <3>2. evalStack'[i] = pushed[i - m]
        BY <1>4, <1>6, <2>1, <2>3, <3>1
      <3> QED
        BY <1>5, <3>1, <3>2
    <2> QED
      BY <2>2, <2>4, <2>5
  <1>8. ASSUME NEW p \in DOMAIN evalStack', p \in 1 .. m PROVE Kept(p)
    <2>1. p \in 1 .. l
      BY <1>2, <1>8
    <2>2. evalStack'[p] = evalStack[p]
      BY <1>7, <1>8
    <2> QED
      BY <1>1, <2>1, <2>2 DEF Kept
  <1>9. ASSUME NEW p \in DOMAIN evalStack', p \notin 1 .. m PROVE Fresh(p)
    <2>1. p \in Nat /\ p > base
      BY <1>1, <1>2, <1>5, <1>7, <1>9
    <2>2. ASSUME NEW i \in DOMAIN cfEntries' PROVE ~ (Outer(i)' >= p)
      <3>1. i \in 1 .. Len(cfEntries)
        BY StackLengths
      <3>2. Outer(i) \in Nat /\ Outer(i) <= base
        BY <1>1, <3>1, Sizes
      <3>3. Outer(i)' = Outer(i)
        BY DEF Outer
      <3> QED
        BY <2>1, <3>2, <3>3
    <2> QED
      BY <1>7, <1>9, <2>2 DEF Fresh
  <1> QED
    BY <1>8, <1>9

\* Where an instruction of reachable code appends.
LEMMA DominatingLive ==
    ASSUME Dominating, Live
    PROVE  /\ IInv /\ TypeOK /\ GraphInv /\ Agreement /\ InBody /\ insertBlock \in DOMAIN blocks
           /\ \A outcome \in Finished : ~Stop(outcome)
PROOF
  <1>1. \A outcome \in Finished : ~Stop(outcome)
    BY DEF Dominating, Stop, Finished
  <1> QED
    BY <1>1, LiveFacts DEF Dominating

\* Operands that pop() finds are on the stack, above the outer structures.
LEMMA FitsAbove ==
    ASSUME TypeOK, InBody, NEW operands \in Seq(ValTypes), Fits(operands), NEW n, n = Len(operands)
    PROVE  n \in Nat /\ Top.outerStackSize + n <= Len(evalStack) /\ n <= Len(evalStack)
BY FitsLength, TopType, TypeParts, LenProperties DEF StackTypes

\* A jump that leaves a structure keeps the dominance.
LEMMA JumpDominance ==
    ASSUME Dominating, Live, NEW operands \in Seq(ValTypes), Fits(operands),
           SkipUnreachable(Popped(Len(operands))), uses' = Use(Len(operands)),
           UNCHANGED <<blockEntries, blocks, insertBlock>>,
           NEW E, edges' = edges \cup E, \A e \in E : e[1] = insertBlock /\ Reachable(e[2])
    PROVE  Dominance'
PROOF
  <1>1. IInv /\ TypeOK /\ InBody /\ insertBlock \in DOMAIN blocks
    BY DominatingLive
  <1>2. PICK n : n = Len(operands)
    OBVIOUS
  <1>3. n \in Nat /\ Top.outerStackSize + n <= Len(evalStack) /\ n <= Len(evalStack)
    BY <1>1, <1>2, FitsAbove
  <1>4. \A p \in DOMAIN evalStack' : Kept(p)
    BY <1>1, <1>2, <1>3, SkipKeeps
  <1>5. Opened
    BY <1>1, SkipOpened
  <1>6. UsesAdded
    BY <1>1, <1>2, <1>3, UsedOperands
  <1>7. Appends(E)
    <2>1. New = {}
      <3>1. Len(blocks) \in Nat
        BY <1>1, LenProperties DEF TypeOK
      <3> QED
        BY <3>1 DEF New
    <2> QED
      BY <2>1 DEF Appends
  <1> QED
    BY <1>4, <1>5, <1>6, <1>7, CodeAppended

\* Unreachable keeps the dominance.
LEMMA UnreachableDominance ==
    ASSUME Dominating, Unreachable
    PROVE  Dominance'
PROOF
  <1> DEFINE trap == Len(blocks) + 1
             after == Len(blocks) + 2
             new == <<Void, Void>>
             E == {<<insertBlock, trap, Taken>>, <<insertBlock, after, NotTaken>>}
  <1>1. Live
    BY DEF Unreachable
  <1>2. /\ IInv /\ TypeOK /\ InBody /\ ~Stop("invalid")
    BY <1>1, DominatingLive DEF Finished
  <1>3. /\ Len(evalStack) >= Top.outerStackSize /\ blocks' = blocks \o new /\ edges' = edges \cup E
        /\ insertBlock' = after /\ SkipUnreachable(evalStack) /\ UNCHANGED <<blockEntries, uses>>
    BY <1>2 DEF Unreachable
  <1>4. new \in Seq(ResultTypes) /\ Len(new) = 2
    BY ValTypesFacts
  <1> HIDE DEF new
  <1>5. trap \in New /\ after \in New
    <2>1. Len(blocks) \in Nat /\ New = Len(blocks) + 1 .. Len(blocks) + 2
      BY <1>2, <1>3, <1>4, BlocksAdded
    <2> QED
      BY <2>1
  <1> HIDE DEF trap, after
  <1>6. \A e \in E : e[1] \in {insertBlock} \cup New /\ e[2] \in New
    BY <1>5
  <1> HIDE DEF E
  <1>7. Appends(E)
    BY <1>2, <1>3, <1>4, <1>5, <1>6, BlocksAppend
  <1>8. \A p \in DOMAIN evalStack' : Kept(p)
    <2>1. Popped(0) = evalStack
      BY <1>2, NothingPopped
    <2>2. Top.outerStackSize + 0 <= Len(evalStack) /\ SkipUnreachable(Popped(0))
      BY <1>2, <1>3, <2>1, TopType
    <2> QED
      BY <1>2, <2>2, SkipKeeps
  <1>9. Opened
    BY <1>2, <1>3, SkipOpened
  <1>10. UsesAdded
    BY <1>3, NothingUsed
  <1> QED
    BY <1>7, <1>8, <1>9, <1>10, CodeAppended

\* Br keeps the dominance.
LEMMA BrDominance ==
    ASSUME Dominating, NEW depth \in Depths, Br(depth)
    PROVE  Dominance'
PROOF
  <1> DEFINE E == {<<insertBlock, Target(depth).block, Taken>>}
  <1>1. Live
    BY DEF Br
  <1>2. /\ IInv /\ TypeOK /\ InBody /\ ~Stop("invalid")
    BY <1>1, DominatingLive DEF Finished
  <1>3. /\ InRange(depth) /\ Fits(Carried(Target(depth).signature))
        /\ SkipUnreachable(Popped(Len(Carried(Target(depth).signature))))
        /\ uses' = Use(Len(Carried(Target(depth).signature)))
        /\ UNCHANGED <<blockEntries, blocks, insertBlock>> /\ edges' = edges \cup E
    BY <1>2 DEF Br
  <1>4. /\ Reachable(Target(depth).block) /\ Carried(Target(depth).signature) \in Seq(ValTypes)
    BY <1>2, <1>3, DepthsNat, TargetReachable, TargetType, CarriedType
  <1>5. \A e \in E : e[1] = insertBlock /\ Reachable(e[2])
    BY <1>4
  <1> HIDE DEF E
  <1> QED
    BY <1>1, <1>3, <1>4, <1>5, JumpDominance

\* BrTable keeps the dominance.
LEMMA BrTableDominance ==
    ASSUME Dominating, NEW n \in 0 .. MaxTargets, NEW depths \in [1 .. n -> Depths],
           NEW default \in Depths, BrTable(depths, default)
    PROVE  Dominance'
PROOF
  <1> DEFINE operands == Carried(Target(default).signature) \o <<"i32">>
             E == {<<insertBlock, Target(default).block, Taken>>} \cup
                    {<<insertBlock, Target(depths[i]).block, Case(i)>> : i \in DOMAIN depths}
  <1>1. Live
    BY DEF BrTable
  <1>2. /\ IInv /\ TypeOK /\ InBody /\ ~Stop("invalid")
    BY <1>1, DominatingLive DEF Finished
  <1>3. /\ InRange(default) /\ Fits(operands) /\ \A i \in DOMAIN depths : InRange(depths[i])
        /\ SkipUnreachable(Popped(Len(operands))) /\ uses' = Use(Len(operands))
        /\ UNCHANGED <<blockEntries, blocks, insertBlock>> /\ edges' = edges \cup E
    <2>1. edges \cup E = edges \cup {<<insertBlock, Target(default).block, Taken>>} \cup
                    {<<insertBlock, Target(depths[i]).block, Case(i)>> : i \in DOMAIN depths}
      BY Zenon
    <2> HIDE DEF E
    <2> QED
      BY <1>2, <2>1 DEF BrTable
  <1>4. /\ Reachable(Target(default).block) /\ operands \in Seq(ValTypes)
    BY <1>2, <1>3, DepthsNat, TargetReachable, TargetType, OperandsType
  <1>5. \A i \in DOMAIN depths : Reachable(Target(depths[i]).block)
    <2>1. \A i \in DOMAIN depths : depths[i] \in Depths
      OBVIOUS
    <2> QED
      BY <1>2, <1>3, <2>1, DepthsNat, TargetReachable
  <1>6. \A e \in E : e[1] = insertBlock /\ Reachable(e[2])
    BY <1>4, <1>5
  <1> HIDE DEF E, operands
  <1> QED
    BY <1>1, <1>3, <1>4, <1>6, JumpDominance

\* Return keeps the dominance.
LEMMA ReturnDominance ==
    ASSUME Dominating, Return
    PROVE  Dominance'
PROOF
  <1> DEFINE E == {<<insertBlock, cfEntries[1].end, Taken>>}
  <1>1. Live
    BY DEF Return
  <1>2. /\ IInv /\ TypeOK /\ InBody /\ ~Stop("invalid")
    BY <1>1, DominatingLive DEF Finished
  <1>3. /\ Fits(Carried(returnType)) /\ SkipUnreachable(Popped(Len(Carried(returnType))))
        /\ uses' = Use(Len(Carried(returnType)))
        /\ UNCHANGED <<blockEntries, blocks, insertBlock>> /\ edges' = edges \cup E
    BY <1>2 DEF Return
  <1>4. Carried(returnType) \in Seq(ValTypes)
    BY <1>2, CarriedType DEF TypeOK
  <1>5. Reachable(cfEntries[1].end)
    <2>1. 1 \in DOMAIN cfEntries
      BY <1>2, StackLengths, TopType
    <2> QED
      BY <2>1 DEF Reachable
  <1>6. \A e \in E : e[1] = insertBlock /\ Reachable(e[2])
    BY <1>5
  <1> HIDE DEF E
  <1> QED
    BY <1>1, <1>3, <1>4, <1>6, JumpDominance

\* BrIf keeps the dominance.
LEMMA BrIfDominance ==
    ASSUME Dominating, NEW depth \in Depths, BrIf(depth)
    PROVE  Dominance'
PROOF
  <1> DEFINE operands == Carried(Target(depth).signature) \o <<"i32">>
             after == Len(blocks) + 1
             new == <<Void>>
             E == {<<insertBlock, Target(depth).block, Taken>>, <<insertBlock, after, NotTaken>>}
  <1>1. Live
    BY DEF BrIf
  <1>2. /\ IInv /\ TypeOK /\ InBody /\ insertBlock \in DOMAIN blocks /\ ~Stop("invalid")
    BY <1>1, DominatingLive DEF Finished
  <1>3. /\ InRange(depth) /\ Fits(operands) /\ blocks' = Append(blocks, Void)
        /\ edges' = edges \cup E /\ insertBlock' = after
        /\ uses' = Use(Len(operands)) /\ evalStack' = Popped(1)
        /\ UNCHANGED <<cfEntries, blockEntries>>
    BY <1>2 DEF BrIf
  <1>4. new \in Seq(ResultTypes) /\ Len(new) = 1 /\ blocks' = blocks \o new
    <2>1. Void \in ResultTypes /\ blocks \in Seq(ResultTypes)
      BY <1>2, ValTypesFacts DEF TypeOK
    <2>2. Append(blocks, Void) = blocks \o <<Void>>
      BY <2>1, AppendIsConcat
    <2> QED
      BY <1>3, <2>1, <2>2
  <1> HIDE DEF new
  <1>5. after \in New
    <2>1. Len(blocks) \in Nat /\ New = Len(blocks) + 1 .. Len(blocks) + 1
      BY <1>2, <1>4, BlocksAdded
    <2> QED
      BY <2>1
  <1> HIDE DEF after
  <1>6. /\ Reachable(Target(depth).block) /\ operands \in Seq(ValTypes)
        /\ Len(operands) = Len(Carried(Target(depth).signature)) + 1
        /\ Len(Carried(Target(depth).signature)) \in Nat
    BY <1>2, <1>3, DepthsNat, TargetReachable, TargetType, OperandsType
  <1>7. \A e \in E : e[1] \in {insertBlock} \cup New /\ (e[2] \in New \/ Reachable(e[2]))
    BY <1>5, <1>6
  <1> HIDE DEF E
  <1>8. Appends(E)
    BY <1>2, <1>3, <1>4, <1>5, <1>7, BlocksAppend
  <1>9. PICK n \in Nat : n = Len(operands) /\ n <= Len(evalStack) /\ 1 <= n
    <2>1. PICK n : n = Len(operands)
      OBVIOUS
    <2>2. n \in Nat /\ n <= Len(evalStack)
      BY <1>2, <1>3, <1>6, <2>1, FitsAbove
    <2> QED
      BY <1>6, <2>1, <2>2
  <1>10. UsesAdded
    BY <1>2, <1>3, <1>9, UsedOperands
  <1>11. \A p \in DOMAIN evalStack' : Kept(p)
    <2>1. 1 <= Len(evalStack)
      BY <1>2, <1>9, LenProperties DEF TypeOK
    <2> QED
      BY <1>2, <1>3, <2>1, PoppedKept
  <1>12. Opened
    BY <1>3, SameOpened
  <1> QED
    BY <1>8, <1>10, <1>11, <1>12, CodeAppended

\* A structure opens: its end, its else and its target are new blocks, and so
\* is the insertion point, unless it stays.
LEMMA OpenDominance ==
    ASSUME Dominating, NEW instr \in Kinds, NEW signature \in ResultTypes, NEW end \in Nat,
           NEW else \in Nat, NEW stack \in Seq(Operands), NEW target \in ResultTypes,
           NEW block \in Nat,
           PushCFEntry(instr, signature, end, else, stack), PushBlockEntry(target, block),
           end \in New, block \in New, else \in New \cup {NoBlock},
           NEW new \in Seq(ResultTypes), blocks' = blocks \o new,
           insertBlock' \in {insertBlock} \cup New, NEW E, edges' = edges \cup E,
           \A e \in E : e[1] = insertBlock /\ e[2] \in New,
           UsesAdded, \A p \in DOMAIN evalStack' : Kept(p)
    PROVE  Dominance'
PROOF
  <1>1. IInv
    BY DEF Dominating
  <1>2. Opened
    BY <1>1, PushOpened
  <1>3. Appends(E)
    BY <1>1, BlocksAppend
  <1> QED
    BY <1>2, <1>3, CodeAppended

\* Block keeps the dominance.
LEMMA BlockDominance ==
    ASSUME Dominating, NEW signature \in BlockTypes, Block(signature)
    PROVE  Dominance'
PROOF
  <1> DEFINE end == Len(blocks) + 1
             new == <<signature>>
  <1>1. /\ Live /\ blocks' = Append(blocks, signature)
        /\ PushCFEntry("block", signature, end, NoBlock, evalStack) /\ PushBlockEntry(signature, end)
        /\ UNCHANGED <<evalStack, edges, uses, insertBlock>>
    BY DEF Block
  <1>2. /\ IInv /\ TypeOK /\ Len(blocks) \in Nat /\ evalStack \in Seq(Operands)
        /\ signature \in ResultTypes /\ end \in Nat /\ NoBlock \in Nat /\ "block" \in Kinds
    BY <1>1, DominatingLive, ResultsAssumption, TypeParts, LenProperties
       DEF StackTypes, GraphTypes, Kinds, NoBlock
  <1>3. new \in Seq(ResultTypes) /\ Len(new) = 1 /\ blocks' = blocks \o new
    <2>1. Append(blocks, signature) = blocks \o <<signature>>
      BY <1>2, AppendIsConcat DEF TypeOK
    <2> QED
      BY <1>1, <1>2, <2>1
  <1> HIDE DEF new
  <1>4. end \in New
    <2>1. New = Len(blocks) + 1 .. Len(blocks) + 1
      BY <1>2, <1>3, BlocksAdded
    <2> QED
      BY <1>2, <2>1
  <1> HIDE DEF end
  <1>5. UsesAdded /\ \A p \in DOMAIN evalStack' : Kept(p)
    BY <1>1, NothingUsed DEF Kept
  <1>6. PICK E : E = {}
    OBVIOUS
  <1>7. /\ \A e \in E : e[1] = insertBlock /\ e[2] \in New
        /\ edges' = edges \cup E /\ NoBlock \in New \cup {NoBlock}
        /\ insertBlock' \in {insertBlock} \cup New
    BY <1>1, <1>6
  <1> QED
    BY <1>1, <1>2, <1>3, <1>4, <1>5, <1>7, OpenDominance

\* Loop keeps the dominance.
LEMMA LoopDominance ==
    ASSUME Dominating, NEW signature \in BlockTypes, Loop(signature)
    PROVE  Dominance'
PROOF
  <1> DEFINE entry == Len(blocks) + 1
             end == Len(blocks) + 2
             new == <<Void, signature>>
             E == {<<insertBlock, entry, Taken>>}
  <1>1. /\ Live /\ blocks' = blocks \o new /\ edges' = edges \cup E /\ insertBlock' = entry
        /\ PushCFEntry("loop", signature, end, NoBlock, evalStack) /\ PushBlockEntry(Void, entry)
        /\ UNCHANGED <<evalStack, uses>>
    BY DEF Loop
  <1>2. /\ IInv /\ TypeOK /\ Len(blocks) \in Nat /\ evalStack \in Seq(Operands)
        /\ signature \in ResultTypes /\ Void \in ResultTypes
        /\ end \in Nat /\ entry \in Nat /\ NoBlock \in Nat /\ "loop" \in Kinds
    BY <1>1, DominatingLive, ResultsAssumption, ValTypesFacts, TypeParts, LenProperties
       DEF StackTypes, GraphTypes, Kinds, NoBlock
  <1>3. new \in Seq(ResultTypes) /\ Len(new) = 2
    BY <1>2
  <1> HIDE DEF new
  <1>4. end \in New /\ entry \in New
    <2>1. New = Len(blocks) + 1 .. Len(blocks) + 2
      BY <1>1, <1>2, <1>3, BlocksAdded
    <2> QED
      BY <1>2, <2>1
  <1> HIDE DEF end, entry
  <1>5. UsesAdded /\ \A p \in DOMAIN evalStack' : Kept(p)
    BY <1>1, NothingUsed DEF Kept
  <1>6. /\ \A e \in E : e[1] = insertBlock /\ e[2] \in New
        /\ NoBlock \in New \cup {NoBlock} /\ insertBlock' \in {insertBlock} \cup New
    BY <1>1, <1>4
  <1> HIDE DEF E
  <1> QED
    BY <1>1, <1>2, <1>3, <1>4, <1>5, <1>6, OpenDominance

\* If keeps the dominance.
LEMMA IfDominance ==
    ASSUME Dominating, NEW signature \in BlockTypes, If(signature)
    PROVE  Dominance'
PROOF
  <1> DEFINE then == Len(blocks) + 1
             else == Len(blocks) + 2
             end == Len(blocks) + 3
             new == <<Void, Void, signature>>
             E == {<<insertBlock, then, Taken>>, <<insertBlock, else, NotTaken>>}
  <1>1. Live
    BY DEF If
  <1>2. IInv /\ TypeOK /\ InBody /\ insertBlock \in DOMAIN blocks /\ ~Stop("invalid")
    BY <1>1, DominatingLive DEF Finished
  <1>3. /\ Fits(<<"i32">>) /\ blocks' = blocks \o new /\ edges' = edges \cup E /\ insertBlock' = then
        /\ evalStack' = Popped(1) /\ uses' = Use(1)
        /\ PushCFEntry("if", signature, end, else, evalStack') /\ PushBlockEntry(signature, end)
    BY <1>2 DEF If
  <1>4. /\ Len(blocks) \in Nat /\ signature \in ResultTypes /\ Void \in ResultTypes
        /\ end \in Nat /\ else \in Nat /\ "if" \in Kinds
    BY <1>2, ResultsAssumption, ValTypesFacts, LenProperties DEF TypeOK, Kinds
  <1>5. new \in Seq(ResultTypes) /\ Len(new) = 3
    BY <1>4
  <1> HIDE DEF new
  <1>6. end \in New /\ else \in New /\ then \in New
    <2>1. New = Len(blocks) + 1 .. Len(blocks) + 3
      BY <1>2, <1>3, <1>5, BlocksAdded
    <2> QED
      BY <1>4, <2>1
  <1> HIDE DEF end, else, then
  <1>7. 1 <= Len(evalStack)
    <2>1. <<"i32">> \in Seq(ValTypes) /\ Len(<<"i32">>) = 1
      BY ValTypesFacts
    <2> QED
      BY <1>2, <1>3, <2>1, FitsAbove
  <1>8. UsesAdded /\ \A p \in DOMAIN evalStack' : Kept(p)
    BY <1>2, <1>3, <1>7, UsedOperands, PoppedKept
  <1>9. PICK stack \in Seq(Operands) : stack = evalStack'
    BY <1>2, <1>3, <1>7, PoppedType
  <1>10. /\ \A e \in E : e[1] = insertBlock /\ e[2] \in New
         /\ else \in New \cup {NoBlock} /\ insertBlock' \in {insertBlock} \cup New
    BY <1>3, <1>6
  <1> HIDE DEF E
  <1>11. PushCFEntry("if", signature, end, else, stack)
    BY <1>3, <1>9
  <1> QED
    BY <1>3, <1>4, <1>5, <1>6, <1>8, <1>10, <1>11, OpenDominance

\* An instruction that leaves a result in place of its operands.
LEMMA ReplaceDominance ==
    ASSUME Dominating, Live, NEW operands \in Seq(ValTypes), Fits(operands),
           NEW result \in ResultTypes, NEW def \in Nat, Replace(Len(operands), result, def),
           def = NoBlock \/ def = insertBlock', uses' = Use(Len(operands)),
           UNCHANGED <<cfEntries, blockEntries>>, NEW E, Appends(E)
    PROVE  Dominance'
PROOF
  <1>1. IInv /\ TypeOK /\ InBody /\ Agreement /\ insertBlock \in DOMAIN blocks
    BY DominatingLive
  <1>2. PICK n : n = Len(operands)
    OBVIOUS
  <1>3. n \in Nat /\ Top.outerStackSize + n <= Len(evalStack) /\ n <= Len(evalStack)
    BY <1>1, <1>2, FitsAbove
  <1>4. insertBlock' \in DOMAIN blocks'
    BY <1>1 DEF Appends
  <1>5. \A p \in DOMAIN evalStack' : Kept(p) \/ Fresh(p)
    BY <1>1, <1>2, <1>3, <1>4, ReplacedOrKept
  <1>6. UsesAdded
    BY <1>1, <1>2, <1>3, UsedOperands
  <1>7. Opened
    BY SameOpened
  <1> QED
    BY <1>5, <1>6, <1>7, CodeAppended

\* Call keeps the dominance.
LEMMA CallDominance ==
    ASSUME Dominating, refusedAt = "none", refusedAt' = "none", NEW callee \in Callees,
           Call(callee), CallRule(callee, <<>>)
    PROVE  Dominance'
PROOF
  <1>1. IInv /\ TypeOK /\ InBody /\ Agreement /\ Live /\ ~Stop("invalid")
    BY DominatingLive DEF Call, Finished
  <1>2. PICK params \in Seq(ValTypes) : params = callee.params
    BY CalleeType
  <1>3. Fits(params)
    <2>1. Holds(params \o <<>>)
      BY <1>2 DEF CallRule, Obey
    <2>2. params \o <<>> = params
      BY ConcatNothing
    <2> QED
      BY <1>1, <2>1, <2>2, HoldsFits
  <1>4. PICK def \in Nat : def = insertBlock
    BY <1>1 DEF TypeOK
  <1>5. /\ uses' = Use(Len(params)) /\ Replace(Len(params), callee.result, def)
        /\ UNCHANGED <<cfEntries, blockEntries, graph>>
    BY <1>1, <1>2, <1>4 DEF Call
  <1>6. callee.result \in ResultTypes /\ def = insertBlock'
    BY <1>4, <1>5, CalleeType DEF graph
  <1>7. Appends({})
    BY <1>1, <1>5, NothingAppended DEF graph
  <1> QED
    BY <1>1, <1>3, <1>5, <1>6, <1>7, ReplaceDominance

\* CallIndirect keeps the dominance.
LEMMA CallIndirectDominance ==
    ASSUME Dominating, refusedAt = "none", refusedAt' = "none", NEW callee \in Callees,
           CallIndirect(callee), CallRule(callee, <<"i32">>)
    PROVE  Dominance'
PROOF
  <1>1. IInv /\ TypeOK /\ InBody /\ Agreement /\ Live /\ ~Stop("invalid")
    BY DominatingLive DEF CallIndirect, Finished
  <1>2. PICK operands : operands = callee.params \o <<"i32">>
    OBVIOUS
  <1>3. operands \in Seq(ValTypes) /\ Len(operands) = Len(callee.params) + 1
    BY <1>2, CalleeType, ValTypesFacts, TypesConcat
  <1>4. Fits(operands)
    <2>1. Holds(operands)
      BY <1>2 DEF CallRule, Obey
    <2> QED
      BY <1>1, <1>3, <2>1, HoldsFits
  <1>5. PICK def \in Nat : def = insertBlock'
    BY DEF Dominating, IInv, TypeOK
  <1>6. /\ uses' = Use(Len(operands)) /\ Replace(Len(operands), callee.result, def) /\ TrapIf
        /\ UNCHANGED <<cfEntries, blockEntries>>
    BY <1>1, <1>3, <1>5 DEF CallIndirect
  <1>7. PICK E : Appends(E)
    BY <1>1, <1>6, TrapAppends
  <1> QED
    BY <1>1, <1>3, <1>4, <1>5, <1>6, <1>7, CalleeType, ReplaceDominance

\* Execute keeps the dominance.
LEMMA ExecuteDominance ==
    ASSUME Dominating, NEW op \in Opcodes, Execute(op)
    PROVE  Dominance'
PROOF
  <1>1. IInv /\ TypeOK /\ InBody /\ Live /\ ~Stop("invalid")
    BY DominatingLive DEF Execute, Finished
  <1>2. PICK t \in op.typings :
          /\ Pops(t.ins)
          /\ \/ UNCHANGED graph
             \/ TrapIf
             \/ SRemDiamond(t.out)
          /\ Replace(Len(t.ins), t.out, IF Folded(op, Len(t.ins)) THEN NoBlock ELSE insertBlock')
          /\ uses' = Use(Len(t.ins)) /\ UNCHANGED <<cfEntries, blockEntries>>
    BY <1>1 DEF Execute
  <1>3. t.ins \in Seq(ValTypes) /\ t.out \in ResultTypes
    BY OpcodesAreOps DEF Ops, Typings
  <1>4. PICK E : Appends(E)
    <2>1. UNCHANGED graph => Appends({})
      BY <1>1, NothingAppended DEF graph
    <2> QED
      BY <1>1, <1>2, <1>3, <2>1, TrapAppends, SRemAppends
  <1>5. PICK def \in Nat : def = IF Folded(op, Len(t.ins)) THEN NoBlock ELSE insertBlock'
    <2>1. insertBlock' \in Nat /\ NoBlock \in Nat
      BY DEF Dominating, IInv, TypeOK, NoBlock
    <2> QED
      BY <2>1
  <1>6. Replace(Len(t.ins), t.out, def) /\ (def = NoBlock \/ def = insertBlock')
    BY <1>2, <1>5
  <1> QED
    <2>1. Fits(t.ins)
      BY <1>1, <1>2, <1>3, PopsFits DEF Dominating
    <2> QED
      BY <1>1, <1>2, <1>3, <1>4, <1>6, <2>1, ReplaceDominance

\* Where an else or an end is read: the structure it closes, among the others,
\* and the jump out of it.
LEMMA JoinPlace ==
    ASSUME IInv, GraphInv, Agreement, AtJoin, FrameCloses
    PROVE  /\ InBody /\ TypeOK /\ Open /\ Phis
           /\ Len(cfEntries) \in Nat \ {0} /\ DOMAIN cfEntries = 1 .. Len(cfEntries)
           /\ cfEntries \in Seq(Entries) /\ Top = cfEntries[Len(cfEntries)]
           /\ Outer(Len(cfEntries)) = Top.outerStackSize
           /\ Top.end \in DOMAIN blocks
           /\ Len(Yielded) \in Nat /\ Len(Yielded) <= Len(evalStack)
           /\ Len(Yielded) = 0 \/ insertBlock \in DOMAIN blocks
           /\ \A e \in JoinEdges : e[1] = insertBlock /\ e[2] = Top.end
           /\ \A i \in 1 .. Len(cfEntries) : Outer(i) <= Top.outerStackSize /\ Outer(i) \in Nat
PROOF
  <1>1. InBody /\ TypeOK
    BY DEF AtJoin, IInv
  <1>2. /\ Open /\ Phis /\ Top.end \in DOMAIN blocks
    BY <1>1, JoinFacts
  <1>3. Len(Yielded) \in Nat /\ Len(Yielded) <= Len(evalStack)
    BY <1>1, YieldedType
  <1>4. Len(Yielded) = 0 \/ insertBlock \in DOMAIN blocks
    <2>1. CASE Top.reachable
      BY <1>1, <2>1, LiveFacts DEF Live
    <2>2. CASE ~Top.reachable
      BY <2>2 DEF Yielded
    <2> QED
      BY <2>1, <2>2
  <1>5. \A e \in JoinEdges : e[1] = insertBlock /\ e[2] = Top.end
    BY DEF JoinEdges
  <1> QED
    BY <1>1, <1>2, <1>3, <1>4, <1>5, StackLengths, TopType, Sizes DEF Top

\* else: the second branch avoids what the first did, and its operands are
\* those of the structures around it.
LEMMA ElseRegions ==
    ASSUME Dominating, AtJoin, FrameCloses, Top.else # NoBlock,
           edges' = edges \cup JoinEdges, evalStack' = Popped(Len(Yielded)),
           insertBlock' = Top.else,
           cfEntries' = [cfEntries EXCEPT ![Len(cfEntries)] =
                           [@ EXCEPT !.instr = "else", !.reachable = TRUE, !.else = NoBlock]],
           UNCHANGED <<blockEntries, blocks>>
    PROVE  RegionsKept
PROOF
  <1>1. IInv /\ GraphInv /\ Agreement
    BY DEF Dominating
  <1>2. PICK n \in Nat \ {0} : n = Len(cfEntries)
    BY <1>1, JoinPlace
  <1>3. /\ DOMAIN cfEntries = 1 .. n /\ cfEntries \in Seq(Entries) /\ Top = cfEntries[n]
        /\ InBody /\ TypeOK /\ Outer(n) = Top.outerStackSize /\ n \in 1 .. n
        /\ \A e \in JoinEdges : e[1] = insertBlock /\ e[2] = Top.end
    BY <1>1, <1>2, JoinPlace
  <1>4. PICK entry \in Entries : /\ entry = [Top EXCEPT !.instr = "else", !.reachable = TRUE, !.else = NoBlock]
                                 /\ entry.end = Top.end /\ entry.else = NoBlock
                                 /\ entry.outerStackSize = Top.outerStackSize
    <2>1. Top \in Entries /\ "else" \in Kinds /\ NoBlock \in Nat
      BY <1>3, TopType DEF Kinds, NoBlock
    <2>2. PICK entry : entry = [Top EXCEPT !.instr = "else", !.reachable = TRUE, !.else = NoBlock]
      OBVIOUS
    <2>3. entry \in Entries
      BY <2>1, <2>2 DEF Entries
    <2>4. /\ entry.end = Top.end /\ entry.else = NoBlock
          /\ entry.outerStackSize = Top.outerStackSize
      BY <2>1, <2>2 DEF Entries
    <2> QED
      BY <2>2, <2>3, <2>4
  <1>5. cfEntries' = [cfEntries EXCEPT ![n] = entry]
    BY <1>2, <1>3, <1>4
  <1>6. /\ DOMAIN cfEntries' = 1 .. n /\ cfEntries'[n] = entry
        /\ \A i \in 1 .. n : i # n => cfEntries'[i] = cfEntries[i]
    BY <1>3, <1>5
  <1>7. ASSUME NEW i \in 1 .. n
        PROVE  /\ cfEntries'[i].end = cfEntries[i].end
               /\ Outer(i)' = Outer(i)
               /\ cfEntries'[i].else = IF i = n THEN NoBlock ELSE cfEntries[i].else
    BY <1>3, <1>4, <1>6 DEF Outer
  <1>8. \A i \in 1 .. n : i # n => Waiting(i)' = Waiting(i)
    BY <1>7 DEF Waiting
  <1>9. Waiting(n)' = {blockEntries[n].block, Top.end, NoBlock}
    BY <1>3, <1>7 DEF Waiting
  <1>10. ASSUME NEW d, NEW S, Region(d, S)
         PROVE  /\ Region(d, S)'
                /\ \A p : Kept(p) /\ ~Fresh(p) /\ Apart(p, S) => Apart(p, S)'
    <2>1. NoBlock \notin S /\ NoBlock \in Beyond(S, d)
      <3>1. blocks \in Seq(ResultTypes)
        BY <1>3 DEF TypeOK
      <3> QED
        BY <1>10, <3>1, LenProperties DEF Region, NoBlock, Beyond
    <2>2. ASSUME NEW e \in edges', e[1] \in S PROVE e[2] \in Beyond(S, d)
      <3>1. CASE e \in edges
        BY <1>10, <2>2, <3>1 DEF Region
      <3>2. CASE e \in JoinEdges
        <4>1. Waiting(n) \subseteq Beyond(S, d)
          BY <1>3, <1>10, <2>2, <3>2 DEF Region
        <4>2. Top.end \in Waiting(n)
          BY <1>3 DEF Waiting
        <4> QED
          BY <1>3, <3>2, <4>1, <4>2
      <3> QED
        BY <2>2, <3>1, <3>2
    <2>3. ASSUME NEW i \in 1 .. n, AroundBeyond(i, S, d)
          PROVE  AroundBeyond(i, S, d)'
      <3>1. \A j \in 1 .. i - 1 : j \in 1 .. n /\ j # n
        BY <1>2
      <3> QED
        BY <1>8, <2>3, <3>1 DEF AroundBeyond
    <2>4. ASSUME insertBlock' \in S, NEW i \in 1 .. n
          PROVE  Waiting(i)' \subseteq Beyond(S, d)
      <3>1. /\ AroundBeyond(n, S, d)
            /\ {blockEntries[n].block, Top.end} \subseteq Beyond(S, d)
        BY <1>3, <1>10, <2>4 DEF Region
      <3>2. CASE i = n
        BY <1>9, <2>1, <3>1, <3>2
      <3>3. CASE i # n
        <4>1. i \in 1 .. n - 1
          BY <1>2, <3>3
        <4> QED
          BY <1>8, <3>1, <3>3, <4>1 DEF AroundBeyond
      <3> QED
        BY <3>2, <3>3
    <2>5. ASSUME NEW i \in 1 .. n, cfEntries'[i].end \in S
          PROVE  AroundBeyond(i, S, d)'
      BY <1>3, <1>7, <1>10, <2>3, <2>5 DEF Region
    <2>6. ASSUME NEW i \in 1 .. n, cfEntries'[i].else \in S
          PROVE  /\ AroundBeyond(i, S, d)'
                 /\ {blockEntries'[i].block, cfEntries'[i].end} \subseteq Beyond(S, d)
      <3>1. i # n /\ cfEntries[i].else \in S
        BY <1>7, <2>1, <2>6
      <3>2. AroundBeyond(i, S, d) /\ {blockEntries[i].block, cfEntries[i].end} \subseteq Beyond(S, d)
        BY <1>3, <1>10, <3>1 DEF Region
      <3> QED
        BY <1>7, <2>3, <3>2
    <2>7. Region(d, S)'
      <3>1. /\ d \in DOMAIN blocks' /\ S \subseteq DOMAIN blocks' \ {d} /\ FuncEntry \in Beyond(S, d)
        BY <1>10 DEF Region
      <3> QED
        BY <1>6, <2>2, <2>4, <2>5, <2>6, <3>1, Zenon DEF Region
    <2>8. ASSUME NEW p, Kept(p), Apart(p, S) PROVE Apart(p, S)'
      <3>1. Outer(n) >= p
        <4>1. /\ Popped(Len(Yielded)) \in Seq(Operands) /\ Len(Popped(Len(Yielded))) = Top.outerStackSize
          BY <1>1, <1>3, JoinPlace, YieldedType, PoppedType
        <4>2. p \in 1 .. Top.outerStackSize /\ Top.outerStackSize \in Nat
          BY <1>3, <2>8, <4>1, LenProperties, TopType DEF Kept
        <4> QED
          BY <1>3, <4>2
      <3>2. insertBlock' \notin S
        BY <1>3, <2>8, <3>1 DEF Apart
      <3>3. ASSUME NEW i \in 1 .. n, Outer(i)' >= p
            PROVE  cfEntries'[i].end \notin S /\ cfEntries'[i].else \notin S
        BY <1>3, <1>7, <2>1, <2>8, <3>3 DEF Apart
      <3> QED
        BY <1>6, <3>2, <3>3 DEF Apart
    <2> QED
      BY <2>7, <2>8
  <1>11. ASSUME NEW d, NEW S, Region(d, S)
         PROVE  \E Q : /\ Region(d, Q)' /\ Q \cap DOMAIN blocks \subseteq S
                       /\ \A p : Kept(p) /\ ~Fresh(p) /\ Apart(p, S) => Apart(p, Q)'
    BY <1>10, <1>11
  <1> QED
    BY <1>11 DEF RegionsKept

\* Else keeps the dominance.
LEMMA ElseDominance ==
    ASSUME Dominating, Else
    PROVE  Dominance'
PROOF
  <1>1. \A outcome \in Finished : ~Stop(outcome)
    BY DEF Dominating, Stop, Finished
  <1>2. /\ AtJoin /\ FrameCloses /\ Top.else # NoBlock
        /\ edges' = edges \cup JoinEdges /\ evalStack' = Popped(Len(Yielded))
        /\ uses' = Use(Len(Yielded)) /\ insertBlock' = Top.else
        /\ cfEntries' = [cfEntries EXCEPT ![Len(cfEntries)] =
                           [@ EXCEPT !.instr = "else", !.reachable = TRUE, !.else = NoBlock]]
        /\ UNCHANGED <<blockEntries, blocks>>
    BY <1>1, Outcomes DEF Else
  <1>3. RegionsKept
    BY <1>2, ElseRegions
  <1>4. /\ TypeOK /\ Len(Yielded) \in Nat /\ Len(Yielded) <= Len(evalStack)
        /\ Len(Yielded) = 0 \/ insertBlock \in DOMAIN blocks
    BY <1>2, JoinPlace DEF Dominating
  <1>5. UsesAdded /\ \A p \in DOMAIN evalStack' : Kept(p)
    <2>1. PICK n \in Nat : n = Len(Yielded)
      BY <1>4
    <2> QED
      BY <1>2, <1>4, <2>1, UsedOperands, PoppedKept
  <1> QED
    BY <1>2, <1>3, <1>5, DominanceKept DEF Dominating

\* The structures an end leaves.
LEMMA EndEntries ==
    ASSUME IInv, InBody, cfEntries' = SubSeq(cfEntries, 1, Len(cfEntries) - 1),
           blockEntries' = SubSeq(blockEntries, 1, Top.outerBlockDepth)
    PROVE  /\ DOMAIN cfEntries' = 1 .. Len(cfEntries) - 1
           /\ \A i \in 1 .. Len(cfEntries) - 1 : /\ cfEntries'[i] = cfEntries[i]
                                                 /\ blockEntries'[i] = blockEntries[i]
PROOF
  <1>1. PICK n \in Nat \ {0} : /\ n = Len(cfEntries) /\ n = Len(blockEntries) /\ DOMAIN cfEntries = 1 .. n
                               /\ n - 1 \in Nat /\ n - 1 <= n
    BY StackLengths DEF InBody
  <1>2. cfEntries \in Seq(Entries) /\ blockEntries \in Seq(Targets)
    BY StackLengths
  <1>3. Top.outerBlockDepth = n - 1
    <2>1. n \in DOMAIN cfEntries
      BY <1>1
    <2> QED
      BY <1>1, <2>1 DEF IInv, StacksInv, FramesAligned, Top
  <1>4. PICK entries, targets : entries = cfEntries' /\ targets = blockEntries'
    OBVIOUS
  <1>5. entries = SubSeq(cfEntries, 1, n - 1) /\ targets = SubSeq(blockEntries, 1, n - 1)
    BY <1>1, <1>3, <1>4
  <1>6. /\ DOMAIN entries = 1 .. n - 1 /\ \A i \in 1 .. n - 1 : entries[i] = cfEntries[i]
    BY <1>1, <1>2, <1>5, Prefix
  <1>7. \A i \in 1 .. n - 1 : targets[i] = blockEntries[i]
    BY <1>1, <1>2, <1>5, Prefix
  <1> QED
    BY <1>1, <1>4, <1>6, <1>7

\* end: what is left goes on behind the structure, where the jumps out of it
\* and, in place of a missing else, the second branch lead.
LEMMA EndRegions ==
    ASSUME Dominating, AtJoin, FrameCloses,
           edges' = edges \cup JoinEdges \cup FallThroughEdges,
           DOMAIN blocks' = DOMAIN blocks, insertBlock' = Top.end,
           cfEntries' = SubSeq(cfEntries, 1, Len(cfEntries) - 1),
           blockEntries' = SubSeq(blockEntries, 1, Top.outerBlockDepth),
           \A p \in DOMAIN evalStack' : Fresh(p) \/ p <= Top.outerStackSize
    PROVE  RegionsKept
PROOF
  <1>1. IInv /\ GraphInv /\ Agreement
    BY DEF Dominating
  <1>2. PICK n \in Nat \ {0} : n = Len(cfEntries)
    BY <1>1, JoinPlace
  <1>3. /\ DOMAIN cfEntries = 1 .. n /\ cfEntries \in Seq(Entries) /\ Top = cfEntries[n]
        /\ InBody /\ TypeOK /\ Outer(n) = Top.outerStackSize /\ n \in 1 .. n
        /\ \A e \in JoinEdges : e[1] = insertBlock /\ e[2] = Top.end
    BY <1>1, <1>2, JoinPlace
  <1>4. PICK m \in Nat : m = n - 1 /\ \A i \in 1 .. m : i \in 1 .. n /\ i # n
    <2>1. n - 1 \in Nat /\ \A i \in 1 .. n - 1 : i \in 1 .. n /\ i # n
      BY <1>2
    <2> QED
      BY <2>1
  <1>5. /\ DOMAIN cfEntries' = 1 .. m
        /\ \A i \in 1 .. m : cfEntries'[i] = cfEntries[i] /\ blockEntries'[i] = blockEntries[i]
    BY <1>1, <1>2, <1>3, <1>4, EndEntries
  <1>6. \A i \in 1 .. m : Waiting(i)' = Waiting(i) /\ Outer(i)' = Outer(i)
    BY <1>5 DEF Waiting, Outer
  <1>7. \A e \in FallThroughEdges : Top.else # NoBlock /\ e[1] = Top.else /\ e[2] = Top.end
    BY DEF FallThroughEdges
  <1>8. ASSUME NEW d, NEW S, Region(d, S)
        PROVE  /\ Region(d, S)'
               /\ \A p : Kept(p) /\ ~Fresh(p) /\ Apart(p, S) => Apart(p, S)'
    <2>1. ASSUME NEW e \in edges', e[1] \in S PROVE e[2] \in Beyond(S, d)
      <3>1. CASE e \in edges
        BY <1>8, <2>1, <3>1 DEF Region
      <3>2. CASE e \in JoinEdges
        <4>1. Waiting(n) \subseteq Beyond(S, d)
          BY <1>3, <1>8, <2>1, <3>2 DEF Region
        <4>2. Top.end \in Waiting(n)
          BY <1>3 DEF Waiting
        <4> QED
          BY <1>3, <3>2, <4>1, <4>2
      <3>3. CASE e \in FallThroughEdges
        <4>1. cfEntries[n].else \in S
          BY <1>3, <1>7, <2>1, <3>3
        <4>2. cfEntries[n].end \in Beyond(S, d)
          BY <1>3, <1>8, <4>1 DEF Region
        <4> QED
          BY <1>3, <1>7, <3>3, <4>2
      <3> QED
        BY <2>1, <3>1, <3>2, <3>3
    <2>2. ASSUME NEW i \in 1 .. m, AroundBeyond(i, S, d)
          PROVE  AroundBeyond(i, S, d)'
      <3>1. \A j \in 1 .. i - 1 : j \in 1 .. m
        BY <1>4
      <3> QED
        BY <1>6, <2>2, <3>1 DEF AroundBeyond
    <2>3. ASSUME insertBlock' \in S, NEW i \in 1 .. m
          PROVE  Waiting(i)' \subseteq Beyond(S, d)
      <3>1. AroundBeyond(n, S, d)
        BY <1>3, <1>8, <2>3 DEF Region
      <3> QED
        BY <1>4, <1>6, <3>1 DEF AroundBeyond
    <2>4. ASSUME NEW i \in 1 .. m, cfEntries'[i].end \in S
          PROVE  AroundBeyond(i, S, d)'
      <3>1. i \in DOMAIN cfEntries /\ cfEntries[i].end \in S
        BY <1>3, <1>4, <1>5, <2>4
      <3> QED
        BY <1>8, <2>2, <3>1 DEF Region
    <2>5. ASSUME NEW i \in 1 .. m, cfEntries'[i].else \in S
          PROVE  /\ AroundBeyond(i, S, d)'
                 /\ {blockEntries'[i].block, cfEntries'[i].end} \subseteq Beyond(S, d)
      <3>1. i \in DOMAIN cfEntries /\ cfEntries[i].else \in S
        BY <1>3, <1>4, <1>5, <2>5
      <3>2. AroundBeyond(i, S, d) /\ {blockEntries[i].block, cfEntries[i].end} \subseteq Beyond(S, d)
        BY <1>8, <3>1 DEF Region
      <3> QED
        BY <1>5, <2>2, <3>2
    <2>6. Region(d, S)'
      <3>1. /\ d \in DOMAIN blocks' /\ S \subseteq DOMAIN blocks' \ {d} /\ FuncEntry \in Beyond(S, d)
        BY <1>8 DEF Region
      <3> QED
        BY <1>5, <2>1, <2>3, <2>4, <2>5, <3>1, Zenon DEF Region
    <2>7. ASSUME NEW p, Kept(p), ~Fresh(p), Apart(p, S) PROVE Apart(p, S)'
      <3>1. Outer(n) >= p
        <4>1. p \in DOMAIN evalStack
          BY <2>7 DEF Kept
        <4>2. p \in Nat /\ Top.outerStackSize \in Nat
          BY <1>3, <4>1, LenProperties, TypeParts, TopType DEF StackTypes
        <4>3. p <= Top.outerStackSize
          BY <2>7 DEF Kept
        <4> QED
          BY <1>3, <4>2, <4>3
      <3>2. insertBlock' \notin S
        BY <1>3, <2>7, <3>1 DEF Apart
      <3>3. ASSUME NEW i \in 1 .. m, Outer(i)' >= p
            PROVE  cfEntries'[i].end \notin S /\ cfEntries'[i].else \notin S
        <4>1. i \in DOMAIN cfEntries /\ Outer(i) >= p
          BY <1>3, <1>4, <1>6, <3>3
        <4> QED
          BY <1>5, <2>7, <4>1 DEF Apart
      <3> QED
        BY <1>5, <3>2, <3>3 DEF Apart
    <2> QED
      BY <2>6, <2>7
  <1>9. ASSUME NEW d, NEW S, Region(d, S)
        PROVE  \E Q : /\ Region(d, Q)' /\ Q \cap DOMAIN blocks \subseteq S
                      /\ \A p : Kept(p) /\ ~Fresh(p) /\ Apart(p, S) => Apart(p, Q)'
    BY <1>8, <1>9
  <1> QED
    BY <1>9 DEF RegionsKept

\* The values an end leaves: those of the structures around, and the phi that
\* is computed where they go on.
LEMMA EndValues ==
    ASSUME Dominating, AtJoin, FrameCloses, NEW values,
           evalStack' = Popped(Len(Yielded)) \o Result(values),
           insertBlock' = Top.end, DOMAIN blocks' = DOMAIN blocks,
           cfEntries' = SubSeq(cfEntries, 1, Len(cfEntries) - 1),
           blockEntries' = SubSeq(blockEntries, 1, Top.outerBlockDepth)
    PROVE  \A p \in DOMAIN evalStack' : (Kept(p) /\ p <= Top.outerStackSize) \/ Fresh(p)
PROOF
  <1>1. IInv /\ GraphInv /\ Agreement
    BY DEF Dominating
  <1>2. PICK n \in Nat \ {0}, base \in Nat : n = Len(cfEntries) /\ base = Top.outerStackSize
    BY <1>1, JoinPlace, TopType
  <1>3. /\ InBody /\ TypeOK /\ Top.end \in DOMAIN blocks
        /\ \A i \in 1 .. n : Outer(i) \in Nat /\ Outer(i) <= base
    BY <1>1, <1>2, JoinPlace
  <1>4. DOMAIN cfEntries' = 1 .. n - 1 /\ \A i \in 1 .. n - 1 : i \in 1 .. n /\ Outer(i)' = Outer(i)
    <2>1. \A i \in 1 .. n - 1 : i \in 1 .. n
      BY <1>2
    <2> QED
      BY <1>1, <1>2, <1>3, <2>1, EndEntries DEF Outer
  <1>5. PICK popped \in Seq(Operands), pushed \in Seq(Operands) :
          /\ evalStack' = popped \o pushed /\ Len(popped) = base
          /\ \A k \in 1 .. base : popped[k] = evalStack[k]
          /\ \A k \in 1 .. Len(pushed) : pushed[k].def \in {NoBlock, Top.end}
    BY <1>1, <1>2, EndStack
  <1>6. PICK more \in Nat : more = Len(pushed)
    BY LenProperties
  <1>7. /\ DOMAIN evalStack' = 1 .. base + more
        /\ \A i \in 1 .. base + more :
             evalStack'[i] = IF i <= base THEN popped[i] ELSE pushed[i - base]
    <2>1. /\ popped \o pushed \in Seq(Operands) /\ Len(popped \o pushed) = Len(popped) + Len(pushed)
          /\ \A i \in 1 .. Len(popped) + Len(pushed) :
               (popped \o pushed)[i] = IF i <= Len(popped) THEN popped[i] ELSE pushed[i - Len(popped)]
      BY ConcatProperties
    <2> QED
      BY <1>5, <1>6, <2>1, LenProperties
  <1>8. base <= Len(evalStack) /\ DOMAIN evalStack = 1 .. Len(evalStack) /\ Len(evalStack) \in Nat
    <2>1. evalStack \in Seq(Operands)
      BY <1>3, TypeParts DEF StackTypes
    <2> QED
      BY <1>1, <1>2, <1>3, <2>1, InnerFrame, LenProperties
  <1>9. ASSUME NEW p \in 1 .. base + more, p <= base
        PROVE  Kept(p)
    <2>1. p \in 1 .. base /\ p \in DOMAIN evalStack
      BY <1>8, <1>9
    <2> QED
      BY <1>5, <1>7, <1>9, <2>1 DEF Kept
  <1>10. ASSUME NEW p \in 1 .. base + more, ~ (p <= base)
         PROVE  Fresh(p)
    <2>1. p - base \in 1 .. more /\ evalStack'[p] = pushed[p - base]
      BY <1>7, <1>10, SMTT(30)
    <2>2. evalStack'[p].def \in {NoBlock, Top.end}
      BY <1>5, <1>6, <2>1
    <2>3. \A i \in DOMAIN cfEntries' : ~ (Outer(i)' >= p)
      BY <1>3, <1>4, <1>10
    <2> QED
      BY <1>3, <2>2, <2>3 DEF Fresh
  <1> QED
    BY <1>2, <1>7, <1>9, <1>10

\* End keeps the dominance.
LEMMA EndDominance ==
    ASSUME Dominating, End
    PROVE  Dominance'
PROOF
  <1>1. \A outcome \in Finished : ~Stop(outcome)
    BY DEF Dominating, Stop, Finished
  <1>2. /\ AtJoin /\ FrameCloses
        /\ edges' = edges \cup JoinEdges \cup FallThroughEdges
        /\ blocks' = IF HasIncoming(incoming') THEN blocks ELSE [blocks EXCEPT ![Top.end] = Void]
        /\ uses' = Use(Len(Yielded)) /\ insertBlock' = Top.end
        /\ evalStack' = Popped(Len(Yielded)) \o Result(incoming')
        /\ cfEntries' = SubSeq(cfEntries, 1, Len(cfEntries) - 1)
        /\ blockEntries' = SubSeq(blockEntries, 1, Top.outerBlockDepth)
    BY <1>1, Outcomes DEF End
  <1>3. PICK values : values = incoming'
    OBVIOUS
  <1>4. evalStack' = Popped(Len(Yielded)) \o Result(values)
    BY <1>2, <1>3
  <1>5. DOMAIN blocks' = DOMAIN blocks
    <2>1. blocks \in Seq(ResultTypes)
      BY DEF Dominating, IInv, TypeOK
    <2> QED
      BY <1>2, <2>1
  <1>6. \A p \in DOMAIN evalStack' : (Kept(p) /\ p <= Top.outerStackSize) \/ Fresh(p)
    BY <1>2, <1>4, <1>5, EndValues
  <1>7. RegionsKept
    BY <1>2, <1>5, <1>6, EndRegions
  <1>8. /\ TypeOK /\ Len(Yielded) \in Nat /\ Len(Yielded) <= Len(evalStack)
        /\ Len(Yielded) = 0 \/ insertBlock \in DOMAIN blocks
    BY <1>2, JoinPlace DEF Dominating
  <1>9. UsesAdded
    <2>1. PICK n \in Nat : n = Len(Yielded)
      BY <1>8
    <2> QED
      BY <1>2, <1>8, <2>1, UsedOperands
  <1> QED
    BY <1>5, <1>6, <1>7, <1>9, DominanceKept DEF Dominating

\* Code that cannot be reached appends nothing.
LEMMA SkipDominance ==
    ASSUME Dominance, UNCHANGED <<evalStack, cfEntries, blockEntries, blocks, edges, uses, insertBlock>>
    PROVE  Dominance'
PROOF
  <1>1. \A i \in DOMAIN cfEntries : Outer(i)' = Outer(i)
    BY DEF Outer
  <1>2. \A i \in DOMAIN cfEntries : Waiting(i)' = Waiting(i)
    BY DEF Waiting
  <1>3. \A d, S : Region(d, S) => Region(d, S)'
    BY <1>2 DEF Region, AroundBeyond, Beyond, Waiting
  <1>4. \A p, S : Apart(p, S) => Apart(p, S)'
    BY <1>1 DEF Apart
  <1>5. OperandsApart'
    <2>1. SUFFICES ASSUME NEW p \in DOMAIN evalStack', NEW d, d = evalStack'[p].def, d # NoBlock
                   PROVE  \E S : Region(d, S)' /\ Apart(p, S)'
      BY DEF OperandsApart
    <2> QED
      BY <1>3, <1>4, <2>1 DEF Dominance, OperandsApart
  <1>6. UsesApart'
    <2>1. SUFFICES ASSUME NEW u \in uses', NEW d, d = u[1]
                   PROVE  u[2] \in DOMAIN blocks' /\ \E S : Region(d, S)' /\ u[2] \notin S
      BY DEF UsesApart
    <2> QED
      BY <1>3, <2>1 DEF Dominance, UsesApart
  <1> QED
    BY <1>5, <1>6 DEF Dominance

\* A function starts with its entry, and nothing on the stack.
LEMMA StartDominance ==
    ASSUME IInv, NEW result \in BodyResults, StartFunction(result), uses = {}
    PROVE  Dominance'
PROOF
  <1>1. /\ status = "section" /\ blocks' = <<result, Void>> /\ evalStack' = evalStack /\ uses' = {}
    BY DEF StartFunction
  <1>2. cfEntries = <<>>
    BY <1>1 DEF IInv, StacksInv, Idle
  <1>3. Len(evalStack) = 0 /\ evalStack \in Seq(Operands)
    BY <1>1, <1>2, TypeParts DEF IInv, StacksInv, FunctionEndsClean, StackTypes
  <1>4. DOMAIN evalStack' = {}
    BY <1>1, <1>3, LenProperties
  <1>5. FuncEntry \in DOMAIN blocks'
    BY <1>1 DEF FuncEntry
  <1> QED
    BY <1>1, <1>4, <1>5 DEF Dominance, OperandsApart, UsesApart

-----------------------------------------------------------------------------
(* Every step keeps the dominance.                                         *)

\* A step starts a function or ends one, ends the module, stops, or reads an
\* instruction of a body that stays open.
LEMMA StepKinds ==
    ASSUME Next
    PROVE  \/ \E result \in BodyResults : StartFunction(result)
           \/ FinishFunction
           \/ FinishModule
           \/ \E outcome \in {"invalid", "malformed", "aborted"} : Stop(outcome)
           \/ InBody /\ status' = "body"
PROOF
  <1>1. SUFFICES ASSUME ~(\E outcome \in {"invalid", "malformed", "aborted"} : Stop(outcome)),
                        \A result \in BodyResults : ~StartFunction(result),
                        ~FinishFunction, ~FinishModule
                 PROVE  InBody /\ status' = "body"
    OBVIOUS
  <1>2. /\ \A signature : Block(signature) \/ Loop(signature) \/ If(signature)
                            => InBody /\ status' = "body"
        /\ Else \/ End \/ SkipBlock \/ SkipEnd \/ SkipOther => InBody /\ status' = "body"
    BY <1>1 DEF Block, Loop, If, Else, End, SkipBlock, SkipEnd, SkipOther, vars,
                Live, AtJoin, Skipping, InBody
  <1>3. /\ \A depth : Br(depth) \/ BrIf(depth) => InBody /\ status' = "body"
        /\ \A depths, default : BrTable(depths, default) => InBody /\ status' = "body"
        /\ Unreachable \/ Return => InBody /\ status' = "body"
    BY <1>1 DEF Br, BrIf, BrTable, Unreachable, Return, Live, InBody
  <1>4. /\ \A callee : Call(callee) \/ CallIndirect(callee) => InBody /\ status' = "body"
        /\ \A op : Execute(op) => InBody /\ status' = "body"
    BY <1>1 DEF Call, CallIndirect, Execute, Live, InBody
  <1>5. ~UndeclaredFunction /\ ~BadImmediate /\ ~Malformed /\ ~BodySizeMismatch
    BY <1>1 DEF UndeclaredFunction, BadImmediate, Malformed, BodySizeMismatch
  <1> QED
    BY <1>1, <1>2, <1>3, <1>4, <1>5, Zenon
       DEF Next, ControlStep, JumpStep, StraightStep, OutcomeStep

\* An instruction that obeys its rule, together.
LEMMA InstructionDominance ==
    ASSUME Dominating, LockNext, refusedAt = "none", refusedAt' = "none"
    PROVE  Dominance'
PROOF
  <1>1. /\ Dominance /\ status = "body" /\ status' = "body" /\ InBody
        /\ \A outcome \in Finished : ~Stop(outcome)
    BY DEF Dominating, InBody, Stop, Finished
  <1>2. ~IllFormed
    BY DEF IllFormed, Obey
  <1>3. /\ \A result : ~StartFunction(result)
        /\ ~FinishFunction /\ ~FinishModule
    BY <1>1 DEF StartFunction, FinishFunction, FinishModule
  <1>4. \A signature \in BlockTypes : Block(signature) \/ Loop(signature) \/ If(signature) => Dominance'
    BY BlockDominance, LoopDominance, IfDominance
  <1>5. SkipBlock \/ SkipEnd \/ SkipOther => Dominance'
    <2>1. SkipBlock \/ SkipEnd \/ SkipOther =>
            UNCHANGED <<evalStack, cfEntries, blockEntries, blocks, edges, uses, insertBlock>>
      BY DEF SkipBlock, SkipEnd, SkipOther, vars, graph
    <2> QED
      BY <1>1, <2>1, SkipDominance
  <1>6. Else \/ End => Dominance'
    BY ElseDominance, EndDominance
  <1>7. \A depth \in Depths : Br(depth) \/ BrIf(depth) => Dominance'
    BY BrDominance, BrIfDominance
  <1>8. \A n \in 0 .. MaxTargets : \A depths \in [1 .. n -> Depths], default \in Depths :
           BrTable(depths, default) => Dominance'
    BY BrTableDominance
  <1>9. Unreachable \/ Return => Dominance'
    BY UnreachableDominance, ReturnDominance
  <1>10. \A callee \in Callees :
            /\ Call(callee) /\ CallRule(callee, <<>>) => Dominance'
            /\ CallIndirect(callee) /\ CallRule(callee, <<"i32">>) => Dominance'
    BY CallDominance, CallIndirectDominance
  <1>11. \A i \in Instructions : Execute(i.op) => Dominance'
    BY InstructionTypes, ExecuteDominance
  <1> QED
    BY <1>2, <1>3, <1>4, <1>5, <1>6, <1>7, <1>8, <1>9, <1>10, <1>11, Zenon DEF LockNext

\* As long as the rules are obeyed the body has the dominance, and nothing is
\* used outside of one.
DomInv ==
    /\ Obeyed => Dominance
    /\ status # "body" => uses = {}

\* Every step keeps the dominance.
LEMMA StepDominance ==
    ASSUME IInv, DeadEmpty, LockInv, GraphInv, DomInv, IInv', LockInv', GraphInv', [LockNext]_lockVars
    PROVE  DomInv'
PROOF
  <1>1. CASE UNCHANGED lockVars
    <2>1. /\ UNCHANGED <<evalStack, cfEntries, blockEntries, blocks, edges, uses, insertBlock>>
          /\ UNCHANGED <<status, refusedAt>>
      BY <1>1 DEF lockVars, vars
    <2> QED
      BY <2>1, SkipDominance DEF DomInv, Obeyed
  <1>2. CASE LockNext
    <2>1. Next
      BY <1>2, LockSteps
    <2>2. ASSUME NEW result \in BodyResults, StartFunction(result) PROVE DomInv'
      <3>1. status = "section" /\ status' = "body"
        BY <2>2 DEF StartFunction
      <3> QED
        BY <2>2, <3>1, StartDominance DEF DomInv
    <2>3. CASE FinishFunction
      BY <2>3 DEF FinishFunction, DomInv, Obeyed
    <2>4. CASE FinishModule
      BY <2>4 DEF FinishModule, DomInv, Obeyed
    <2>5. CASE \E outcome \in {"invalid", "malformed", "aborted"} : Stop(outcome)
      BY <2>5 DEF Stop, DomInv, Obeyed
    <2>6. CASE InBody /\ status' = "body"
      <3>1. SUFFICES ASSUME refusedAt' = "none" PROVE Dominance'
        BY <2>6 DEF DomInv, Obeyed
      <3>2. refusedAt = "none"
        BY <1>2, <3>1, StepRefused DEF Refused
      <3>3. Dominating
        BY <2>6, <3>2 DEF Dominating, LockInv, Obeyed, DomInv, InBody
      <3> QED
        BY <1>2, <3>1, <3>2, <3>3, InstructionDominance
    <2> QED
      BY <2>1, <2>2, <2>3, <2>4, <2>5, <2>6, StepKinds
  <1> QED
    BY <1>1, <1>2

\* Nothing is computed at first.
LEMMA InitDominance == LockInit => DomInv
BY DEF LockInit, Init, DomInv, Obeyed

\* What an operand on the stack is used for is in none of the blocks that are
\* reached without the one it is computed in.
LEMMA DominanceStacks == IInv /\ DomInv => OperandsDominate
PROOF
  <1> SUFFICES ASSUME IInv, DomInv, Live, refusedAt = "none",
                      NEW p \in DOMAIN evalStack, evalStack[p].def # NoBlock
               PROVE  insertBlock \notin ReachedWithout(evalStack[p].def)
    BY DEF OperandsDominate, Dominates
  <1>1. OperandsApart
    BY DEF DomInv, Obeyed, Live, InBody, Dominance
  <1>2. PICK S : Region(evalStack[p].def, S) /\ Apart(p, S)
    BY <1>1 DEF OperandsApart
  <1>3. ReachedWithout(evalStack[p].def) \subseteq S
    BY <1>2, RegionHolds DEF IInv
  <1> QED
    BY <1>2, <1>3 DEF Apart

\* What the rules say of a body and what the translator makes of it, together.
FlowInv == IInv /\ DeadEmpty /\ LockInv /\ GraphInv /\ DomInv

\* Every step keeps the invariant.
LEMMA StepFlow == FlowInv /\ [LockNext]_lockVars => FlowInv'
PROOF
  <1> SUFFICES ASSUME FlowInv, [LockNext]_lockVars PROVE FlowInv'
    OBVIOUS
  <1>1. [Next]_vars
    BY LockSteps DEF lockVars
  <1>2. IInv' /\ DeadEmpty' /\ LockInv'
    BY StepLock DEF FlowInv
  <1>3. GraphInv'
    BY <1>1, <1>2, StepGraph DEF FlowInv
  <1> QED
    BY <1>2, <1>3, StepDominance DEF FlowInv

\* It holds of the initial states.
LEMMA InitFlow == LockInit => FlowInv
BY InitIInv, InitDead, InitLock, InitGraph, InitDominance DEF LockInit, FlowInv

\* Each operand a well typed body finds on the stack is computed on every path
\* to the code that uses it: the code of one branch takes none of the other.
THEOREM OperandsAreDominated == LockSpec => []OperandsDominate
PROOF
  <1>1. FlowInv => OperandsDominate
    BY DominanceStacks DEF FlowInv
  <1> QED
    BY <1>1, InitFlow, StepFlow, PTL DEF LockSpec

-----------------------------------------------------------------------------
(* The phis LLVM is given.                                                 *)

\* Only blocks without a phi are fallen into, and a phi that waits for its
\* structure to end is the only one that may have no value.
Unfallen == \A e \in edges : e[3] = FallThrough => blocks[e[2]] = Void
Fed == \A b \in DOMAIN blocks : blocks[b] # Void => b \in Ends \/ Into(b, incoming) # {}
Whole == Unfallen /\ Fed

\* Structures that stay open keep their ends.
LEMMA OpenedEnds ==
    ASSUME Opened
    PROVE  Ends \subseteq Ends'
BY DEF Opened, Ends

\* Code that is added behind edges of its own, with the values its phis need.
LEMMA WholeKept ==
    ASSUME Within, Whole, DOMAIN blocks \subseteq DOMAIN blocks',
           \A b \in DOMAIN blocks : blocks'[b] \in {blocks[b], Void},
           NEW E, edges' = edges \cup E, \A e \in E : e[3] = FallThrough => blocks'[e[2]] = Void,
           incoming \subseteq incoming',
           \A b \in DOMAIN blocks' :
               b \in Ends \/ b \notin DOMAIN blocks =>
                   blocks'[b] = Void \/ b \in Ends' \/ Into(b, incoming') # {}
    PROVE  Whole'
PROOF
  <1>1. Unfallen'
    BY DEF Unfallen, Whole, Within
  <1>2. Fed'
    <2>1. SUFFICES ASSUME NEW b \in DOMAIN blocks', blocks'[b] # Void
                   PROVE  b \in Ends' \/ Into(b, incoming') # {}
      BY DEF Fed, Into
    <2>2. CASE b \in DOMAIN blocks /\ b \notin Ends
      <3>1. blocks[b] # Void
        BY <2>1, <2>2
      <3>2. PICK v : v \in Into(b, incoming)
        BY <2>2, <3>1 DEF Fed, Whole
      <3> QED
        BY <3>2 DEF Into
    <2> QED
      BY <2>1, <2>2
  <1> QED
    BY <1>1, <1>2 DEF Whole

\* Blocks that go after the others.
LEMMA WholeGrows ==
    ASSUME TypeOK, Within, Whole, NEW new \in Seq(ResultTypes), blocks' = blocks \o new, Opened,
           NEW E, edges' = edges \cup E, \A e \in E : e[3] # FallThrough,
           incoming \subseteq incoming',
           \A k \in 1 .. Len(new) :
               \/ new[k] = Void \/ Len(blocks) + k \in Ends'
               \/ Into(Len(blocks) + k, incoming') # {}
    PROVE  Whole'
PROOF
  <1>1. /\ Len(blocks) \in Nat /\ Len(new) \in Nat
        /\ DOMAIN blocks = 1 .. Len(blocks) /\ DOMAIN blocks' = 1 .. Len(blocks) + Len(new)
        /\ \A b \in DOMAIN blocks : blocks'[b] = blocks[b]
        /\ \A k \in 1 .. Len(new) : blocks'[Len(blocks) + k] = new[k]
    BY BlocksAdded
  <1>2. Ends \subseteq Ends'
    BY OpenedEnds
  <1>3. ASSUME NEW b \in DOMAIN blocks', b \notin DOMAIN blocks
        PROVE  blocks'[b] = Void \/ b \in Ends' \/ Into(b, incoming') # {}
    <2>1. PICK k \in 1 .. Len(new) : b = Len(blocks) + k
      <3>1. b - Len(blocks) \in 1 .. Len(new) /\ b = Len(blocks) + (b - Len(blocks))
        BY <1>1, <1>3
      <3> QED
        BY <3>1
    <2> QED
      BY <1>1, <2>1
  <1>4. DOMAIN blocks \subseteq DOMAIN blocks'
    BY <1>1
  <1> QED
    BY <1>1, <1>2, <1>3, <1>4, WholeKept

\* Blocks that stay.
LEMMA WholeStays ==
    ASSUME Within, Whole, UNCHANGED blocks, Opened,
           NEW E, edges' = edges \cup E, \A e \in E : e[3] # FallThrough,
           incoming \subseteq incoming'
    PROVE  Whole'
PROOF
  <1>1. Ends \subseteq Ends'
    BY OpenedEnds
  <1> QED
    BY <1>1, WholeKept

\* The slots of branches are not the one of a missing else.
LEMMA SlotsTaken ==
    /\ Taken # FallThrough /\ NotTaken # FallThrough
    /\ \A i \in Nat : Case(i) # FallThrough
BY DEF Taken, NotTaken, FallThrough, Case

\* What an instruction of reachable code starts from.
Wholesome == IInv /\ GraphInv /\ Whole /\ IInv' /\ status' = "body"

\* Where reachable code appends.
LEMMA WholeLive ==
    ASSUME Wholesome, Live
    PROVE  /\ IInv /\ TypeOK /\ InBody /\ Phis /\ Within /\ Whole
           /\ \A outcome \in Finished : ~Stop(outcome)
BY LiveFacts DEF Wholesome, Stop, Finished

\* A structure opens with new blocks, the last of which is its end.
LEMMA WholeOpens ==
    ASSUME Wholesome, Live, NEW instr \in Kinds, NEW signature \in ResultTypes, NEW end \in Nat,
           NEW else \in Nat, NEW stack \in Seq(Operands), NEW target \in ResultTypes,
           NEW block \in Nat,
           PushCFEntry(instr, signature, end, else, stack), PushBlockEntry(target, block),
           end \in New, block \in New, else \in New \cup {NoBlock},
           NEW new \in Seq(ResultTypes), blocks' = blocks \o new, end = Len(blocks) + Len(new),
           \A k \in 1 .. Len(new) : k # Len(new) => new[k] = Void,
           NEW E, edges' = edges \cup E, \A e \in E : e[3] # FallThrough, UNCHANGED incoming
    PROVE  Whole'
PROOF
  <1>1. /\ IInv /\ TypeOK /\ Within /\ Whole
    BY WholeLive
  <1>2. Opened
    BY <1>1, PushOpened
  <1>3. end \in Ends'
    <2>1. PICK entry : /\ entry = [instr |-> instr, signature |-> signature, end |-> end, else |-> else,
                                   outerStackSize |-> Len(stack), outerBlockDepth |-> Len(blockEntries),
                                   reachable |-> TRUE]
                       /\ cfEntries' = Append(cfEntries, entry)
      BY DEF PushCFEntry
    <2>2. cfEntries \in Seq(Entries)
      BY <1>1, StackLengths
    <2>3. Len(cfEntries) + 1 \in DOMAIN cfEntries' /\ cfEntries'[Len(cfEntries) + 1] = entry
      BY <2>1, <2>2
    <2> QED
      BY <2>1, <2>3 DEF Ends
  <1> QED
    BY <1>1, <1>2, <1>3, WholeGrows

\* Block keeps the phis whole.
LEMMA BlockWhole ==
    ASSUME Wholesome, NEW signature \in BlockTypes, Block(signature)
    PROVE  Whole'
PROOF
  <1> DEFINE end == Len(blocks) + 1
             new == <<signature>>
  <1>1. Live
    BY DEF Block, Wholesome
  <1>2. /\ blocks' = Append(blocks, signature)
        /\ PushCFEntry("block", signature, end, NoBlock, evalStack) /\ PushBlockEntry(signature, end)
        /\ UNCHANGED <<edges, incoming>>
    BY DEF Block
  <1>3. /\ IInv /\ TypeOK /\ Len(blocks) \in Nat /\ evalStack \in Seq(Operands)
        /\ signature \in ResultTypes /\ end \in Nat /\ NoBlock \in Nat /\ "block" \in Kinds
    BY <1>1, WholeLive, ResultsAssumption, TypeParts, LenProperties
       DEF StackTypes, GraphTypes, Kinds, NoBlock
  <1>4. new \in Seq(ResultTypes) /\ Len(new) = 1 /\ blocks' = blocks \o new
        /\ \A k \in 1 .. 1 : k # 1 => new[k] = Void
    <2>1. Append(blocks, signature) = blocks \o <<signature>>
      BY <1>3, AppendIsConcat DEF TypeOK
    <2> QED
      BY <1>2, <1>3, <2>1
  <1> HIDE DEF new
  <1>5. end \in New
    <2>1. New = Len(blocks) + 1 .. Len(blocks) + 1
      BY <1>3, <1>4, BlocksAdded
    <2> QED
      BY <1>3, <2>1
  <1>6. end = Len(blocks) + Len(new) /\ \A k \in 1 .. Len(new) : k # Len(new) => new[k] = Void
    BY <1>4
  <1> HIDE DEF end
  <1>7. PICK E : E = {}
    OBVIOUS
  <1>8. edges' = edges \cup E /\ (\A e \in E : e[3] # FallThrough) /\ NoBlock \in New \cup {NoBlock}
    BY <1>2, <1>7
  <1> QED
    BY <1>1, <1>2, <1>3, <1>4, <1>5, <1>6, <1>8, WholeOpens

\* Loop keeps the phis whole.
LEMMA LoopWhole ==
    ASSUME Wholesome, NEW signature \in BlockTypes, Loop(signature)
    PROVE  Whole'
PROOF
  <1> DEFINE entry == Len(blocks) + 1
             end == Len(blocks) + 2
             new == <<Void, signature>>
             E == {<<insertBlock, entry, Taken>>}
  <1>1. /\ Live /\ blocks' = blocks \o new /\ edges' = edges \cup E
        /\ PushCFEntry("loop", signature, end, NoBlock, evalStack) /\ PushBlockEntry(Void, entry)
        /\ UNCHANGED incoming
    BY DEF Loop
  <1>2. /\ IInv /\ TypeOK /\ Len(blocks) \in Nat /\ evalStack \in Seq(Operands)
        /\ signature \in ResultTypes /\ Void \in ResultTypes
        /\ end \in Nat /\ entry \in Nat /\ NoBlock \in Nat /\ "loop" \in Kinds
    BY <1>1, WholeLive, ResultsAssumption, ValTypesFacts, TypeParts, LenProperties
       DEF StackTypes, GraphTypes, Kinds, NoBlock
  <1>3. new \in Seq(ResultTypes) /\ Len(new) = 2 /\ \A k \in 1 .. 2 : k # 2 => new[k] = Void
    BY <1>2
  <1> HIDE DEF new
  <1>4. end \in New /\ entry \in New /\ NoBlock \in New \cup {NoBlock}
    <2>1. New = Len(blocks) + 1 .. Len(blocks) + 2
      BY <1>1, <1>2, <1>3, BlocksAdded
    <2> QED
      BY <1>2, <2>1
  <1>5. end = Len(blocks) + Len(new) /\ \A k \in 1 .. Len(new) : k # Len(new) => new[k] = Void
    BY <1>3
  <1> HIDE DEF end, entry
  <1>6. \A e \in E : e[3] # FallThrough
    BY SlotsTaken
  <1> HIDE DEF E
  <1> QED
    BY <1>1, <1>2, <1>3, <1>4, <1>5, <1>6, WholeOpens

\* If keeps the phis whole.
LEMMA IfWhole ==
    ASSUME Wholesome, NEW signature \in BlockTypes, If(signature)
    PROVE  Whole'
PROOF
  <1> DEFINE then == Len(blocks) + 1
             else == Len(blocks) + 2
             end == Len(blocks) + 3
             new == <<Void, Void, signature>>
             E == {<<insertBlock, then, Taken>>, <<insertBlock, else, NotTaken>>}
  <1>1. Live /\ TypeOK
    BY DEF If, Wholesome, IInv
  <1>2. /\ blocks' = blocks \o new /\ edges' = edges \cup E
        /\ PushCFEntry("if", signature, end, else, evalStack') /\ PushBlockEntry(signature, end)
        /\ UNCHANGED incoming
    BY <1>1, WholeLive, Outcomes DEF If
  <1>3. /\ IInv /\ TypeOK /\ Len(blocks) \in Nat /\ evalStack' \in Seq(Operands)
        /\ signature \in ResultTypes /\ Void \in ResultTypes
        /\ end \in Nat /\ else \in Nat /\ then \in Nat /\ "if" \in Kinds
    <2>1. IInv /\ IInv' /\ TypeOK /\ TypeOK'
      BY <1>1, WholeLive DEF Wholesome, IInv
    <2>2. evalStack' \in Seq(Operands)
      BY <2>1 DEF TypeOK, Operands
    <2>3. blocks \in Seq(ResultTypes)
      BY <2>1 DEF TypeOK
    <2>4. Len(blocks) \in Nat
      BY <2>3, LenProperties
    <2>5. signature \in ResultTypes /\ Void \in ResultTypes /\ "if" \in Kinds
      BY ResultsAssumption, ValTypesFacts DEF Kinds
    <2> QED
      BY <2>1, <2>2, <2>4, <2>5
  <1>4. new \in Seq(ResultTypes) /\ Len(new) = 3 /\ \A k \in 1 .. 3 : k # 3 => new[k] = Void
    BY <1>3
  <1> HIDE DEF new
  <1>5. end \in New /\ else \in New
    <2>1. New = Len(blocks) + 1 .. Len(blocks) + 3
      BY <1>2, <1>3, <1>4, BlocksAdded
    <2> QED
      BY <1>3, <2>1
  <1>6. end = Len(blocks) + Len(new) /\ \A k \in 1 .. Len(new) : k # Len(new) => new[k] = Void
    BY <1>4
  <1> HIDE DEF end, else, then
  <1>7. \A e \in E : e[3] # FallThrough
    BY SlotsTaken
  <1> HIDE DEF E
  <1>8. PICK stack : stack = evalStack'
    OBVIOUS
  <1>9. PushCFEntry("if", signature, end, else, stack) /\ stack \in Seq(Operands)
    BY <1>2, <1>3, <1>8
  <1>10. blocks' = blocks \o new /\ edges' = edges \cup E /\ PushBlockEntry(signature, end)
         /\ UNCHANGED incoming /\ else \in New \cup {NoBlock}
    BY <1>2, <1>5
  <1> QED
    BY <1>1, <1>3, <1>4, <1>5, <1>6, <1>7, <1>9, <1>10, WholeOpens

\* else: the first branch jumps to the end.
LEMMA ElseWhole ==
    ASSUME Wholesome, Else
    PROVE  Whole'
PROOF
  <1>1. \A outcome \in Finished : ~Stop(outcome)
    BY DEF Wholesome, Stop, Finished
  <1>2. /\ InBody /\ edges' = edges \cup JoinEdges /\ incoming' = incoming \cup JoinValues
        /\ cfEntries' = [cfEntries EXCEPT ![Len(cfEntries)] =
                           [@ EXCEPT !.instr = "else", !.reachable = TRUE, !.else = NoBlock]]
        /\ blocks' = blocks
    BY <1>1, Outcomes DEF Else, AtJoin
  <1>3. Ends' = Ends
    <2>1. /\ DOMAIN cfEntries' = DOMAIN cfEntries
          /\ \A i \in DOMAIN cfEntries : cfEntries'[i].end = cfEntries[i].end
      <3>1. cfEntries \in Seq(Entries)
        BY StackLengths DEF Wholesome
      <3> QED
        BY <1>2, <3>1 DEF Entries
    <2> QED
      BY <2>1 DEF Ends
  <1>4. \A e \in JoinEdges : e[3] # FallThrough
    BY SlotsTaken DEF JoinEdges
  <1>5. Within /\ Whole
    BY <1>2 DEF Wholesome, GraphInv, Phis, InBody
  <1> QED
    BY <1>2, <1>3, <1>4, <1>5, WholeKept

\* end: the phi that got no value is erased, and only a structure without
\* result misses its else.
LEMMA EndWhole ==
    ASSUME Wholesome, End, Top.else = NoBlock \/ Top.signature = Void
    PROVE  Whole'
PROOF
  <1>1. \A outcome \in Finished : ~Stop(outcome)
    BY DEF Wholesome, Stop, Finished
  <1>2. PICK values : values = incoming'
    OBVIOUS
  <1>3. /\ InBody /\ edges' = edges \cup (JoinEdges \cup FallThroughEdges)
        /\ incoming' = incoming \cup JoinValues
        /\ blocks' = IF HasIncoming(values) THEN blocks ELSE [blocks EXCEPT ![Top.end] = Void]
        /\ cfEntries' = SubSeq(cfEntries, 1, Len(cfEntries) - 1)
        /\ blockEntries' = SubSeq(blockEntries, 1, Top.outerBlockDepth)
    BY <1>1, <1>2, Outcomes DEF End, AtJoin
  <1>4. /\ IInv /\ TypeOK /\ OpenInv /\ Within /\ Whole /\ EndsTyped /\ blocks \in Seq(ResultTypes)
    BY <1>3 DEF Wholesome, GraphInv, Phis, InBody, IInv, TypeOK
  <1>5. /\ DOMAIN cfEntries = 1 .. Len(cfEntries) /\ Len(cfEntries) \in Nat \ {0}
        /\ Top = cfEntries[Len(cfEntries)] /\ Len(cfEntries) \in DOMAIN cfEntries
        /\ Top.end \in DOMAIN blocks /\ blocks[Top.end] = Top.signature
    <2>1. /\ DOMAIN cfEntries = 1 .. Len(cfEntries) /\ Len(cfEntries) \in Nat \ {0}
          /\ Top = cfEntries[Len(cfEntries)] /\ Len(cfEntries) \in DOMAIN cfEntries
      BY <1>3, <1>4, AtTop
    <2> QED
      BY <1>4, <2>1 DEF EndsTyped
  <1>6. /\ DOMAIN blocks' = DOMAIN blocks
        /\ \A b \in DOMAIN blocks : blocks'[b] \in {blocks[b], Void}
        /\ HasIncoming(values) \/ blocks'[Top.end] = Void
    BY <1>3, <1>4, <1>5
  <1>7. \A e \in JoinEdges \cup FallThroughEdges : e[3] = FallThrough => blocks'[e[2]] = Void
    <2>1. \A e \in JoinEdges : e[3] # FallThrough
      BY SlotsTaken DEF JoinEdges
    <2>2. \A e \in FallThroughEdges : e[2] = Top.end /\ Top.else # NoBlock
      BY DEF FallThroughEdges
    <2>3. Top.else # NoBlock => blocks'[Top.end] = Void
      BY <1>5, <1>6
    <2> QED
      BY <2>1, <2>2, <2>3
  <1>8. \A b \in Ends : b \in Ends' \/ b = Top.end
    <2>1. SUFFICES ASSUME NEW i \in DOMAIN cfEntries, i # Len(cfEntries)
                   PROVE  cfEntries[i].end \in Ends'
      BY <1>5 DEF Ends
    <2>2. i \in DOMAIN cfEntries' /\ cfEntries'[i] = cfEntries[i]
      BY <1>3, <1>4, <1>5, <2>1, EndEntries
    <2> QED
      BY <2>2 DEF Ends
  <1>9. HasIncoming(values) => Into(Top.end, incoming') # {}
    BY <1>2 DEF HasIncoming, Into
  <1>10. \A b \in DOMAIN blocks' :
            b \in Ends \/ b \notin DOMAIN blocks =>
                blocks'[b] = Void \/ b \in Ends' \/ Into(b, incoming') # {}
    BY <1>6, <1>8, <1>9
  <1> HIDE DEF Wholesome
  <1> QED
    BY <1>3, <1>4, <1>6, <1>7, <1>10, WholeKept

\* A jump to structures that are open.
LEMMA JumpWhole ==
    ASSUME Wholesome, Live, NEW stack, SkipUnreachable(stack), UNCHANGED <<blocks, blockEntries>>,
           NEW E, edges' = edges \cup E, \A e \in E : e[3] # FallThrough,
           incoming \subseteq incoming'
    PROVE  Whole'
PROOF
  <1>1. IInv /\ InBody /\ Within /\ Whole
    BY WholeLive
  <1>2. Opened
    BY <1>1, SkipOpened
  <1> QED
    BY <1>1, <1>2, WholeStays

\* Unreachable keeps the phis whole.
LEMMA UnreachableWhole ==
    ASSUME Wholesome, Unreachable
    PROVE  Whole'
PROOF
  <1> DEFINE new == <<Void, Void>>
             E == {<<insertBlock, Len(blocks) + 1, Taken>>, <<insertBlock, Len(blocks) + 2, NotTaken>>}
  <1>1. Live
    BY DEF Unreachable
  <1>2. /\ blocks' = blocks \o new /\ edges' = edges \cup E /\ SkipUnreachable(evalStack)
        /\ UNCHANGED <<blockEntries, incoming>>
    BY <1>1, WholeLive, Outcomes DEF Unreachable
  <1>3. new \in Seq(ResultTypes) /\ Len(new) = 2 /\ \A k \in 1 .. 2 : new[k] = Void
    BY ValTypesFacts
  <1> HIDE DEF new
  <1>4. \A e \in E : e[3] # FallThrough
    BY SlotsTaken
  <1> HIDE DEF E
  <1>5. IInv /\ TypeOK /\ InBody /\ Within /\ Whole
    BY <1>1, WholeLive
  <1>6. Opened
    BY <1>2, <1>5, SkipOpened
  <1> QED
    BY <1>2, <1>3, <1>4, <1>5, <1>6, WholeGrows

\* Br keeps the phis whole.
LEMMA BrWhole ==
    ASSUME Wholesome, NEW depth \in Depths, Br(depth)
    PROVE  Whole'
PROOF
  <1> DEFINE target == Target(depth)
             E == {<<insertBlock, target.block, Taken>>}
  <1>1. Live
    BY DEF Br
  <1>2. PICK stack : /\ SkipUnreachable(stack) /\ UNCHANGED <<blocks, blockEntries>>
                     /\ edges' = edges \cup E /\ incoming \subseteq incoming'
    BY <1>1, WholeLive, Outcomes DEF Br
  <1>3. \A e \in E : e[3] # FallThrough
    BY SlotsTaken
  <1> HIDE DEF E
  <1> QED
    BY <1>1, <1>2, <1>3, JumpWhole

\* BrTable keeps the phis whole.
LEMMA BrTableWhole ==
    ASSUME Wholesome, NEW n \in 0 .. MaxTargets, NEW depths \in [1 .. n -> Depths],
           NEW default \in Depths, BrTable(depths, default)
    PROVE  Whole'
PROOF
  <1> DEFINE E == {<<insertBlock, Target(default).block, Taken>>} \cup
                    {<<insertBlock, Target(depths[i]).block, Case(i)>> : i \in DOMAIN depths}
  <1>1. Live
    BY DEF BrTable
  <1>2. PICK stack : /\ SkipUnreachable(stack) /\ UNCHANGED <<blocks, blockEntries>>
                     /\ edges' = edges \cup E /\ incoming \subseteq incoming'
    BY <1>1, WholeLive, Outcomes DEF BrTable
  <1>3. \A e \in E : e[3] # FallThrough
    <2>1. DOMAIN depths \subseteq Nat
      BY BoundsAssumption
    <2> QED
      BY <2>1, SlotsTaken
  <1> HIDE DEF E
  <1> QED
    BY <1>1, <1>2, <1>3, JumpWhole

\* Return keeps the phis whole.
LEMMA ReturnWhole ==
    ASSUME Wholesome, Return
    PROVE  Whole'
PROOF
  <1> DEFINE E == {<<insertBlock, cfEntries[1].end, Taken>>}
  <1>1. Live
    BY DEF Return
  <1>2. PICK stack : /\ SkipUnreachable(stack) /\ UNCHANGED <<blocks, blockEntries>>
                     /\ edges' = edges \cup E /\ incoming \subseteq incoming'
    BY <1>1, WholeLive, Outcomes DEF Return
  <1>3. \A e \in E : e[3] # FallThrough
    BY SlotsTaken
  <1> HIDE DEF E
  <1> QED
    BY <1>1, <1>2, <1>3, JumpWhole

\* Code with branches of its own, in the same structures.
LEMMA CodeWhole ==
    ASSUME Wholesome, Live, UNCHANGED <<cfEntries, blockEntries>>,
           NEW new \in Seq(ResultTypes), blocks' = blocks \o new,
           \A k \in 1 .. Len(new) : new[k] = Void \/ Into(Len(blocks) + k, incoming') # {},
           NEW E, edges' = edges \cup E, \A e \in E : e[3] # FallThrough,
           incoming \subseteq incoming'
    PROVE  Whole'
PROOF
  <1>1. TypeOK /\ Within /\ Whole
    BY WholeLive
  <1> QED
    BY <1>1, SameOpened, WholeGrows

\* BrIf keeps the phis whole.
LEMMA BrIfWhole ==
    ASSUME Wholesome, NEW depth \in Depths, BrIf(depth)
    PROVE  Whole'
PROOF
  <1> DEFINE new == <<Void>>
             E == {<<insertBlock, Target(depth).block, Taken>>, <<insertBlock, Len(blocks) + 1, NotTaken>>}
  <1>1. Live
    BY DEF BrIf
  <1>2. /\ blocks' = Append(blocks, Void) /\ edges' = edges \cup E
        /\ UNCHANGED <<cfEntries, blockEntries>> /\ incoming \subseteq incoming'
    BY <1>1, WholeLive, Outcomes DEF BrIf
  <1>3. /\ new \in Seq(ResultTypes) /\ Len(new) = 1 /\ \A k \in 1 .. 1 : new[k] = Void
        /\ blocks' = blocks \o new
    <2>1. Void \in ResultTypes /\ blocks \in Seq(ResultTypes)
      BY <1>1, WholeLive, ValTypesFacts DEF TypeOK
    <2>2. Append(blocks, Void) = blocks \o <<Void>>
      BY <2>1, AppendIsConcat
    <2> QED
      BY <1>2, <2>1, <2>2
  <1> HIDE DEF new
  <1>4. \A e \in E : e[3] # FallThrough
    BY SlotsTaken
  <1> HIDE DEF E
  <1> QED
    BY <1>1, <1>2, <1>3, <1>4, CodeWhole

\* A trap has no phi.
LEMMA TrapWhole ==
    ASSUME Wholesome, Live, TrapIf, UNCHANGED <<cfEntries, blockEntries, incoming>>
    PROVE  Whole'
PROOF
  <1> DEFINE new == <<Void, Void>>
             E == {<<insertBlock, Len(blocks) + 1, Taken>>, <<insertBlock, Len(blocks) + 2, NotTaken>>}
  <1>1. blocks' = blocks \o new /\ edges' = edges \cup E
    BY DEF TrapIf
  <1>2. new \in Seq(ResultTypes) /\ Len(new) = 2 /\ \A k \in 1 .. 2 : new[k] = Void
    BY ValTypesFacts
  <1> HIDE DEF new
  <1>3. \A e \in E : e[3] # FallThrough
    BY SlotsTaken
  <1> HIDE DEF E
  <1> QED
    BY <1>1, <1>2, <1>3, CodeWhole

\* The phi of a remainder has its values at once.
LEMMA SRemWhole ==
    ASSUME Wholesome, Live, NEW type \in ResultTypes, SRemDiamond(type),
           UNCHANGED <<cfEntries, blockEntries>>
    PROVE  Whole'
PROOF
  <1> DEFINE then == Len(blocks) + 1
             skip == Len(blocks) + 2
             rem == Len(blocks) + 3
             end == Len(blocks) + 4
             new == <<Void, Void, Void, type>>
             E == {<<insertBlock, then, Taken>>, <<insertBlock, skip, NotTaken>>,
                   <<skip, rem, Taken>>, <<skip, end, NotTaken>>, <<rem, end, Taken>>}
  <1>1. /\ blocks' = blocks \o new /\ edges' = edges \cup E
        /\ incoming' = incoming \cup {<<rem, end, Taken>>, <<skip, end, NotTaken>>}
    BY DEF SRemDiamond
  <1>2. new \in Seq(ResultTypes) /\ Len(new) = 4 /\ \A k \in 1 .. 4 : new[k] = Void \/ k = 4
    BY ValTypesFacts
  <1> HIDE DEF new
  <1>3. \A e \in E : e[3] # FallThrough
    BY SlotsTaken
  <1>4. Into(end, incoming') # {}
    <2>1. <<rem, end, Taken>> \in Into(end, incoming')
      BY <1>1 DEF Into
    <2> QED
      BY <2>1
  <1>5. \A k \in 1 .. Len(new) : new[k] = Void \/ Into(Len(blocks) + k, incoming') # {}
    BY <1>2, <1>4
  <1>6. incoming \subseteq incoming'
    BY <1>1
  <1> HIDE DEF E
  <1> QED
    BY <1>1, <1>2, <1>3, <1>5, <1>6, CodeWhole

\* Code in a straight line.
LEMMA GraphWhole ==
    ASSUME Whole, UNCHANGED <<blocks, edges, incoming, cfEntries>>
    PROVE  Whole'
BY DEF Whole, Unfallen, Fed, Ends, Into

\* Straight keeps the phis whole.
LEMMA StraightWhole ==
    ASSUME Wholesome, StraightStep
    PROVE  Whole'
PROOF
  <1>1. Live /\ Whole /\ \A outcome \in Finished : ~Stop(outcome)
    BY WholeLive DEF StraightStep, Call, CallIndirect, Execute
  <1>2. ASSUME NEW callee \in Callees, Call(callee) PROVE Whole'
    <2>1. UNCHANGED <<blocks, edges, incoming, cfEntries>>
      BY <1>1, <1>2, Outcomes DEF Call, graph
    <2> QED
      BY <1>1, <2>1, GraphWhole
  <1>3. ASSUME NEW callee \in Callees, CallIndirect(callee) PROVE Whole'
    <2>1. TrapIf /\ UNCHANGED <<cfEntries, blockEntries, incoming>>
      BY <1>1, <1>3, Outcomes DEF CallIndirect
    <2> QED
      BY <1>1, <2>1, TrapWhole
  <1>4. ASSUME NEW op \in Opcodes, Execute(op) PROVE Whole'
    <2>1. PICK t \in op.typings :
            /\ \/ UNCHANGED graph
               \/ TrapIf /\ UNCHANGED incoming
               \/ SRemDiamond(t.out)
            /\ UNCHANGED <<cfEntries, blockEntries>>
      BY <1>1, <1>4, Outcomes DEF Execute
    <2>2. t.out \in ResultTypes
      BY OpcodesAreOps DEF Ops, Typings
    <2>3. UNCHANGED graph => UNCHANGED <<blocks, edges, incoming>>
      BY DEF graph
    <2> QED
      BY <1>1, <2>1, <2>2, <2>3, GraphWhole, TrapWhole, SRemWhole
  <1> QED
    BY <1>2, <1>3, <1>4 DEF StraightStep

-----------------------------------------------------------------------------
(* LLVM accepts the code of a well typed body.                             *)

\* The typings an instruction's name gives it are ones LLVM accepts.
LEMMA DeclaredOk == \A i \in Instructions : \A t \in i.declared : t.ok
PROOF
  <1>1. SUFFICES ASSUME NEW i \in Instructions, NEW t \in i.declared PROVE t.ok
    OBVIOUS
  <1>2. ASSUME NEW op, i = AsTyped(op) PROVE t.ok
    BY <1>2 DEF AsTyped
  <1>3. ASSUME NEW type, i = AsNamed(SignExt(type), {Typing(<<type>>, type, TRUE)}) PROVE t.ok
    <2>1. i.declared = {Typing(<<type>>, type, TRUE)}
      BY <1>3 DEF AsNamed
    <2>2. t = Typing(<<type>>, type, TRUE)
      BY <1>1, <2>1
    <2>3. t.ok = TRUE
      BY <2>2 DEF Typing
    <2> QED
      BY <2>3
  <1>4. ASSUME NEW op \in Untyped, i \in NamedForms(op) PROVE t.ok
    <2>1. PICK type \in IntTypes : i = AsNamed(op, {typing \in op.typings : typing.ins = <<type, type>>})
      BY <1>4 DEF NamedForms
    <2>2. i.declared = {typing \in op.typings : typing.ins = <<type, type>>}
      BY <2>1 DEF AsNamed
    <2>3. t \in op.typings /\ t.ins = <<type, type>>
      BY <1>1, <2>2
    <2>4. t.ins[1] \in IntTypes
      BY <2>3
    <2>5. \/ \E s \in ValTypes : t = Typing(<<s, s>>, s, s \in IntTypes)
          \/ \E s \in ValTypes : t = Typing(<<s, s>>, "i32", s \in IntTypes)
          \/ \E s \in IntTypes : t = Typing(<<s, s>>, s, TRUE)
      <3>1. op = IBinary \/ op = ICmp \/ op = UDiv \/ op = SDiv
        BY DEF Untyped
      <3>2. /\ IBinary.typings = {Typing(<<s, s>>, s, s \in IntTypes) : s \in ValTypes}
            /\ ICmp.typings = {Typing(<<s, s>>, "i32", s \in IntTypes) : s \in ValTypes}
            /\ UDiv.typings = {Typing(<<s, s>>, s, s \in IntTypes) : s \in ValTypes}
            /\ SDiv.typings = {Typing(<<s, s>>, s, TRUE) : s \in IntTypes}
        BY DEF IBinary, ICmp, UDiv, SDiv, Straight, Op
      <3> QED
        BY <2>3, <3>1, <3>2
    <2>6. \A s, out, ok : t = Typing(<<s, s>>, out, ok) => t.ins[1] = s /\ t.ok = ok
      BY DEF Typing
    <2> QED
      BY <2>4, <2>5, <2>6
  <1>5. \/ i \in {AsTyped(op) : op \in Opcodes \ (Untyped \cup {SignExt(type) : type \in UntypedUnary})}
        \/ i \in {AsNamed(SignExt(type), {Typing(<<type>>, type, TRUE)}) : type \in UntypedUnary}
        \/ i \in UNION {NamedForms(op) : op \in Untyped}
    BY Zenon DEF Instructions
  <1> QED
    BY <1>2, <1>3, <1>4, <1>5

\* The typing the translator finds for an opcode that obeys its rule is the
\* one the rule has, and LLVM accepts it.
LEMMA ExecuteVerifies ==
    ASSUME Obeying, NEW i \in Instructions, Execute(i.op), OperandRule(i), status' = "body", verifies
    PROVE  verifies'
PROOF
  <1>1. /\ IInv /\ Agreement /\ Live /\ InBody /\ TypeOK
        /\ \A outcome \in Finished : ~Stop(outcome)
    BY DEF Obeying, Execute, Live, InBody, IInv, Stop, Finished
  <1>2. PICK op \in Opcodes : op = i.op /\ i.declared \subseteq op.typings
    BY InstructionTypes
  <1>3. op.typings \subseteq Typings
    BY OpcodesAreOps DEF Ops
  <1>4. {typing \in i.declared : Holds(typing.ins)} # {}
    <2>1. i.rule # "none"
      BY InstructionTypes
    <2>2. PICK next : Obey(i.rule, {typing \in i.declared : Holds(typing.ins)} # {}, next)
      BY DEF OperandRule
    <2> QED
      BY <2>1, <2>2 DEF Obeying, Obey
  <1>5. PICK typing \in i.declared : Holds(typing.ins)
    BY <1>4
  <1>6. typing \in op.typings /\ typing.ins \in Seq(ValTypes) /\ typing.ok
    BY <1>2, <1>3, <1>5, DeclaredOk DEF Typings
  <1>7. Fits(typing.ins)
    BY <1>1, <1>5, <1>6, HoldsFits
  <1>8. PICK t \in op.typings : Pops(t.ins) /\ verifies' = (verifies /\ t.ok)
    <2>1. ~Stop("invalid")
      BY <1>1, Outcomes
    <2> QED
      BY <1>2, <2>1 DEF Execute
  <1>9. t.ok
    <2>1. t.ins \in Seq(ValTypes)
      BY <1>3 DEF Typings
    <2>2. Len(t.ins) = Len(typing.ins) /\ (typing.ins = t.ins => (typing.ok => t.ok))
      BY <1>6, OpcodesDetermined, SameOperands
    <2>3. t.ins = typing.ins
      BY <1>1, <1>6, <1>7, <1>8, <2>1, <2>2, PopsFits, FitsOnce
    <2> QED
      BY <1>6, <2>2, <2>3
  <1> QED
    BY <1>8, <1>9

\* Every other instruction leaves the verdict on the functions before alone.
LEMMA OthersVerify ==
    ASSUME LockNext, InBody, status' = "body", ~IllFormed,
           ~(\E i \in Instructions : Execute(i.op) /\ OperandRule(i))
    PROVE  verifies' = verifies
PROOF
  <1>1. /\ ~Stop("invalid") /\ ~Stop("malformed") /\ ~Stop("aborted")
        /\ \A result : ~StartFunction(result)
        /\ ~FinishFunction /\ ~FinishModule
    BY DEF Stop, StartFunction, FinishFunction, FinishModule, InBody
  <1>2. /\ \A signature : Block(signature) \/ Loop(signature) \/ If(signature) => verifies' = verifies
        /\ Else \/ End \/ SkipBlock \/ SkipEnd \/ SkipOther => verifies' = verifies
    BY <1>1 DEF Block, Loop, If, Else, End, SkipBlock, SkipEnd, SkipOther, vars
  <1>3. /\ \A depth : Br(depth) \/ BrIf(depth) => verifies' = verifies
        /\ \A depths, default : BrTable(depths, default) => verifies' = verifies
        /\ Unreachable \/ Return => verifies' = verifies
    BY <1>1 DEF Br, BrIf, BrTable, Unreachable, Return
  <1>4. \A callee : Call(callee) \/ CallIndirect(callee) => verifies' = verifies
    BY <1>1 DEF Call, CallIndirect
  <1> QED
    BY <1>1, <1>2, <1>3, <1>4, Zenon DEF LockNext

\* An instruction that obeys its rule keeps the phis whole.
LEMMA InstructionWhole ==
    ASSUME Wholesome, Agreement, InBody, LockNext, refusedAt = "none", refusedAt' = "none"
    PROVE  Whole'
PROOF
  <1>1. /\ Whole /\ IInv /\ status = "body" /\ status' = "body"
    BY DEF Wholesome, InBody
  <1>2. ~IllFormed
    BY DEF IllFormed, Obey
  <1>3. /\ \A result : ~StartFunction(result)
        /\ ~FinishFunction /\ ~FinishModule
    BY <1>1 DEF StartFunction, FinishFunction, FinishModule
  <1>4. \A signature \in BlockTypes : Block(signature) \/ Loop(signature) \/ If(signature) => Whole'
    BY BlockWhole, LoopWhole, IfWhole
  <1>5. SkipBlock \/ SkipEnd \/ SkipOther => Whole'
    <2>1. SkipBlock \/ SkipEnd \/ SkipOther => UNCHANGED <<blocks, edges, incoming, cfEntries>>
      BY DEF SkipBlock, SkipEnd, SkipOther, vars, graph
    <2> QED
      BY <1>1, <2>1, GraphWhole
  <1>6. Else => Whole'
    BY ElseWhole
  <1>7. End /\ EndRule => Whole'
    <2>1. SUFFICES ASSUME End, EndRule PROVE Top.else = NoBlock \/ Top.signature = Void
      BY EndWhole
    <2>2. ~(Closes /\ Inner.kind = "if" /\ Inner.result # Void)
      <3>1. ~Obey("missing else", FALSE, frames)
        BY DEF Obey
      <3> QED
        BY <2>1, <3>1 DEF EndRule
    <2>3. AtJoin /\ FrameCloses
      BY <1>1, <2>1 DEF End, Stop
    <2>4. Closes
      BY <1>1, <2>3, FrameClosesRule
    <2>5. Inner.result = Top.signature /\ (Inner.kind = "if" <=> Top.else # NoBlock)
      BY <1>1, InnerFrame
    <2> QED
      BY <2>2, <2>4, <2>5
  <1>8. \A depth \in Depths : Br(depth) \/ BrIf(depth) => Whole'
    BY BrWhole, BrIfWhole
  <1>9. \A n \in 0 .. MaxTargets : \A depths \in [1 .. n -> Depths], default \in Depths :
           BrTable(depths, default) => Whole'
    BY BrTableWhole
  <1>10. Unreachable \/ Return => Whole'
    BY UnreachableWhole, ReturnWhole
  <1>11. \A callee \in Callees : Call(callee) \/ CallIndirect(callee) => Whole'
    BY StraightWhole DEF StraightStep
  <1>12. \A i \in Instructions : Execute(i.op) => Whole'
    BY InstructionTypes, StraightWhole DEF StraightStep
  <1> QED
    BY <1>2, <1>3, <1>4, <1>5, <1>6, <1>7, <1>8, <1>9, <1>10, <1>11, <1>12, Zenon DEF LockNext

\* A function starts with a phi for its result, which waits for the last end.
LEMMA StartWhole ==
    ASSUME IInv, GraphInv, NEW result \in BodyResults, StartFunction(result)
    PROVE  Whole'
PROOF
  <1>1. status = "section" /\ blocks' = <<result, Void>> /\ edges' = edges /\ incoming' = incoming
    BY DEF StartFunction
  <1>2. edges = {} /\ cfEntries = <<>>
    BY <1>1 DEF GraphInv, IdleGraph, IInv, StacksInv, Idle
  <1>3. 1 \in Ends'
    <2>1. 1 \in DOMAIN cfEntries' /\ cfEntries'[1].end = FuncEnd
      BY <1>2 DEF StartFunction, PushCFEntry
    <2> QED
      BY <2>1 DEF Ends, FuncEnd
  <1>4. DOMAIN blocks' = {1, 2} /\ blocks'[2] = Void
    BY <1>1
  <1> QED
    BY <1>1, <1>2, <1>3, <1>4 DEF Whole, Unfallen, Fed

\* A function whose last structure is closed verifies.
LEMMA FunctionWhole ==
    ASSUME FlowInv, Obeyed, Whole, cfEntries = <<>>
    PROVE  FunctionVerifies
PROOF
  <1>1. Open /\ PhiPerEdge /\ UsesApart /\ TypeOK
    BY DEF FlowInv, GraphInv, OpenInv, Obeyed, DomInv, Dominance, IInv
  <1>2. Ends = {} /\ Elses = {}
    BY DEF Ends, Elses
  <1>3. DOMAIN blocks \subseteq terminated \cup {insertBlock}
    BY <1>1, <1>2 DEF Open, Current
  <1>4. ASSUME NEW b \in DOMAIN blocks, blocks[b] # Void
        PROVE  Into(b, incoming) = Into(b, edges) /\ Into(b, edges) # {}
    <2>1. Into(b, incoming) \subseteq Into(b, edges) /\ \A e \in Into(b, edges) \ incoming : e[3] = FallThrough
      BY <1>1, <1>4 DEF PhiPerEdge
    <2>2. \A e \in Into(b, edges) : e[3] # FallThrough
      BY <1>4 DEF Whole, Unfallen, Into
    <2>3. Into(b, incoming) # {}
      BY <1>2, <1>4 DEF Whole, Fed
    <2>4. Into(b, edges) \subseteq Into(b, incoming)
      BY <2>1, <2>2 DEF Into
    <2> QED
      BY <2>1, <2>3, <2>4
  <1>5. ASSUME NEW u \in uses PROVE Dominates(u[1], u[2])
    <2>1. PICK S : Region(u[1], S) /\ u[2] \notin S
      BY <1>1 DEF UsesApart
    <2>2. ReachedWithout(u[1]) \subseteq S
      BY <1>1, <2>1, RegionHolds
    <2> QED
      BY <2>1, <2>2 DEF Dominates
  <1> QED
    BY <1>3, <1>4, <1>5 DEF FunctionVerifies

\* A module whose bodies obey the rules has no fault so far, and the phis of
\* the one it reads are whole.
AcceptInv ==
    refusedAt = "none" =>
        /\ status \notin {"invalid", "malformed", "aborted"} /\ verifies
        /\ status = "body" => Whole

\* Outside of a body nothing stops a module that obeys the rules.
LEMMA SectionSteps ==
    ASSUME LockNext, status # "body", refusedAt = "none", refusedAt' = "none"
    PROVE  (\E result \in BodyResults : StartFunction(result)) \/ FinishModule
PROOF
  <1>1. ~IllFormed
    BY DEF IllFormed, Obey
  <1>2. ~InBody /\ ~Live /\ ~AtJoin /\ ~Skipping
    BY DEF InBody, Live, AtJoin, Skipping
  <1>3. /\ \A signature : ~Block(signature) /\ ~Loop(signature) /\ ~If(signature)
        /\ ~Else /\ ~End /\ ~SkipBlock /\ ~SkipEnd /\ ~SkipOther
    BY <1>2 DEF Block, Loop, If, Else, End, SkipBlock, SkipEnd, SkipOther
  <1>4. /\ \A depth : ~Br(depth) /\ ~BrIf(depth)
        /\ \A depths, default : ~BrTable(depths, default)
        /\ ~Unreachable /\ ~Return
    BY <1>2 DEF Br, BrIf, BrTable, Unreachable, Return
  <1>5. /\ \A callee : ~Call(callee) /\ ~CallIndirect(callee)
        /\ \A op : ~Execute(op)
        /\ ~FinishFunction
    BY <1>2 DEF Call, CallIndirect, Execute, FinishFunction
  <1> QED
    BY <1>1, <1>3, <1>4, <1>5, Zenon DEF LockNext

\* LLVM accepts what every step completes.
LEMMA StepAccepts ==
    ASSUME FlowInv, FlowInv', AcceptInv, [LockNext]_lockVars
    PROVE  AcceptInv'
PROOF
  <1>1. CASE UNCHANGED lockVars
    <2>1. UNCHANGED <<blocks, edges, incoming, cfEntries, status, refusedAt, verifies>>
      BY <1>1 DEF lockVars, vars
    <2> QED
      BY <2>1, GraphWhole DEF AcceptInv
  <1>2. CASE LockNext
    <2>1. SUFFICES ASSUME refusedAt' = "none"
                   PROVE  /\ status' \notin {"invalid", "malformed", "aborted"} /\ verifies'
                          /\ status' = "body" => Whole'
      BY DEF AcceptInv
    <2>2. refusedAt = "none" /\ Next /\ IInv /\ IInv' /\ GraphInv /\ verifies
      BY <1>2, <2>1, StepRefused, LockSteps DEF Refused, FlowInv, AcceptInv
    <2>3. ASSUME NEW result \in BodyResults, StartFunction(result)
          PROVE  status' = "body" /\ verifies' = verifies /\ Whole'
      BY <2>2, <2>3, StartWhole DEF StartFunction
    <2>4. CASE FinishFunction
      <3>1. status = "body" /\ cfEntries = <<>> /\ status' = "section"
            /\ verifies' = (verifies /\ FunctionVerifies)
        BY <2>4 DEF FinishFunction
      <3>2. FunctionVerifies
        BY <2>2, <3>1, FunctionWhole DEF AcceptInv, Obeyed
      <3> QED
        BY <2>2, <3>1, <3>2
    <2>5. FinishModule => status' = "accepted" /\ verifies' = verifies
      BY <2>2 DEF FinishModule
    <2>6. CASE InBody /\ status' = "body"
      <3>1. Wholesome /\ Agreement
        BY <2>2, <2>6 DEF Wholesome, FlowInv, AcceptInv, InBody, LockInv, Obeyed
      <3>2. Whole'
        BY <1>2, <2>1, <2>2, <2>6, <3>1, InstructionWhole
      <3>3. CASE \E i \in Instructions : Execute(i.op) /\ OperandRule(i)
        BY <2>1, <2>2, <2>6, <3>1, <3>2, <3>3, ExecuteVerifies DEF Obeying
      <3>4. CASE ~(\E i \in Instructions : Execute(i.op) /\ OperandRule(i))
        <4>1. ~IllFormed
          BY <2>1, <2>2 DEF IllFormed, Obey
        <4>2. verifies' = verifies
          BY <1>2, <2>6, <3>4, <4>1, OthersVerify
        <4> QED
          BY <2>2, <2>6, <3>2, <4>2
      <3> QED
        BY <3>3, <3>4
    <2>7. CASE status # "body"
      BY <1>2, <2>1, <2>2, <2>3, <2>5, <2>7, SectionSteps
    <2>8. CASE status = "body" /\ ~FinishFunction /\ ~(InBody /\ status' = "body")
      <3>1. \E outcome \in {"invalid", "malformed", "aborted"} : Stop(outcome)
        <4>1. \A result : ~StartFunction(result)
          BY <2>8 DEF StartFunction
        <4>2. ~FinishModule
          BY <2>8 DEF FinishModule
        <4> QED
          BY <2>2, <2>8, <4>1, <4>2, StepKinds
      <3>2. status' \in {"invalid", "malformed", "aborted"}
        BY <3>1 DEF Stop
      <3>3. status' \notin {"invalid", "malformed", "aborted"}
        BY <1>2, <2>1, <2>2, <2>8, StepFollows DEF FlowInv
      <3> QED
        BY <3>2, <3>3
    <2> QED
      BY <2>4, <2>6, <2>7, <2>8
  <1> QED
    BY <1>1, <1>2

\* Nothing is read yet.
LEMMA InitAccepts == LockInit => AcceptInv
BY DEF LockInit, Init, AcceptInv

\* A well typed body is never refused: not by an exception, not by an
\* assertion, and not by LLVMVerifyModule for the code generated from it.
THEOREM ValidAccepted == LockSpec => []ValidBodiesAccepted
PROOF
  <1>1. LockInit => FlowInv /\ AcceptInv
    BY InitFlow, InitAccepts
  <1>2. FlowInv /\ AcceptInv /\ [LockNext]_lockVars => (FlowInv /\ AcceptInv)'
    BY StepFlow, StepAccepts
  <1>3. AcceptInv => ValidBodiesAccepted
    BY DEF AcceptInv, ValidBodiesAccepted
  <1> QED
    BY <1>1, <1>2, <1>3, PTL DEF LockSpec
=============================================================================
