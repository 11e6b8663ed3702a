------------------------- MODULE GanttScheduleProofs -------------------------
(***************************************************************************)
(* Proofs about GanttSchedule, for every finite set of tasks and every list *)
(* of dependencies, lags, durations, starts and calendars.                  *)
(***************************************************************************)
EXTENDS GanttSchedule, FiniteSetTheorems, SequenceTheorems, TLAPS

-----------------------------------------------------------------------------
(* Finite sets of integers.                                                 *)

\* A finite set of integers has a least member, found among its initial parts.
LEMMA LeastExists ==
  ASSUME NEW S, IsFiniteSet(S), S \subseteq Int, S # {}
  PROVE  Least(S) \in S /\ \A y \in S : Least(S) <= y
<1> DEFINE Down(x) == {y \in S : y <= x}
           D == {Down(x) : x \in S}
<1>1. D \subseteq FiniteSubsetsOf(S) /\ D # {}
  <2>1. D \subseteq SUBSET S /\ D # {} OBVIOUS
  <2> QED BY <2>1, FS_FiniteSubsetsOfFinite
<1>2. \E U \in D : \A V \in D : ~(<<V, U>> \in StrictSubsetOrdering(S))
  <2> HIDE DEF D
  <2> QED BY <1>1, FS_StrictSubsetOrderingWellFounded, WFMin
<1>3. PICK x \in S : \A y \in S : ~(<<Down(y), Down(x)>> \in StrictSubsetOrdering(S))
  BY <1>2
<1>4. ASSUME NEW y \in S, y < x PROVE FALSE
  <2>1. x \in Int /\ y \in Int OBVIOUS
  <2> \A z \in S : z \in Int /\ (z <= y => z <= x) BY <1>4, <2>1
  <2>2. Down(y) \subseteq Down(x) OBVIOUS
  <2>3. x \in Down(x) /\ x \notin Down(y) BY <1>4, <2>1
  <2>4. <<Down(y), Down(x)>> \in StrictSubsetOrdering(S)
    BY <2>2, <2>3 DEF StrictSubsetOrdering
  <2> QED BY <1>3, <2>4
<1>5. \A y \in S : x <= y BY <1>4
<1> QED BY <1>5 DEF Least

\* And a greatest, among its final parts.
LEMMA GreatestExists ==
  ASSUME NEW S, IsFiniteSet(S), S \subseteq Int, S # {}
  PROVE  Greatest(S) \in S /\ \A y \in S : y <= Greatest(S)
<1> DEFINE Up(x) == {y \in S : x <= y}
           U == {Up(x) : x \in S}
<1>1. U \subseteq FiniteSubsetsOf(S) /\ U # {}
  <2>1. U \subseteq SUBSET S /\ U # {} OBVIOUS
  <2> QED BY <2>1, FS_FiniteSubsetsOfFinite
<1>2. \E V \in U : \A W \in U : ~(<<W, V>> \in StrictSubsetOrdering(S))
  <2> HIDE DEF U
  <2> QED BY <1>1, FS_StrictSubsetOrderingWellFounded, WFMin
<1>3. PICK x \in S : \A y \in S : ~(<<Up(y), Up(x)>> \in StrictSubsetOrdering(S))
  BY <1>2
<1>4. ASSUME NEW y \in S, x < y PROVE FALSE
  <2>1. x \in Int /\ y \in Int OBVIOUS
  <2> \A z \in S : z \in Int /\ (y <= z => x <= z) BY <1>4, <2>1
  <2>2. Up(y) \subseteq Up(x) OBVIOUS
  <2>3. x \in Up(x) /\ x \notin Up(y) BY <1>4, <2>1
  <2>4. <<Up(y), Up(x)>> \in StrictSubsetOrdering(S)
    BY <2>2, <2>3 DEF StrictSubsetOrdering
  <2> QED BY <1>3, <2>4
<1>5. \A y \in S : y <= x BY <1>4
<1> QED BY <1>5 DEF Greatest

\* The values of a function on a finite set are finitely many.
LEMMA FiniteValues ==
  ASSUME NEW P, IsFiniteSet(P), NEW f
  PROVE  IsFiniteSet({f[k] : k \in P})
<1> DEFINE g == [k \in P |-> f[k]]
           T == {f[k] : k \in P}
<1>1. g \in Surjection(P, T) BY DEF Surjection
<1> QED BY <1>1, FS_Surjection

-----------------------------------------------------------------------------
(* What a request holds, and the numbers the passes compute with.           *)

LEMMA InputFacts ==
  ASSUME input \in Inputs
  PROVE  /\ Tasks \subseteq Ids /\ IsFiniteSet(Tasks)
         /\ Deps \in Seq(Dependencies) /\ Places = 1..Len(Deps) /\ IsFiniteSet(Places)
         /\ \A k \in Places : /\ Deps[k].task \in Ids /\ Deps[k].on \in Ids
                              /\ Deps[k].kind \in Kinds /\ Deps[k].lag \in Int
         /\ \A t \in Ids : DurationOf(t) \in Int
         /\ \A t \in Ids : input.start[t] \in Int \cup {None}
         /\ Calendar = None \/ IsCalendar(Calendar)
<1>1. Tasks \subseteq Ids /\ Deps \in Seq(Dependencies) BY InputsAssumption DEF Tasks, Deps
<1>2. IsFiniteSet(Tasks) BY <1>1, IdsAssumption, FS_Subset
<1>3. Places = 1..Len(Deps) /\ Len(Deps) \in Nat BY <1>1 DEF Places
<1>4. IsFiniteSet(Places) BY <1>3, FS_Interval
<1>5. \A k \in Places : Deps[k] \in Dependencies BY <1>1, <1>3
<1>6. \A t \in Ids : DurationOf(t) \in Int
  BY InputsAssumption DEF DurationOf, Longer
<1>7. \A t \in Ids : input.start[t] \in Int \cup {None} BY InputsAssumption
<1>8. Calendar = None \/ IsCalendar(Calendar) BY InputsAssumption DEF Calendar
<1> QED BY <1>1, <1>2, <1>3, <1>4, <1>5, <1>6, <1>7, <1>8 DEF Dependencies

LEMMA OrdinalIsInt ==
  ASSUME NEW c, IsCalendar(c), NEW day \in Int
  PROVE  ToOrdinal(c, day) \in Int
<1>1. ASSUME NEW k \in Int PROVE WeekPrefix(c, k) \in Nat
  <2> DEFINE W == {i \in 0..(k - 1) : DayOfWeek(i) \notin c.weekend}
  <2>1. IsFiniteSet(0..(k - 1)) BY FS_Interval
  <2>2. IsFiniteSet(W) /\ Cardinality(W) \in Nat BY <2>1, FS_Subset, FS_CardinalityType
  <2> QED BY <2>2 DEF WeekPrefix
<1>2. ASSUME NEW H \in SUBSET Holidays(c) PROVE Cardinality(H) \in Nat
  <2>1. IsFiniteSet(c.holidays) /\ H \subseteq c.holidays BY DEF IsCalendar, Holidays
  <2> QED BY <2>1, FS_Subset, FS_CardinalityType
<1> DEFINE A == {h \in Holidays(c) : 0 <= h /\ h < day}
           B == {h \in Holidays(c) : day <= h /\ h < 0}
<1>3. Cardinality(A) \in Nat /\ Cardinality(B) \in Nat BY <1>2
<1>4. PerWeek(c) \in Int /\ WeekPrefix(c, day % 7) \in Int /\ day \div 7 \in Int
  BY <1>1 DEF PerWeek
<1>5. (day \div 7) * PerWeek(c) \in Int BY <1>4
<1> HIDE DEF A, B
<1>6. (day \div 7) * PerWeek(c) + WeekPrefix(c, day % 7) - Cardinality(A) + Cardinality(B) \in Int
  BY <1>3, <1>4, <1>5
<1> QED BY <1>6 DEF ToOrdinal, WorkingDaysUpTo, A, B

LEMMA StartIsInt ==
  ASSUME input \in Inputs
  PROVE  Anchor \in Int /\ \A t \in Ids : StartConstraint(t) \in Int
<1>1. ASSUME NEW day \in Int PROVE FromDay(day) \in Int
  BY InputFacts, OrdinalIsInt DEF FromDay
<1>2. Anchor \in Int
  <2>1. CASE Starts = {} BY <2>1, <1>1 DEF Anchor
  <2>2. CASE Starts # {}
    <3> DEFINE f == [u \in Tasks |-> FromDay(input.start[u])]
               P == {u \in Tasks : input.start[u] # None}
    <3>1. IsFiniteSet(P) BY InputFacts, FS_Subset
    <3>2. Starts = {f[u] : u \in P} BY DEF Starts
    <3>3. IsFiniteSet(Starts)
      <4> HIDE DEF f, P
      <4> QED BY <3>1, <3>2, FiniteValues
    <3>4. Starts \subseteq Int BY <1>1, InputFacts DEF Starts
    <3>5. Least(Starts) \in Int BY <2>2, <3>3, <3>4, LeastExists
    <3> QED BY <2>2, <3>5 DEF Anchor
  <2> QED BY <2>1, <2>2
<1> QED BY <1>1, <1>2, InputFacts DEF StartConstraint

LEMMA ConstraintsAreInts ==
  ASSUME input \in Inputs, es \in [Ids -> Int], lf \in [Ids -> Int], NEW k \in Places
  PROVE  EsConstraint(Deps[k]) \in Int /\ LfConstraint(Deps[k]) \in Int
<1> DEFINE d == Deps[k]
<1>1. d.task \in Ids /\ d.on \in Ids /\ d.lag \in Int BY InputFacts
<1>2. DurationOf(d.task) \in Int /\ DurationOf(d.on) \in Int BY <1>1, InputFacts
<1>3. es[d.on] \in Int /\ lf[d.task] \in Int BY <1>1
<1> HIDE DEF d
<1>4. EsConstraint(d) \in Int BY <1>1, <1>2, <1>3 DEF EsConstraint, EF
<1>5. LfConstraint(d) \in Int BY <1>1, <1>2, <1>3 DEF LfConstraint, LS
<1> QED BY <1>4, <1>5 DEF d

\* The number a pass takes is one of those it compares, and beyond the others.
LEMMA EarliestOf ==
  ASSUME input \in Inputs, es \in [Ids -> Int], lf \in [Ids -> Int], NEW t \in Ids,
         NEW x, x = Greatest({StartConstraint(t)} \cup {EsConstraint(Deps[k]) : k \in Predecessors(t)})
  PROVE  /\ x \in Int /\ x >= StartConstraint(t)
         /\ \A k \in Predecessors(t) : x >= EsConstraint(Deps[k])
         /\ x = StartConstraint(t) \/ \E k \in Predecessors(t) : x = EsConstraint(Deps[k])
<1> DEFINE f == [k \in Places |-> EsConstraint(Deps[k])]
           P == Predecessors(t)
           S == {f[k] : k \in P}
<1>1. P \subseteq Places /\ IsFiniteSet(P) BY InputFacts, FS_Subset DEF Predecessors
<1>2. S = {EsConstraint(Deps[k]) : k \in P} BY <1>1
<1>3. S \subseteq Int BY <1>1, <1>2, ConstraintsAreInts
<1>4. IsFiniteSet(S)
  <2> HIDE DEF f, P
  <2> QED BY <1>1, FiniteValues
<1>5. StartConstraint(t) \in Int BY StartIsInt
<1> DEFINE T == {StartConstraint(t)} \cup S
<1>6. IsFiniteSet(T)
  <2> HIDE DEF S
  <2>1. T = S \cup {StartConstraint(t)} OBVIOUS
  <2> QED BY <2>1, <1>4, FS_AddElement
<1>7. T \subseteq Int /\ T # {} BY <1>3, <1>5
<1>8. x = Greatest(T) BY <1>2
<1>9. x \in T /\ \A y \in T : y <= x
  <2> HIDE DEF T
  <2> QED BY <1>6, <1>7, <1>8, GreatestExists
<1>10. x \in Int BY <1>7, <1>9
<1>11. \A k \in P : EsConstraint(Deps[k]) \in T BY <1>2
<1>12. \A y \in T : y \in Int BY <1>7
<1>13. x = StartConstraint(t) \/ \E k \in P : x = EsConstraint(Deps[k]) BY <1>2, <1>9
<1> QED BY <1>5, <1>9, <1>10, <1>11, <1>12, <1>13

LEMMA LatestOf ==
  ASSUME input \in Inputs, es \in [Ids -> Int], lf \in [Ids -> Int], projectEnd \in Int, NEW t \in Ids,
         NEW x, x = Least({projectEnd} \cup {LfConstraint(Deps[k]) : k \in SuccessorsOf(t)})
  PROVE  /\ x \in Int /\ x <= projectEnd
         /\ \A k \in SuccessorsOf(t) : x <= LfConstraint(Deps[k])
         /\ x = projectEnd \/ \E k \in SuccessorsOf(t) : x = LfConstraint(Deps[k])
<1> DEFINE f == [k \in Places |-> LfConstraint(Deps[k])]
           P == SuccessorsOf(t)
           S == {f[k] : k \in P}
<1>1. P \subseteq Places /\ IsFiniteSet(P) BY InputFacts, FS_Subset DEF SuccessorsOf
<1>2. S = {LfConstraint(Deps[k]) : k \in P} BY <1>1
<1>3. S \subseteq Int BY <1>1, <1>2, ConstraintsAreInts
<1>4. IsFiniteSet(S)
  <2> HIDE DEF f, P
  <2> QED BY <1>1, FiniteValues
<1> DEFINE T == {projectEnd} \cup S
<1>5. IsFiniteSet(T)
  <2> HIDE DEF S
  <2>1. T = S \cup {projectEnd} OBVIOUS
  <2> QED BY <2>1, <1>4, FS_AddElement
<1>6. T \subseteq Int /\ T # {} BY <1>3
<1>7. x = Least(T) BY <1>2
<1>8. x \in T /\ \A y \in T : x <= y
  <2> HIDE DEF T
  <2> QED BY <1>5, <1>6, <1>7, LeastExists
<1>9. x \in Int BY <1>6, <1>8
<1>10. \A k \in P : LfConstraint(Deps[k]) \in T BY <1>2
<1>11. x = projectEnd \/ \E k \in P : x = LfConstraint(Deps[k]) BY <1>8, <1>2
<1> QED BY <1>8, <1>9, <1>10, <1>11

LEMMA EndOf ==
  ASSUME input \in Inputs, es \in [Ids -> Int],
         NEW x, x = IF Tasks = {} THEN Anchor ELSE Greatest({EF(t) : t \in Tasks})
  PROVE  x \in Int /\ \A t \in Tasks : EF(t) <= x
<1>1. CASE Tasks = {} BY <1>1, StartIsInt
<1>2. CASE Tasks # {}
  <2> DEFINE f == [t \in Ids |-> EF(t)]
             S == {f[t] : t \in Tasks}
  <2>1. Tasks \subseteq Ids /\ IsFiniteSet(Tasks) BY InputFacts
  <2>2. S = {EF(t) : t \in Tasks} BY <2>1
  <2> \A t \in Tasks : EF(t) \in Int BY <2>1, InputFacts DEF EF
  <2>3. S \subseteq Int /\ S # {} BY <1>2, <2>2
  <2>4. IsFiniteSet(S)
    <3> HIDE DEF f
    <3> QED BY <2>1, FiniteValues
  <2>5. x = Greatest(S) BY <1>2, <2>2
  <2>6. x \in S /\ \A y \in S : y <= x
    <3> HIDE DEF S
    <3> QED BY <2>3, <2>4, <2>5, GreatestExists
  <2>7. \A t \in Tasks : EF(t) \in S BY <2>2
  <2> QED BY <2>3, <2>6, <2>7
<1> QED BY <1>1, <1>2

-----------------------------------------------------------------------------
(* Types.  Tarjan's stack can be cut where a call began because it holds the *)
(* nodes of the calls, in the order of the calls.                           *)

Call == [node : Ids, left : SUBSET Ids]

StackHolds(st, cs) ==
  /\ \A p, q \in DOMAIN st : st[p] = st[q] => p = q
  /\ \A i \in DOMAIN cs : cs[i].left \subseteq nodes /\ \E p \in DOMAIN st : st[p] = cs[i].node
  /\ \A i, j \in DOMAIN cs : \A p, q \in DOMAIN st :
       i < j /\ st[p] = cs[i].node /\ st[q] = cs[j].node => p < q

SearchInv == StackHolds(stack, calls) /\ \A p \in DOMAIN stack : stack[p] \in Visited

TInv == input \in Inputs /\ TypeOK /\ SearchInv

LEMMA InitTInv == Init => TInv
<1> SUFFICES ASSUME Init PROVE TInv OBVIOUS
<1> USE DEF Init, GraphInit
<1>1. input \in Inputs OBVIOUS
<1>2. TypeOK BY DEF TypeOK
<1>3. SearchInv BY DEF SearchInv, StackHolds
<1> QED BY <1>1, <1>2, <1>3 DEF TInv

LEMMA SearchKeeps ==
  ASSUME TInv, NEW V \in SUBSET Tasks, Search(V), UNCHANGED <<input, sorting, passes>>
  PROVE  TInv'
<1>1. /\ pc' = "search" /\ nodes' = V /\ stack' = << >> /\ calls' = << >>
      /\ idx' = [v \in Ids |-> None] /\ low' = [v \in Ids |-> None]
  BY DEF Search
<1>2. cycles' \subseteq Seq(Ids)
  <2>1. ASSUME NEW k \in Places PROVE <<Deps[k].task>> \in Seq(Ids) BY InputFacts DEF TInv
  <2> QED BY <2>1 DEF Search
<1>3. /\ waiting' = waiting /\ ready' = ready /\ order' = order /\ at' = at /\ es' = es
      /\ projectEnd' = projectEnd /\ lf' = lf /\ input' = input
  BY DEF sorting, passes
<1>4. Places' = Places /\ Tasks' = Tasks BY <1>3 DEF Places, Tasks, Deps
<1>5. TypeOK' BY <1>1, <1>2, <1>3, <1>4 DEF TInv, TypeOK
<1>6. SearchInv' BY <1>1 DEF SearchInv, StackHolds
<1> QED BY <1>3, <1>5, <1>6 DEF TInv

\* A step that leaves the search alone.
LEMMA OutsideKeeps ==
  ASSUME TInv, UNCHANGED <<input, nodes, idx, low, stack, calls>>, TypeOK'
  PROVE  TInv'
<1>1. Visited' = Visited BY DEF Visited
<1>2. SearchInv' BY <1>1 DEF TInv, SearchInv, StackHolds
<1> QED BY <1>2 DEF TInv

LEMMA EnterKeeps ==
  ASSUME TInv, NEW v \in nodes, v \notin Visited,
         NEW below \in Seq(Call), Len(below) = Len(calls),
         \A i \in DOMAIN calls : below[i].node = calls[i].node /\ below[i].left \subseteq nodes,
         Enter(v, below), UNCHANGED <<input, pc, sorting, nodes, cycles, passes>>
  PROVE  TInv'
<1>1. /\ stack \in Seq(Ids) /\ calls \in Seq(Call) /\ nodes \subseteq Ids /\ v \in Ids
      /\ nodes \subseteq Tasks /\ IsFiniteSet(Tasks)
  BY InputFacts DEF TInv, TypeOK, Call
<1>2. Cardinality(Visited) \in Nat
  BY <1>1, FS_Subset, FS_CardinalityType DEF Visited
<1>3. [node |-> v, left |-> Successors(v)] \in Call
  BY <1>1 DEF Call, Successors
<1> DEFINE c == [node |-> v, left |-> Successors(v)]
<1>4. /\ stack' = Append(stack, v) /\ calls' = Append(below, c)
      /\ idx' = [idx EXCEPT ![v] = Cardinality(Visited)]
      /\ low' = [low EXCEPT ![v] = Cardinality(Visited)]
  BY DEF Enter
<1>5. /\ c.left \subseteq nodes /\ c.node = v BY DEF Successors
<1> HIDE DEF c
<1>6. /\ stack' \in Seq(Ids) /\ Len(stack') = Len(stack) + 1 /\ stack'[Len(stack) + 1] = v
      /\ \A p \in 1..Len(stack) : stack'[p] = stack[p]
  BY <1>1, <1>4, AppendProperties
<1>7. /\ calls' \in Seq(Call) /\ Len(calls') = Len(calls) + 1 /\ calls'[Len(calls) + 1] = c
      /\ \A i \in 1..Len(calls) : calls'[i] = below[i]
  BY <1>3, <1>4, AppendProperties DEF c
<1>8. Len(stack) \in Nat /\ Len(calls) \in Nat /\ DOMAIN stack = 1..Len(stack)
      /\ DOMAIN calls = 1..Len(calls) /\ DOMAIN stack' = 1..(Len(stack) + 1)
      /\ DOMAIN calls' = 1..(Len(calls) + 1)
  BY <1>1, <1>6, <1>7
<1>9. /\ input' = input /\ waiting' = waiting /\ ready' = ready /\ order' = order /\ at' = at
      /\ es' = es /\ projectEnd' = projectEnd /\ lf' = lf /\ pc' = pc /\ nodes' = nodes
      /\ cycles' = cycles
  BY DEF sorting, passes
<1>10. Places' = Places /\ Tasks' = Tasks BY <1>9 DEF Places, Tasks, Deps
<1>11. idx' \in [Ids -> Nat \cup {None}] /\ low' \in [Ids -> Nat \cup {None}]
  BY <1>1, <1>2, <1>4 DEF TInv, TypeOK
<1>12. TypeOK' BY <1>6, <1>7, <1>9, <1>10, <1>11 DEF TInv, TypeOK, Call
<1>13. \A u \in nodes : u \in Visited \/ u = v => u \in Visited'
  <2>1. Cardinality(Visited) # None BY <1>2, IdsAssumption
  <2>2. idx \in [Ids -> Nat \cup {None}] BY DEF TInv, TypeOK
  <2> QED BY <1>1, <1>4, <1>9, <2>1, <2>2 DEF Visited
<1>14. \A p \in 1..Len(stack) : stack[p] \in Visited /\ stack[p] # v /\ stack[p] \in nodes
  BY <1>8 DEF TInv, SearchInv, Visited
<1>15. \A p \in DOMAIN stack' : stack'[p] \in Visited'
  BY <1>6, <1>8, <1>13, <1>14
<1>16. StackHolds(stack, calls) BY DEF TInv, SearchInv
<1>17. \A p, q \in DOMAIN stack' : stack'[p] = stack'[q] => p = q
  <2>1. \A p, q \in 1..Len(stack) : stack[p] = stack[q] => p = q BY <1>8, <1>16 DEF StackHolds
  <2> QED BY <1>6, <1>8, <1>14, <2>1
<1>18. ASSUME NEW i \in DOMAIN calls'
       PROVE  calls'[i].left \subseteq nodes' /\ \E p \in DOMAIN stack' : stack'[p] = calls'[i].node
  <2>1. CASE i = Len(calls) + 1 BY <1>5, <1>6, <1>7, <1>8, <1>9, <2>1
  <2>2. CASE i \in 1..Len(calls)
    <3>1. calls'[i].node = calls[i].node /\ calls'[i].left \subseteq nodes BY <1>7, <1>8, <2>2
    <3>2. PICK p \in 1..Len(stack) : stack[p] = calls[i].node BY <1>8, <1>16, <2>2 DEF StackHolds
    <3>3. p \in DOMAIN stack' /\ stack'[p] = calls'[i].node BY <1>6, <1>8, <3>1, <3>2
    <3> QED BY <1>9, <3>1, <3>3
  <2> QED BY <1>8, <2>1, <2>2
<1>19. ASSUME NEW i \in DOMAIN calls', NEW j \in DOMAIN calls', NEW p \in DOMAIN stack', NEW q \in DOMAIN stack',
              i < j, stack'[p] = calls'[i].node, stack'[q] = calls'[j].node
       PROVE  p < q
  <2>1. i \in 1..Len(calls) BY <1>8, <1>19
  <2>2. calls'[i].node = calls[i].node BY <1>7, <1>8, <2>1
  <2>3. PICK o \in 1..Len(stack) : stack[o] = calls[i].node BY <1>8, <1>16, <2>1 DEF StackHolds
  <2>4. p = o BY <1>6, <1>8, <1>17, <1>19, <2>2, <2>3
  <2>5. CASE j = Len(calls) + 1
    <3>1. q = Len(stack) + 1 BY <1>5, <1>6, <1>7, <1>8, <1>17, <1>19, <2>5
    <3> QED BY <2>3, <2>4, <3>1, <1>8
  <2>6. CASE j \in 1..Len(calls)
    <3>1. calls'[j].node = calls[j].node BY <1>7, <1>8, <2>6
    <3>2. PICK r \in 1..Len(stack) : stack[r] = calls[j].node BY <1>8, <1>16, <2>6 DEF StackHolds
    <3>3. q = r BY <1>6, <1>8, <1>17, <1>19, <3>1, <3>2
    <3> QED BY <1>8, <1>16, <1>19, <2>1, <2>3, <2>4, <2>6, <3>2, <3>3 DEF StackHolds
  <2> QED BY <1>8, <2>5, <2>6
<1>20. SearchInv' BY <1>15, <1>17, <1>18, <1>19 DEF SearchInv, StackHolds
<1> QED BY <1>9, <1>12, <1>20 DEF TInv

\* A call that looks on, or back along an edge, keeps its node.
LEMMA LookKeeps == ASSUME TInv, Look, UNCHANGED passes PROVE TInv'
<1> DEFINE n == Len(calls)
           v == calls[n].node
<1>1. calls \in Seq(Call) /\ calls # << >> /\ nodes \subseteq Ids /\ stack \in Seq(Ids)
  BY InputFacts DEF TInv, TypeOK, Call, Look
<1>2. n \in Nat /\ n \in 1..Len(calls) /\ DOMAIN calls = 1..Len(calls) BY <1>1
<1>3. calls[n] \in Call /\ v \in Ids /\ calls[n].left \subseteq nodes
  <2>1. calls[n] \in Call BY <1>1, <1>2
  <2>2. calls[n].left \subseteq nodes BY <1>2 DEF TInv, SearchInv, StackHolds
  <2> QED BY <2>1, <2>2 DEF Call
<1>4. PICK w \in calls[n].left :
        LET rest == [calls EXCEPT ![n].left = @ \ {w}]
        IN  \/ w \notin Visited /\ Enter(w, rest)
            \/ w \in Visited /\ BackEdge(v, w) /\ calls' = rest /\ UNCHANGED <<idx, stack>>
  BY DEF Look
<1> DEFINE rest == [calls EXCEPT ![n].left = @ \ {w}]
<1>5. rest = [calls EXCEPT ![n] = [calls[n] EXCEPT !.left = calls[n].left \ {w}]]
  BY <1>1, <1>2
<1>6. [calls[n] EXCEPT !.left = calls[n].left \ {w}] \in Call BY <1>3 DEF Call
<1>7. rest \in Seq(Call) /\ Len(rest) = Len(calls) /\ DOMAIN rest = DOMAIN calls
  BY <1>1, <1>2, <1>5, <1>6
<1>8. \A i \in DOMAIN calls : rest[i].node = calls[i].node /\ rest[i].left \subseteq calls[i].left
  BY <1>1, <1>2, <1>3, <1>5 DEF Call
<1>9. \A i \in DOMAIN calls : rest[i].left \subseteq nodes
  BY <1>8 DEF TInv, SearchInv, StackHolds
<1>10. UNCHANGED <<input, pc, sorting, nodes, cycles, passes>> BY DEF Look
<1> HIDE DEF n, v, rest
<1>11. CASE w \notin Visited /\ Enter(w, rest)
  BY <1>3, <1>7, <1>8, <1>9, <1>10, <1>11, EnterKeeps
<1>12. CASE w \in Visited /\ BackEdge(v, w) /\ calls' = rest /\ UNCHANGED <<idx, stack>>
  <2>1. low' \in [Ids -> Nat \cup {None}]
    <3>1. low \in [Ids -> Nat \cup {None}] /\ idx \in [Ids -> Nat \cup {None}] /\ w \in Ids
      BY <1>1, <1>3 DEF TInv, TypeOK
    <3>2. Less(low[v], idx[w]) \in Nat \cup {None} BY <1>3, <3>1 DEF Less
    <3> QED BY <1>12, <3>1, <3>2 DEF BackEdge
  <2>2. /\ input' = input /\ waiting' = waiting /\ ready' = ready /\ order' = order /\ at' = at
        /\ es' = es /\ projectEnd' = projectEnd /\ lf' = lf /\ pc' = pc /\ nodes' = nodes
        /\ cycles' = cycles /\ idx' = idx /\ stack' = stack
    BY <1>10, <1>12 DEF sorting, passes
  <2>3. Places' = Places /\ Tasks' = Tasks BY <2>2 DEF Places, Tasks, Deps
  <2>4. TypeOK' BY <1>7, <1>12, <2>1, <2>2, <2>3 DEF TInv, TypeOK, Call
  <2>5. Visited' = Visited BY <2>2 DEF Visited
  <2>6. StackHolds(stack, calls) BY DEF TInv, SearchInv
  <2>7. /\ DOMAIN calls' = DOMAIN calls /\ nodes' = nodes /\ stack' = stack
        /\ \A i \in DOMAIN calls : calls'[i].node = calls[i].node /\ calls'[i].left \subseteq nodes
    BY <1>7, <1>8, <1>9, <1>12, <2>2
  <2>8. StackHolds(stack, calls)' BY <2>6, <2>7 DEF StackHolds
  <2>9. \A p \in DOMAIN stack' : stack'[p] \in Visited' BY <2>5, <2>7 DEF TInv, SearchInv
  <2> QED BY <2>2, <2>4, <2>8, <2>9 DEF TInv, SearchInv
<1> QED BY <1>4, <1>11, <1>12 DEF rest, v, n

LEMMA ReturnKeeps == ASSUME TInv, Return, UNCHANGED passes PROVE TInv'
<1> DEFINE n == Len(calls)
           v == calls[n].node
           at0 == CHOOSE i \in DOMAIN stack : stack[i] = v
           component == SubSeq(stack, at0, Len(stack))
<1>1. calls \in Seq(Call) /\ calls # << >> /\ stack \in Seq(Ids)
  BY DEF TInv, TypeOK, Call, Return
<1>2. n \in Nat /\ n \in 1..Len(calls) /\ DOMAIN calls = 1..Len(calls)
      /\ Len(stack) \in Nat /\ DOMAIN stack = 1..Len(stack)
  BY <1>1
<1>3. StackHolds(stack, calls) BY DEF TInv, SearchInv
<1>4. at0 \in 1..Len(stack) /\ stack[at0] = v BY <1>2, <1>3 DEF StackHolds
<1>5. component \in Seq(Ids)
  <2>1. \A i \in at0..Len(stack) : stack[i] \in Ids BY <1>1, <1>2, <1>4
  <2> HIDE DEF at0
  <2> QED BY <1>2, <1>4, <2>1, SubSeqProperties
<1> DEFINE st == SubSeq(stack, 1, at0 - 1)
           cs == SubSeq(calls, 1, n - 1)
<1>6. st \in Seq(Ids) /\ Len(st) = at0 - 1 /\ DOMAIN st = 1..(at0 - 1)
      /\ \A p \in 1..(at0 - 1) : st[p] = stack[p]
  <2>1. \A p \in 1..(at0 - 1) : stack[p] \in Ids BY <1>1, <1>2, <1>4
  <2> HIDE DEF at0
  <2> QED BY <1>2, <1>4, <2>1, SubSeqProperties
<1>7. cs \in Seq(Call) /\ Len(cs) = n - 1 /\ DOMAIN cs = 1..(n - 1)
      /\ \A i \in 1..(n - 1) : cs[i] = calls[i]
  <2>1. \A i \in 1..(n - 1) : calls[i] \in Call BY <1>1, <1>2
  <2> HIDE DEF n
  <2> QED BY <1>2, <2>1, SubSeqProperties
<1>8. /\ (stack' = st /\ cycles' \subseteq cycles \cup {component}) \/ (stack' = stack /\ cycles' = cycles)
      /\ calls' = cs
      /\ low' = IF n = 1 THEN low ELSE [low EXCEPT ![calls[n - 1].node] = Less(@, low[v])]
      /\ idx' = idx
  BY DEF Return
<1>9. /\ input' = input /\ waiting' = waiting /\ ready' = ready /\ order' = order /\ at' = at
      /\ es' = es /\ projectEnd' = projectEnd /\ lf' = lf /\ pc' = pc /\ nodes' = nodes
  BY DEF Return, sorting, passes
<1> HIDE DEF n, v, at0, component, st, cs
<1>10. low' \in [Ids -> Nat \cup {None}]
  <2>1. low \in [Ids -> Nat \cup {None}] BY DEF TInv, TypeOK
  <2>2. CASE n = 1 BY <1>8, <2>1, <2>2
  <2>3. CASE n # 1
    <3>1. calls[n - 1] \in Call /\ calls[n] \in Call BY <1>1, <1>2, <2>3
    <3>2. calls[n - 1].node \in Ids /\ v \in Ids BY <3>1 DEF Call, v
    <3>3. Less(low[calls[n - 1].node], low[v]) \in Nat \cup {None} BY <2>1, <3>2 DEF Less
    <3>4. low' = [low EXCEPT ![calls[n - 1].node] = Less(low[calls[n - 1].node], low[v])]
      BY <1>8, <2>1, <2>3, <3>2
    <3> QED BY <2>1, <3>2, <3>3, <3>4
  <2> QED BY <2>2, <2>3
<1>11. cycles' \subseteq Seq(Ids) BY <1>5, <1>8 DEF TInv, TypeOK
<1>12. stack' \in Seq(Ids) BY <1>1, <1>6, <1>8
<1>13. Places' = Places /\ Tasks' = Tasks BY <1>9 DEF Places, Tasks, Deps
<1>14. TypeOK' BY <1>7, <1>8, <1>9, <1>10, <1>11, <1>12, <1>13 DEF TInv, TypeOK, Call
<1>15. Visited' = Visited BY <1>8, <1>9 DEF Visited
<1>16. CASE stack' = stack
  <2>1. \A i \in DOMAIN cs : i \in DOMAIN calls /\ cs[i] = calls[i] BY <1>2, <1>7
  <2>2. StackHolds(stack, cs) BY <1>3, <2>1 DEF StackHolds
  <2>3. StackHolds(stack, calls)' BY <1>8, <1>9, <1>16, <2>2 DEF StackHolds
  <2>4. \A p \in DOMAIN stack' : stack'[p] \in Visited' BY <1>15, <1>16 DEF TInv, SearchInv
  <2> QED BY <1>9, <1>14, <2>3, <2>4 DEF TInv, SearchInv
<1>17. CASE stack' = st
  <2>1. \A p, q \in DOMAIN st : st[p] = st[q] => p = q
    BY <1>2, <1>3, <1>4, <1>6 DEF StackHolds
  <2>2. ASSUME NEW i \in DOMAIN cs
        PROVE  cs[i].left \subseteq nodes /\ \E p \in DOMAIN st : st[p] = cs[i].node
    <3>1. i \in DOMAIN calls /\ i < n /\ n \in DOMAIN calls /\ cs[i] = calls[i] BY <1>2, <1>7
    <3>2. PICK p \in DOMAIN stack : stack[p] = calls[i].node BY <1>3, <3>1 DEF StackHolds
    <3>3. p < at0 BY <1>2, <1>3, <1>4, <3>1, <3>2 DEF StackHolds, v
    <3>4. p \in DOMAIN st /\ st[p] = stack[p] BY <1>2, <1>4, <1>6, <3>2, <3>3
    <3> QED BY <1>3, <3>1, <3>2, <3>4 DEF StackHolds
  <2>3. ASSUME NEW i \in DOMAIN cs, NEW j \in DOMAIN cs, NEW p \in DOMAIN st, NEW q \in DOMAIN st,
               i < j, st[p] = cs[i].node, st[q] = cs[j].node
        PROVE  p < q
    BY <1>2, <1>3, <1>4, <1>6, <1>7, <2>3 DEF StackHolds
  <2>4. \A p \in DOMAIN st : st[p] \in Visited BY <1>2, <1>4, <1>6 DEF TInv, SearchInv
  <2>5. StackHolds(st, cs) BY <2>1, <2>2, <2>3 DEF StackHolds
  <2> QED BY <1>8, <1>9, <1>14, <1>15, <1>17, <2>4, <2>5 DEF TInv, SearchInv, StackHolds
<1> QED BY <1>8, <1>16, <1>17

LEMMA SortingKeepsTypes ==
  ASSUME TInv, UNCHANGED <<searching, passes>>, Refuse \/ Build \/ Pop \/ Sorted \/ Searched
  PROVE  TInv'
<1>1. /\ nodes' = nodes /\ idx' = idx /\ low' = low /\ stack' = stack /\ calls' = calls
      /\ at' = at /\ es' = es /\ projectEnd' = projectEnd /\ lf' = lf /\ cycles' = cycles
  BY DEF searching, passes
<1>2. input' = input BY DEF Refuse, Build, Pop, Sorted, Searched
<1>3. Places' = Places /\ Tasks' = Tasks /\ Deps' = Deps BY <1>2 DEF Places, Tasks, Deps
<1>4. CASE Refuse \/ Sorted \/ Searched
  <2>1. waiting' = waiting /\ ready' = ready /\ order' = order
    BY <1>4 DEF Refuse, Sorted, Searched, sorting
  <2>2. pc' \in {"unknown", "sorted", "cycle", "verdict"}
    BY <1>4 DEF Refuse, Sorted, Searched
  <2>3. TypeOK' BY <1>1, <1>3, <2>1, <2>2 DEF TInv, TypeOK
  <2> QED BY <1>1, <1>2, <2>3, OutsideKeeps
<1>5. CASE Build
  <2>1. /\ waiting' = [t \in Ids |-> {k \in Places : Deps[k].task = t}]
        /\ ready' \subseteq Tasks /\ order' = order /\ pc' = "sort"
    BY <1>5 DEF Build
  <2>2. waiting' \in [Ids -> SUBSET Places] /\ ready' \subseteq Ids BY <2>1, InputFacts DEF TInv
  <2>3. TypeOK' BY <1>1, <1>3, <2>1, <2>2 DEF TInv, TypeOK
  <2> QED BY <1>1, <1>2, <2>3, OutsideKeeps
<1>6. CASE Pop
  <2>1. PICK id \in ready : order' = Append(order, id) /\ Release(id) BY <1>6 DEF Pop
  <2>2. id \in Ids BY DEF TInv, TypeOK
  <2>3. order' \in Seq(Ids) BY <2>1, <2>2, AppendProperties DEF TInv, TypeOK
  <2>4. waiting' \in [Ids -> SUBSET Places] BY <2>1 DEF Release, TInv, TypeOK
  <2>5. ready' \subseteq Ids BY <2>1, InputFacts DEF Release, TInv, TypeOK
  <2>6. pc' = pc BY <1>6 DEF Pop
  <2>7. TypeOK' BY <1>1, <1>3, <2>3, <2>4, <2>5, <2>6 DEF TInv, TypeOK
  <2> QED BY <1>1, <1>2, <2>7, OutsideKeeps
<1> QED BY <1>4, <1>5, <1>6

LEMMA PassesKeepTypes ==
  ASSUME TInv, Begin \/ Forward \/ Turn \/ Backward \/ Finish
  PROVE  TInv'
<1>1. /\ nodes' = nodes /\ idx' = idx /\ low' = low /\ stack' = stack /\ calls' = calls
      /\ waiting' = waiting /\ ready' = ready /\ order' = order /\ cycles' = cycles /\ input' = input
  BY DEF Begin, Forward, Turn, Backward, Finish, searching, sorting, graph
<1>2. Places' = Places /\ Tasks' = Tasks /\ Deps' = Deps BY <1>1 DEF Places, Tasks, Deps
<1>3. /\ order \in Seq(Ids) /\ at \in Nat /\ es \in [Ids -> Int] /\ lf \in [Ids -> Int]
      /\ projectEnd \in Int /\ input \in Inputs
  BY DEF TInv, TypeOK
<1>4. CASE Begin \/ Finish
  <2>1. /\ pc' \in {"forward", "done"} /\ at' \in Nat /\ es' = es /\ projectEnd' = projectEnd
        /\ lf' = lf
    BY <1>3, <1>4 DEF Begin, Finish, passes
  <2>2. TypeOK' BY <1>1, <1>2, <2>1 DEF TInv, TypeOK
  <2> QED BY <1>1, <2>2, OutsideKeeps
<1>5. CASE Forward
  <2> DEFINE t == order[at]
             x == Greatest({StartConstraint(t)} \cup {EsConstraint(Deps[k]) : k \in Predecessors(t)})
  <2>1. /\ es' = [es EXCEPT ![t] = x] /\ at' = at + 1 /\ pc' = pc /\ projectEnd' = projectEnd
        /\ lf' = lf
    BY <1>5 DEF Forward, graph
  <2>2. CASE at = 0
    <3>1. \A v \in Ids : es'[v] \in Int
      <4> HIDE DEF t, x
      <4>1. ASSUME t \in Ids PROVE x \in Int BY <1>3, <4>1, EarliestOf DEF x
      <4> QED BY <1>3, <2>1, <4>1
    <3>2. es' \in [Ids -> Int] BY <1>3, <2>1, <3>1
    <3>3. TypeOK' BY <1>1, <1>2, <1>3, <2>1, <3>2 DEF TInv, TypeOK
    <3> QED BY <1>1, <3>3, OutsideKeeps
  <2>3. CASE at # 0
    <3>1. t \in Ids BY <1>3, <1>5, <2>3 DEF Forward
    <3>2. x \in Int
      <4> HIDE DEF t
      <4> QED BY <1>3, <3>1, EarliestOf
    <3>3. es' \in [Ids -> Int] BY <1>3, <2>1, <3>1, <3>2
    <3>4. TypeOK' BY <1>1, <1>2, <1>3, <2>1, <3>3 DEF TInv, TypeOK
    <3> QED BY <1>1, <3>4, OutsideKeeps
  <2> QED BY <2>2, <2>3
<1>6. CASE Turn
  <2> DEFINE x == IF Tasks = {} THEN Anchor ELSE Greatest({EF(t) : t \in Tasks})
  <2>1. /\ pc' = "backward" /\ at' = Len(order) /\ projectEnd' = x /\ es' = es /\ lf' = lf
    BY <1>6 DEF Turn
  <2>2. x \in Int BY <1>3, EndOf
  <2> HIDE DEF x
  <2>3. TypeOK' BY <1>1, <1>2, <1>3, <2>1, <2>2 DEF TInv, TypeOK
  <2> QED BY <1>1, <2>3, OutsideKeeps
<1>7. CASE Backward
  <2> DEFINE t == order[at]
             x == Least({projectEnd} \cup {LfConstraint(Deps[k]) : k \in SuccessorsOf(t)})
  <2>1. /\ lf' = [lf EXCEPT ![t] = x] /\ at' = at - 1 /\ pc' = pc /\ projectEnd' = projectEnd
        /\ es' = es
    BY <1>7 DEF Backward, graph
  <2> HIDE DEF t, x
  <2>2. ASSUME t \in Ids PROVE x \in Int BY <1>3, <2>2, LatestOf DEF x
  <2>3. lf' \in [Ids -> Int] BY <1>3, <2>1, <2>2
  <2>4. at' \in Nat BY <1>3, <1>7, <2>1 DEF Backward
  <2>5. TypeOK' BY <1>1, <1>2, <1>3, <2>1, <2>3, <2>4 DEF TInv, TypeOK
  <2> QED BY <1>1, <2>5, OutsideKeeps
<1> QED BY <1>4, <1>5, <1>6, <1>7

LEMMA StepTInv == TInv /\ [Next]_vars => TInv'
<1> SUFFICES ASSUME TInv, [Next]_vars PROVE TInv' OBVIOUS
<1>1. CASE Validate /\ UNCHANGED passes
  BY <1>1, SearchKeeps DEF Validate
<1>2. CASE Unsorted /\ UNCHANGED passes
  BY <1>2, SearchKeeps DEF Unsorted
<1>3. CASE (Refuse \/ Build \/ Pop \/ Sorted \/ Searched) /\ UNCHANGED passes
  <2>1. UNCHANGED searching BY <1>3 DEF Refuse, Build, Pop, Sorted, Searched
  <2> QED BY <1>3, <2>1, SortingKeepsTypes
<1>4. CASE SelfCycle /\ UNCHANGED passes
  <2>1. PICK k \in Places : cycles' = {<<Deps[k].task>>} BY <1>4 DEF SelfCycle
  <2>2. cycles' \subseteq Seq(Ids) BY <2>1, InputFacts DEF TInv
  <2>3. /\ nodes' = nodes /\ idx' = idx /\ low' = low /\ stack' = stack /\ calls' = calls
        /\ waiting' = waiting /\ ready' = ready /\ order' = order /\ input' = input /\ pc' = "cycle"
        /\ at' = at /\ es' = es /\ projectEnd' = projectEnd /\ lf' = lf
    BY <1>4 DEF SelfCycle, sorting, passes
  <2>4. Places' = Places /\ Tasks' = Tasks BY <2>3 DEF Places, Tasks, Deps
  <2>5. TypeOK' BY <2>2, <2>3, <2>4 DEF TInv, TypeOK
  <2> QED BY <2>3, <2>5, OutsideKeeps
<1>5. CASE Root /\ UNCHANGED passes
  <2>1. PICK v \in nodes \ Visited : Enter(v, << >>) BY <1>5 DEF Root
  <2>2. calls = << >> /\ UNCHANGED <<input, pc, sorting, nodes, cycles, passes>> BY <1>5 DEF Root
  <2>3. << >> \in Seq(Call) /\ Len(<< >>) = Len(calls) /\ DOMAIN calls = {} BY <2>2
  <2> QED BY <2>1, <2>2, <2>3, EnterKeeps
<1>6. CASE Look /\ UNCHANGED passes BY <1>6, LookKeeps
<1>7. CASE Return /\ UNCHANGED passes BY <1>7, ReturnKeeps
<1>8. CASE Begin \/ Forward \/ Turn \/ Backward \/ Finish BY <1>8, PassesKeepTypes
<1>9. CASE UNCHANGED vars
  <2>1. UNCHANGED <<input, pc, waiting, ready, order, nodes, idx, low, stack, calls, cycles, at, es, projectEnd, lf>>
    BY <1>9 DEF vars, graph, sorting, searching, passes
  <2>2. Places' = Places /\ Tasks' = Tasks BY <2>1 DEF Places, Tasks, Deps
  <2>3. TypeOK' BY <2>1, <2>2 DEF TInv, TypeOK
  <2> QED BY <2>1, <2>3, OutsideKeeps
<1> QED
  BY <1>1, <1>2, <1>3, <1>4, <1>5, <1>6, <1>7, <1>8, <1>9 DEF Next, GraphNext

\* Whatever the request, the sort, the search and the passes keep to their types
\* (graph.ts and schedule.ts).
THEOREM ScheduleTypeCorrect == Spec => []TypeOK
<1>1. TInv => TypeOK BY DEF TInv
<1> QED BY <1>1, InitTInv, StepTInv, PTL DEF Spec

-----------------------------------------------------------------------------
(* The order.  What waits, waits for a task not in the order; what is in the *)
(* order comes after what it depends on.                                    *)

Shape == \A k \in Places : Known(k) /\ ~Self(k)
After == \A i \in DOMAIN order : \A k \in Places :
           Deps[k].task = order[i] => \E j \in 1..(i - 1) : order[j] = Deps[k].on
Once == /\ \A i, j \in DOMAIN order : order[i] = order[j] => i = j
        /\ IsFiniteSet(Elements(order)) /\ Cardinality(Elements(order)) = Len(order)
        /\ Elements(order) \subseteq Tasks
Waits == /\ \A t \in Tasks : waiting[t] = {k \in Places : Deps[k].task = t /\ Deps[k].on \notin Elements(order)}
         /\ ready = {t \in Tasks \ Elements(order) : waiting[t] = {}}

Later == {"sorted", "forward", "backward", "done"}
OrderInv ==
  /\ pc = "start" => order = << >>
  /\ pc = "sort" => Shape /\ After /\ Once /\ Waits
  /\ pc \in Later => Shape /\ After /\ Once /\ Elements(order) = Tasks

\* One more task in the order.
LEMMA PopKeeps == ASSUME TInv, OrderInv, Pop PROVE Shape' /\ After' /\ Once' /\ Waits'
<1>1. PICK id \in ready : order' = Append(order, id) /\ Release(id) BY DEF Pop
<1>2. Shape /\ After /\ Once /\ Waits BY DEF Pop, OrderInv
<1>3. id \in Tasks /\ id \notin Elements(order) /\ waiting[id] = {} BY <1>2 DEF Waits
<1>4. id \in Ids /\ Tasks \subseteq Ids BY <1>3, InputFacts DEF TInv
<1>5. order \in Seq(Ids) /\ Len(order) \in Nat /\ DOMAIN order = 1..Len(order) BY DEF TInv, TypeOK
<1>6. /\ order' \in Seq(Ids) /\ Len(order') = Len(order) + 1 /\ DOMAIN order' = 1..(Len(order) + 1)
      /\ order'[Len(order) + 1] = id /\ \A i \in 1..Len(order) : order'[i] = order[i]
  BY <1>1, <1>4, <1>5, AppendProperties
<1>7. Elements(order)' = Elements(order) \cup {id}
  <2>1. Elements(order)' \subseteq Elements(order) \cup {id} BY <1>5, <1>6 DEF Elements
  <2>2. Elements(order) \subseteq Elements(order)' BY <1>5, <1>6 DEF Elements
  <2>3. Len(order) + 1 \in DOMAIN order' BY <1>5, <1>6
  <2>4. id \in Elements(order)' BY <1>6, <2>3 DEF Elements
  <2> QED BY <2>1, <2>2, <2>4
<1>8. input' = input BY DEF Pop
<1>9. Places' = Places /\ Tasks' = Tasks /\ Deps' = Deps BY <1>8 DEF Places, Tasks, Deps
<1>10. Shape' BY <1>2, <1>9 DEF Shape, Known, Self
<1>11. Once'
  <2>1. \A i \in DOMAIN order : order[i] # id BY <1>3 DEF Elements
  <2>2. \A i, j \in DOMAIN order' : order'[i] = order'[j] => i = j
    BY <1>2, <1>5, <1>6, <2>1 DEF Once
  <2>3. IsFiniteSet(Elements(order)) /\ Cardinality(Elements(order)) = Len(order) /\ Elements(order) \subseteq Tasks
    BY <1>2 DEF Once
  <2>4. IsFiniteSet(Elements(order) \cup {id}) /\ Cardinality(Elements(order) \cup {id}) = Len(order) + 1
    BY <1>3, <2>3, FS_AddElement
  <2> QED BY <1>3, <1>6, <1>7, <1>9, <2>2, <2>3, <2>4 DEF Once
<1>12. After'
  <2> SUFFICES ASSUME NEW i \in DOMAIN order', NEW k \in Places, Deps[k].task = order'[i]
               PROVE  \E j \in 1..(i - 1) : order'[j] = Deps[k].on
    BY <1>9 DEF After
  <2>1. CASE i \in 1..Len(order)
    <3>1. PICK j \in 1..(i - 1) : order[j] = Deps[k].on BY <1>2, <1>5, <1>6, <2>1 DEF After
    <3>2. j \in 1..Len(order) BY <1>5, <2>1
    <3> QED BY <1>6, <3>1, <3>2
  <2>2. CASE i = Len(order) + 1
    <3>1. Deps[k].task = id BY <1>6, <2>2
    <3>2. Deps[k].on \in Elements(order) BY <1>2, <1>3, <3>1 DEF Waits
    <3>3. PICK j \in 1..Len(order) : order[j] = Deps[k].on BY <1>5, <3>2 DEF Elements
    <3> QED BY <1>5, <1>6, <2>2, <3>3
  <2> QED BY <1>5, <1>6, <2>1, <2>2
<1>13. Waits'
  <2>1. waiting' = [t \in Ids |-> waiting[t] \ {k \in Places : Deps[k].on = id}]
        /\ ready' = (ready \ {id}) \cup {t \in Tasks : waiting[t] # {} /\ waiting'[t] = {}}
    BY <1>1 DEF Release
  <2>2. \A t \in Tasks : waiting[t] = {k \in Places : Deps[k].task = t /\ Deps[k].on \notin Elements(order)}
    BY <1>2 DEF Waits
  <2>3. ASSUME NEW t \in Tasks
        PROVE  waiting'[t] = {k \in Places : Deps[k].task = t /\ Deps[k].on \notin Elements(order)'}
    <3>1. waiting'[t] = waiting[t] \ {k \in Places : Deps[k].on = id} BY <1>4, <2>1
    <3> QED BY <1>7, <2>2, <3>1
  <2>4. ASSUME NEW t \in Tasks, t \in Elements(order) PROVE waiting[t] = {}
    <3>1. PICK i \in DOMAIN order : order[i] = t BY <2>4 DEF Elements
    <3>2. ASSUME NEW k \in Places, Deps[k].task = t PROVE Deps[k].on \in Elements(order)
      <4>1. PICK j \in 1..(i - 1) : order[j] = Deps[k].on BY <1>2, <3>1, <3>2 DEF After
      <4>2. j \in DOMAIN order BY <1>5, <3>1
      <4> QED BY <4>1, <4>2 DEF Elements
    <3> QED BY <2>2, <3>2
  <2>5. \A t \in Tasks : waiting[t] = {} => waiting'[t] = {} BY <1>4, <2>1
  <2>6. ready = {t \in Tasks \ Elements(order) : waiting[t] = {}} BY <1>2 DEF Waits
  <2>7. ready' = {t \in Tasks \ Elements(order)' : waiting'[t] = {}}
    BY <1>3, <1>7, <2>1, <2>4, <2>5, <2>6
  <2> QED BY <1>9, <2>3, <2>7 DEF Waits
<1> QED BY <1>10, <1>11, <1>12, <1>13

LEMMA InitOrderInv == Init => OrderInv
BY DEF Init, GraphInit, OrderInv, Later

LEMMA StepOrderInv == TInv /\ OrderInv /\ [Next]_vars => OrderInv'
<1> SUFFICES ASSUME TInv, OrderInv, [Next]_vars PROVE OrderInv' OBVIOUS
<1>1. CASE pc' \notin {"start", "sort"} \cup Later BY <1>1 DEF OrderInv
<1>2. CASE Build
  <2>1. /\ order = << >> /\ order' = order /\ input' = input /\ pc' = "sort"
        /\ waiting' = [t \in Ids |-> {k \in Places : Deps[k].task = t}]
        /\ ready' = {t \in Tasks : \A k \in Places : Deps[k].task # t}
        /\ \A k \in Places : Known(k) /\ ~Self(k)
    BY <1>2 DEF Build, OrderInv, sorting
  <2>2. Places' = Places /\ Tasks' = Tasks /\ Deps' = Deps BY <2>1 DEF Places, Tasks, Deps
  <2>3. Shape' BY <2>1, <2>2 DEF Shape, Known, Self
  <2>4. order' = << >> /\ DOMAIN order' = {} /\ Len(order') = 0 BY <2>1
  <2>5. Elements(order)' = {} BY <2>4 DEF Elements
  <2>6. After' /\ Once' BY <2>4, <2>5, FS_EmptySet DEF After, Once
  <2>7. Tasks \subseteq Ids BY InputFacts DEF TInv
  <2>8. Waits'
    <3>1. \A t \in Tasks : waiting'[t] = {k \in Places : Deps[k].task = t} BY <2>1, <2>7
    <3>2. ready' = {t \in Tasks : waiting'[t] = {}} BY <2>1, <3>1
    <3> QED BY <2>2, <2>5, <3>1, <3>2 DEF Waits
  <2> QED BY <2>1, <2>3, <2>6, <2>8 DEF OrderInv, Later
<1>3. CASE Pop
  <2>1. pc' = "sort" BY <1>3 DEF Pop
  <2> QED BY <1>3, <2>1, PopKeeps DEF OrderInv, Later
<1>4. CASE Sorted
  <2>1. /\ pc = "sort" /\ Len(order) = Cardinality(Tasks) /\ order' = order /\ input' = input
        /\ pc' = "sorted"
    BY <1>4 DEF Sorted, sorting
  <2>2. Shape /\ After /\ Once BY <2>1 DEF OrderInv
  <2>3. Elements(order) = Tasks
    BY <2>1, <2>2, InputFacts, FS_Subset DEF TInv, Once
  <2>4. Places' = Places /\ Tasks' = Tasks /\ Deps' = Deps /\ Elements(order)' = Elements(order)
    BY <2>1 DEF Places, Tasks, Deps, Elements
  <2>5. Shape' /\ After' /\ Once'
    BY <2>1, <2>2, <2>4 DEF Shape, After, Once, Known, Self
  <2> QED BY <2>1, <2>3, <2>4, <2>5 DEF OrderInv, Later
<1>5. CASE Begin \/ Forward \/ Turn \/ Backward \/ Finish
  <2>1. /\ pc \in Later /\ pc' \in Later /\ order' = order /\ input' = input
    BY <1>5 DEF Begin, Forward, Turn, Backward, Finish, Later, sorting, graph
  <2>2. Shape /\ After /\ Once /\ Elements(order) = Tasks BY <2>1 DEF OrderInv
  <2>3. Places' = Places /\ Tasks' = Tasks /\ Deps' = Deps /\ Elements(order)' = Elements(order)
    BY <2>1 DEF Places, Tasks, Deps, Elements
  <2>4. Shape' /\ After' /\ Once'
    BY <2>1, <2>2, <2>3 DEF Shape, After, Once, Known, Self
  <2> QED BY <2>1, <2>2, <2>3, <2>4 DEF OrderInv, Later
<1>6. CASE UNCHANGED vars
  <2>1. pc' = pc /\ order' = order /\ input' = input /\ waiting' = waiting /\ ready' = ready
    BY <1>6 DEF vars, graph, sorting
  <2>2. Places' = Places /\ Tasks' = Tasks /\ Deps' = Deps /\ Elements(order)' = Elements(order)
    BY <2>1 DEF Places, Tasks, Deps, Elements
  <2> QED BY <2>1, <2>2 DEF OrderInv, Shape, After, Once, Waits, Known, Self
<1>7. CASE Validate \/ Refuse \/ SelfCycle \/ Unsorted \/ Root \/ Look \/ Return \/ Searched
  <2>1. pc' \in {"search", "unknown", "cycle", "verdict"}
    BY <1>7 DEF Validate, Refuse, SelfCycle, Unsorted, Root, Look, Return, Searched, Search
  <2> QED BY <1>1, <2>1 DEF Later
<1> QED BY <1>2, <1>3, <1>4, <1>5, <1>6, <1>7 DEF Next, GraphNext

-----------------------------------------------------------------------------
(* The passes.  Behind the place a pass has come to, the bounds hold.        *)

Early(t) ==
  es[t] >= StartConstraint(t) /\ \A k \in Predecessors(t) : es[t] >= EsConstraint(Deps[k])
Late(t) ==
  /\ EF(t) <= lf[t] /\ lf[t] <= projectEnd
  /\ \A k \in SuccessorsOf(t) : lf[t] <= LfConstraint(Deps[k])

PassInv ==
  /\ pc = "forward" => at \in 1..(Len(order) + 1) /\ \A i \in 1..(at - 1) : Early(order[i])
  /\ pc \in {"backward", "done"} =>
       /\ at \in 0..Len(order) /\ (pc = "done" => at = 0)
       /\ \A t \in Tasks : Early(t) /\ EF(t) <= projectEnd
       /\ \A i \in (at + 1)..Len(order) : Late(order[i])

IInv == TInv /\ OrderInv /\ PassInv

\* In the order, a dependency points forward.
LEMMA Points ==
  ASSUME TInv, After, Once, Elements(order) = Tasks, Shape, NEW k \in Places
  PROVE  \E i, j \in 1..Len(order) : i < j /\ order[i] = Deps[k].on /\ order[j] = Deps[k].task
<1>1. Deps[k].task \in Elements(order) BY DEF Shape, Known
<1>2. DOMAIN order = 1..Len(order) /\ Len(order) \in Nat BY DEF TInv, TypeOK
<1>3. PICK j \in 1..Len(order) : order[j] = Deps[k].task BY <1>1, <1>2 DEF Elements
<1>4. PICK i \in 1..(j - 1) : order[i] = Deps[k].on BY <1>2, <1>3 DEF After
<1> QED BY <1>2, <1>3, <1>4

LEMMA EsSame ==
  ASSUME input' = input, NEW k \in Places, es'[Deps[k].on] = es[Deps[k].on]
  PROVE  EsConstraint(Deps[k])' = EsConstraint(Deps[k])
BY DEF EsConstraint, EF, DurationOf, Deps

LEMMA LfSame ==
  ASSUME input' = input, NEW k \in Places, lf'[Deps[k].task] = lf[Deps[k].task]
  PROVE  LfConstraint(Deps[k])' = LfConstraint(Deps[k])
BY DEF LfConstraint, LS, DurationOf, Deps

\* lfConstraint mirrors esConstraint: a task that keeps d with room to spare leaves
\* room to the task it depends on.
LEMMA Mirror ==
  ASSUME input \in Inputs, es \in [Ids -> Int], lf \in [Ids -> Int], NEW k \in Places,
         es[Deps[k].task] >= EsConstraint(Deps[k]), EF(Deps[k].task) <= lf[Deps[k].task]
  PROVE  EF(Deps[k].on) <= LfConstraint(Deps[k])
<1> DEFINE d == Deps[k]
<1>1. d.task \in Ids /\ d.on \in Ids /\ d.lag \in Int BY InputFacts
<1>2. DurationOf(d.task) \in Int /\ DurationOf(d.on) \in Int BY <1>1, InputFacts
<1>3. es[d.on] \in Int /\ lf[d.task] \in Int /\ es[d.task] \in Int BY <1>1
<1>4. es[d.task] >= EsConstraint(d) /\ EF(d.task) <= lf[d.task] OBVIOUS
<1> HIDE DEF d
<1>5. EF(d.on) <= LfConstraint(d)
  BY <1>1, <1>2, <1>3, <1>4 DEF EsConstraint, LfConstraint, EF, LS
<1> QED BY <1>5 DEF d

LEMMA StartSame ==
  ASSUME input' = input PROVE \A t \in Ids : StartConstraint(t)' = StartConstraint(t)
BY DEF StartConstraint, Anchor, Starts, Tasks, FromDay, Calendar

LEMMA ForwardKeeps == ASSUME IInv, Forward PROVE PassInv'
<1> DEFINE t == order[at]
           x == Greatest({StartConstraint(t)} \cup {EsConstraint(Deps[k]) : k \in Predecessors(t)})
<1>1. /\ pc = "forward" /\ at <= Len(order) /\ es' = [es EXCEPT ![t] = x] /\ at' = at + 1
      /\ pc' = pc /\ input' = input /\ order' = order
  BY DEF Forward, graph, sorting
<1>2. /\ Shape /\ After /\ Once /\ Elements(order) = Tasks
      /\ at \in 1..(Len(order) + 1) /\ \A i \in 1..(at - 1) : Early(order[i])
  BY <1>1 DEF IInv, OrderInv, Later, PassInv
<1>3. /\ input \in Inputs /\ es \in [Ids -> Int] /\ lf \in [Ids -> Int] /\ order \in Seq(Ids)
      /\ DOMAIN order = 1..Len(order) /\ Len(order) \in Nat
  BY DEF IInv, TInv, TypeOK
<1>4. at \in 1..Len(order) /\ t \in Ids BY <1>1, <1>2, <1>3
<1>5. /\ x \in Int /\ x >= StartConstraint(t)
      /\ \A k \in Predecessors(t) : x >= EsConstraint(Deps[k])
  <2> HIDE DEF t
  <2> QED BY <1>3, <1>4, EarliestOf
<1> HIDE DEF x
<1>6. es'[t] = x /\ \A v \in Ids : v # t => es'[v] = es[v] BY <1>1, <1>3, <1>4
<1>7. Places' = Places /\ Deps' = Deps /\ \A v : Predecessors(v)' = Predecessors(v)
  BY <1>1 DEF Places, Deps, Predecessors
<1>8. ASSUME NEW i \in 1..at, NEW k \in Predecessors(order[i])
      PROVE  /\ EsConstraint(Deps[k])' = EsConstraint(Deps[k])
             /\ k \in Places
  <2>1. k \in Places /\ Deps[k].task = order[i] BY DEF Predecessors
  <2> i \in DOMAIN order BY <1>3, <1>4
  <2>2. PICK j \in 1..(i - 1) : order[j] = Deps[k].on BY <1>2, <2>1 DEF After
  <2>3. j \in DOMAIN order /\ j # at /\ at \in DOMAIN order BY <1>3, <1>4
  <2>4. order[j] # t BY <1>2, <2>3 DEF Once
  <2> order[j] \in Ids BY <1>3, <2>3
  <2> QED BY <1>1, <1>6, <2>1, <2>2, <2>4, EsSame
<1>9. ASSUME NEW i \in 1..at PROVE Early(order[i])'
  <2>1. order[i] \in Ids /\ i \in 1..Len(order) BY <1>3, <1>4
  <2>2. StartConstraint(order[i])' = StartConstraint(order[i]) BY <1>1, <2>1, StartSame
  <2>3. CASE i = at
    <3>1. es'[order[i]] = x BY <1>6, <2>3
    <3> QED BY <1>1, <1>5, <1>7, <1>8, <2>2, <2>3, <3>1 DEF Early
  <2>4. CASE i # at
    <3>1. i \in 1..(at - 1) BY <1>3, <1>4, <2>4
    <3>2. order[i] # t BY <1>2, <1>3, <1>4, <2>1, <2>4 DEF Once
    <3>3. es'[order[i]] = es[order[i]] BY <1>6, <2>1, <3>2
    <3>4. Early(order[i]) BY <1>2, <3>1
    <3> QED BY <1>1, <1>7, <1>8, <2>2, <3>3, <3>4 DEF Early
  <2> QED BY <2>3, <2>4
<1>10. at' - 1 = at /\ at' \in 1..(Len(order') + 1) BY <1>1, <1>3, <1>4
<1> QED BY <1>1, <1>9, <1>10 DEF PassInv

LEMMA BackwardKeeps == ASSUME IInv, Backward PROVE PassInv'
<1> DEFINE t == order[at]
           x == Least({projectEnd} \cup {LfConstraint(Deps[k]) : k \in SuccessorsOf(t)})
<1>1. /\ pc = "backward" /\ at >= 1 /\ lf' = [lf EXCEPT ![t] = x] /\ at' = at - 1 /\ pc' = pc
      /\ input' = input /\ order' = order /\ es' = es /\ projectEnd' = projectEnd
  BY DEF Backward, graph, sorting
<1>2. /\ Shape /\ After /\ Once /\ Elements(order) = Tasks
      /\ at \in 0..Len(order) /\ \A v \in Tasks : Early(v) /\ EF(v) <= projectEnd
      /\ \A i \in (at + 1)..Len(order) : Late(order[i])
  BY <1>1 DEF IInv, OrderInv, Later, PassInv
<1>3. /\ input \in Inputs /\ es \in [Ids -> Int] /\ lf \in [Ids -> Int] /\ order \in Seq(Ids)
      /\ DOMAIN order = 1..Len(order) /\ Len(order) \in Nat /\ projectEnd \in Int
  BY DEF IInv, TInv, TypeOK
<1>4. at \in 1..Len(order) /\ t \in Ids /\ t \in Tasks BY <1>1, <1>2, <1>3 DEF Elements
<1>5. /\ x \in Int /\ x <= projectEnd
      /\ \A k \in SuccessorsOf(t) : x <= LfConstraint(Deps[k])
      /\ x = projectEnd \/ \E k \in SuccessorsOf(t) : x = LfConstraint(Deps[k])
  <2> HIDE DEF t
  <2> QED BY <1>3, <1>4, LatestOf
<1> HIDE DEF x
<1>6. lf'[t] = x /\ \A v \in Ids : v # t => lf'[v] = lf[v] BY <1>1, <1>3, <1>4
<1>7. /\ Places' = Places /\ Deps' = Deps /\ Tasks' = Tasks
      /\ \A v : SuccessorsOf(v)' = SuccessorsOf(v) /\ Predecessors(v)' = Predecessors(v) /\ EF(v)' = EF(v)
  BY <1>1 DEF Places, Deps, Tasks, SuccessorsOf, Predecessors, EF, DurationOf
<1>8. ASSUME NEW i \in at..Len(order), NEW k \in SuccessorsOf(order[i])
      PROVE  /\ LfConstraint(Deps[k])' = LfConstraint(Deps[k]) /\ k \in Places
             /\ Late(Deps[k].task) /\ Deps[k].task \in Tasks
  <2>1. k \in Places /\ Deps[k].on = order[i] BY DEF SuccessorsOf
  <2>2. PICK m, n \in 1..Len(order) : m < n /\ order[m] = Deps[k].on /\ order[n] = Deps[k].task
    BY <1>2, <2>1, Points DEF IInv
  <2>3. i \in 1..Len(order) BY <1>3, <1>4
  <2>4. m = i BY <1>2, <1>3, <2>1, <2>2, <2>3 DEF Once
  <2>5. n \in (at + 1)..Len(order) BY <1>3, <1>4, <2>2, <2>4
  <2> n \in DOMAIN order /\ n # at /\ at \in DOMAIN order BY <1>3, <1>4, <2>2, <2>5
  <2>6. order[n] # t BY <1>2 DEF Once
  <2> order[n] \in Ids BY <1>3
  <2>7. order[n] \in Tasks BY <1>2, <1>3, <2>2 DEF Elements
  <2> QED BY <1>1, <1>2, <1>6, <2>1, <2>2, <2>5, <2>6, <2>7, LfSame
<1>9. EF(t) <= x
  <2>1. CASE x = projectEnd BY <1>2, <1>4, <2>1
  <2>2. CASE \E k \in SuccessorsOf(t) : x = LfConstraint(Deps[k])
    <3>1. PICK k \in SuccessorsOf(t) : x = LfConstraint(Deps[k]) BY <2>2
    <3>2. at \in at..Len(order) BY <1>3, <1>4
    <3>3. k \in Places /\ Late(Deps[k].task) /\ Deps[k].task \in Tasks BY <1>8, <3>2
    <3>4. EF(Deps[k].task) <= lf[Deps[k].task] BY <3>3 DEF Late
    <3>5. k \in Predecessors(Deps[k].task) /\ Deps[k].on = t BY <3>1, <3>3 DEF Predecessors, SuccessorsOf
    <3>6. es[Deps[k].task] >= EsConstraint(Deps[k]) BY <1>2, <3>3, <3>5 DEF Early
    <3> QED BY <1>3, <3>1, <3>3, <3>4, <3>5, <3>6, Mirror
  <2> QED BY <1>5, <2>1, <2>2
<1>10. ASSUME NEW i \in at..Len(order) PROVE Late(order[i])'
  <2>1. i \in 1..Len(order) /\ order[i] \in Ids BY <1>3, <1>4
  <2>2. CASE i = at
    <3>1. lf'[order[i]] = x BY <1>6, <2>2
    <3> QED BY <1>1, <1>5, <1>7, <1>8, <1>9, <2>2, <3>1 DEF Late
  <2>3. CASE i # at
    <3>1. i \in (at + 1)..Len(order) BY <1>3, <1>4, <2>3
    <3>2. order[i] # t BY <1>2, <1>3, <1>4, <2>1, <2>3 DEF Once
    <3>3. lf'[order[i]] = lf[order[i]] BY <1>6, <2>1, <3>2
    <3>4. Late(order[i]) BY <1>2, <3>1
    <3> QED BY <1>1, <1>7, <1>8, <3>3, <3>4 DEF Late
  <2> QED BY <2>2, <2>3
<1>11. at' + 1 = at /\ at' \in 0..Len(order') BY <1>1, <1>3, <1>4
<1>12. ASSUME NEW v \in Tasks PROVE Early(v)' /\ EF(v)' <= projectEnd'
  <2>1. v \in Ids BY <1>3, InputFacts
  <2>2. \A k \in Predecessors(v) : k \in Places BY DEF Predecessors
  <2>3. \A k \in Predecessors(v) : EsConstraint(Deps[k])' = EsConstraint(Deps[k])
    BY <1>1, <2>2, EsSame
  <2>4. StartConstraint(v)' = StartConstraint(v) BY <1>1, <2>1, StartSame
  <2> QED BY <1>1, <1>2, <1>7, <2>3, <2>4 DEF Early
<1>13. \A i \in (at' + 1)..Len(order') : Late(order[i])' BY <1>1, <1>10, <1>11
<1> QED BY <1>1, <1>7, <1>11, <1>12, <1>13 DEF PassInv

LEMMA TurnKeeps == ASSUME IInv, Turn PROVE PassInv'
<1>1. /\ pc = "forward" /\ at > Len(order) /\ pc' = "backward" /\ at' = Len(order)
      /\ projectEnd' = IF Tasks = {} THEN Anchor ELSE Greatest({EF(t) : t \in Tasks})
      /\ input' = input /\ order' = order /\ es' = es
  BY DEF Turn, sorting
<1>2. /\ Elements(order) = Tasks /\ at \in 1..(Len(order) + 1)
      /\ \A i \in 1..(at - 1) : Early(order[i])
  BY <1>1 DEF IInv, OrderInv, Later, PassInv
<1>3. /\ input \in Inputs /\ es \in [Ids -> Int] /\ DOMAIN order = 1..Len(order) /\ Len(order) \in Nat
  BY DEF IInv, TInv, TypeOK
<1>4. \A t \in Tasks : EF(t) <= projectEnd' BY <1>1, <1>3, EndOf
<1>5. at - 1 = Len(order) BY <1>1, <1>2, <1>3
<1>6. \A t \in Tasks : Early(t) BY <1>2, <1>3, <1>5 DEF Elements
<1>7. /\ Tasks' = Tasks /\ Deps' = Deps
      /\ \A t : EF(t)' = EF(t) /\ Predecessors(t)' = Predecessors(t)
  BY <1>1 DEF Tasks, EF, DurationOf, Predecessors, Places, Deps
<1>8. ASSUME NEW t \in Tasks PROVE Early(t)'
  <2>1. t \in Ids BY <1>3, InputFacts
  <2>2. \A k \in Predecessors(t) : k \in Places BY DEF Predecessors
  <2>3. \A k \in Predecessors(t) : EsConstraint(Deps[k])' = EsConstraint(Deps[k])
    BY <1>1, <2>2, EsSame
  <2>4. StartConstraint(t)' = StartConstraint(t) BY <1>1, <2>1, StartSame
  <2> QED BY <1>1, <1>6, <1>7, <2>3, <2>4 DEF Early
<1>9. (at' + 1)..Len(order') = {} /\ at' \in 0..Len(order') BY <1>1, <1>3
<1> QED BY <1>1, <1>4, <1>7, <1>8, <1>9 DEF PassInv

LEMMA StepPassInv == IInv /\ [Next]_vars => PassInv'
<1> SUFFICES ASSUME IInv, [Next]_vars PROVE PassInv' OBVIOUS
<1>1. CASE Forward BY <1>1, ForwardKeeps
<1>2. CASE Turn BY <1>2, TurnKeeps
<1>3. CASE Backward BY <1>3, BackwardKeeps
<1>4. CASE Begin
  <2>1. pc' = "forward" /\ at' = 1 /\ order' = order BY <1>4 DEF Begin, sorting
  <2>2. Len(order) \in Nat BY DEF IInv, TInv, TypeOK
  <2>3. at' \in 1..(Len(order') + 1) /\ 1..(at' - 1) = {} BY <2>1, <2>2
  <2> QED BY <2>1, <2>3 DEF PassInv
<1>5. CASE Finish \/ UNCHANGED vars
  <2>1. /\ at' = at /\ es' = es /\ projectEnd' = projectEnd /\ lf' = lf /\ order' = order /\ input' = input
        /\ pc' = pc \/ (pc = "backward" /\ at = 0 /\ pc' = "done")
    BY <1>5 DEF Finish, vars, passes, graph, sorting
  <2>2. /\ Tasks' = Tasks /\ Deps' = Deps
        /\ \A t : EF(t)' = EF(t) /\ LS(t)' = LS(t) /\ Predecessors(t)' = Predecessors(t) /\ SuccessorsOf(t)' = SuccessorsOf(t)
    BY <2>1 DEF Tasks, EF, LS, DurationOf, Predecessors, SuccessorsOf, Places, Deps
  <2>3. \A k \in Places : EsConstraint(Deps[k])' = EsConstraint(Deps[k])
                        /\ LfConstraint(Deps[k])' = LfConstraint(Deps[k])
    BY <2>1, EsSame, LfSame
  <2>4. \A t : (\A k \in Predecessors(t) : k \in Places) /\ \A k \in SuccessorsOf(t) : k \in Places
    BY DEF Predecessors, SuccessorsOf
  <2>5. \A t \in Ids : StartConstraint(t)' = StartConstraint(t) BY <2>1, StartSame
  <2>6. \A t \in Ids : Early(t)' <=> Early(t) BY <2>1, <2>2, <2>3, <2>4, <2>5 DEF Early
  <2>7. \A t \in Ids : Late(t)' <=> Late(t) BY <2>1, <2>2, <2>3, <2>4 DEF Late
  <2>8. Tasks \subseteq Ids /\ order \in Seq(Ids) /\ DOMAIN order = 1..Len(order) /\ Len(order) \in Nat /\ at \in Nat
    BY InputFacts DEF IInv, TInv, TypeOK
  <2>9. pc = "forward" => \A i \in 1..(at - 1) : order[i] \in Ids
    BY <2>8 DEF IInv, PassInv
  <2>10. \A i \in (at + 1)..Len(order) : order[i] \in Ids BY <2>8
  <2> QED BY <2>1, <2>2, <2>6, <2>7, <2>8, <2>9, <2>10 DEF IInv, PassInv
<1>6. CASE GraphNext
  <2>1. pc' \in {"search", "unknown", "cycle", "verdict", "sort", "sorted"}
    BY <1>6 DEF GraphNext, Validate, Refuse, SelfCycle, Unsorted, Root, Look, Return, Searched, Search,
                Build, Pop, Sorted
  <2> QED BY <2>1 DEF PassInv
<1> QED BY <1>1, <1>2, <1>3, <1>4, <1>5, <1>6 DEF Next

LEMMA InitIInv == Init => IInv
<1>1. Init => PassInv BY DEF Init, GraphInit, PassInv
<1> QED BY <1>1, InitTInv, InitOrderInv DEF IInv

LEMMA StepIInv == IInv /\ [Next]_vars => IInv'
BY StepTInv, StepOrderInv, StepPassInv DEF IInv

LEMMA KeptAtTheEnd == IInv => BothCanBeKept
<1> SUFFICES ASSUME IInv, pc = "done"
             PROVE  /\ Feasible(es) /\ Feasible([t \in Ids |-> LS(t)])
                    /\ \A t \in Tasks : EF(t) <= projectEnd /\ lf[t] <= projectEnd /\ Slack(t) >= 0
  BY DEF BothCanBeKept
<1>1. /\ input \in Inputs /\ es \in [Ids -> Int] /\ lf \in [Ids -> Int] /\ projectEnd \in Int
      /\ order \in Seq(Ids) /\ DOMAIN order = 1..Len(order)
  BY DEF IInv, TInv, TypeOK
<1>2. /\ Shape /\ Elements(order) = Tasks /\ at = 0
      /\ \A t \in Tasks : Early(t) /\ EF(t) <= projectEnd
      /\ \A i \in 1..Len(order) : Late(order[i])
  BY DEF IInv, OrderInv, Later, PassInv
<1>3. \A t \in Tasks : Late(t) BY <1>1, <1>2 DEF Elements
<1>4. ASSUME NEW t \in Tasks
      PROVE  /\ t \in Ids /\ es[t] \in Int /\ lf[t] \in Int /\ DurationOf(t) \in Int
             /\ StartConstraint(t) \in Int /\ es[t] >= StartConstraint(t)
             /\ EF(t) <= lf[t] /\ EF(t) <= projectEnd /\ lf[t] <= projectEnd
  BY <1>1, <1>2, <1>3, InputFacts, StartIsInt DEF Early, Late
<1>5. ASSUME NEW t \in Tasks PROVE Slack(t) >= 0 /\ LS(t) >= StartConstraint(t)
  BY <1>4 DEF Slack, LS, EF
<1> DEFINE ls == [t \in Ids |-> LS(t)]
<1>6. ASSUME NEW k \in Places PROVE Keeps(es, Deps[k]) /\ Keeps(ls, Deps[k])
  <2> DEFINE d == Deps[k]
  <2>1. d.task \in Tasks /\ d.on \in Tasks /\ d.lag \in Int /\ d.kind \in Kinds
    BY <1>1, <1>2, InputFacts DEF Shape, Known
  <2>2. k \in Predecessors(d.task) /\ k \in SuccessorsOf(d.on) BY DEF Predecessors, SuccessorsOf
  <2>3. es[d.task] >= EsConstraint(d) BY <1>2, <2>1, <2>2 DEF Early
  <2>4. lf[d.on] <= LfConstraint(d) BY <1>3, <2>1, <2>2 DEF Late
  <2> HIDE DEF d
  <2>5. /\ es[d.task] \in Int /\ lf[d.task] \in Int /\ DurationOf(d.task) \in Int
        /\ es[d.on] \in Int /\ lf[d.on] \in Int /\ DurationOf(d.on) \in Int
    BY <1>4, <2>1
  <2>6. Keeps(es, d) BY <2>1, <2>3, <2>5 DEF Keeps, EsConstraint, EF
  <2>7. ls[d.task] = lf[d.task] - DurationOf(d.task) /\ ls[d.on] = lf[d.on] - DurationOf(d.on)
    BY <1>4, <2>1 DEF LS
  <2> HIDE DEF ls
  <2>8. Keeps(ls, d) BY <2>1, <2>4, <2>5, <2>7 DEF Keeps, LfConstraint, LS
  <2> QED BY <2>6, <2>8 DEF d
<1>7. Feasible(es) BY <1>4, <1>6 DEF Feasible
<1>8. \A t \in Tasks : ls[t] = LS(t) BY <1>4
<1> HIDE DEF ls
<1>9. Feasible(ls) BY <1>5, <1>6, <1>8 DEF Feasible
<1> QED BY <1>4, <1>5, <1>7, <1>9 DEF ls

\* The schedule and the latest schedule computeSchedule returns keep every
\* dependency and every start, and no task has less than no slack.
THEOREM ScheduleCanBeKept == Spec => []BothCanBeKept
BY InitIInv, StepIInv, KeptAtTheEnd, PTL DEF Spec

-----------------------------------------------------------------------------
(* The passes do not give away a day: behind the place they have come to, no *)
(* schedule is earlier than the early one or later than the late one.       *)

InTime(s) == \A t \in Tasks : s[t] + DurationOf(t) <= projectEnd

ExactInv ==
  /\ pc = "forward" => \A s \in Schedules : \A i \in 1..(at - 1) : es[order[i]] <= s[order[i]]
  /\ pc \in {"backward", "done"} => \A s \in Schedules :
       /\ \A t \in Tasks : es[t] <= s[t]
       /\ InTime(s) => \A i \in (at + 1)..Len(order) : s[order[i]] + DurationOf(order[i]) <= lf[order[i]]

LEMMA ScheduleFacts ==
  ASSUME input \in Inputs, Shape, NEW s \in Schedules
  PROVE  /\ \A t \in Tasks : s[t] \in Int /\ s[t] >= StartConstraint(t)
         /\ \A k \in Places : Keeps(s, Deps[k]) /\ Deps[k].task \in Tasks /\ Deps[k].on \in Tasks
BY DaysAssumption DEF Schedules, Feasible, Shape, Known

LEMMA SchedulesSame == ASSUME input' = input PROVE Schedules' = Schedules /\ \A t : DurationOf(t)' = DurationOf(t)
<1>1. Tasks' = Tasks /\ Deps' = Deps /\ Places' = Places /\ \A t : DurationOf(t)' = DurationOf(t)
  BY DEF Tasks, Deps, Places, DurationOf
<1>2. \A t : StartConstraint(t)' = StartConstraint(t)
  BY DEF StartConstraint, Anchor, Starts, Tasks, FromDay, Calendar
<1>3. \A s, d : Keeps(s, d)' <=> Keeps(s, d) BY <1>1 DEF Keeps
<1>4. \A s : Feasible(s)' <=> Feasible(s) BY <1>1, <1>2, <1>3 DEF Feasible
<1> QED BY <1>1, <1>4 DEF Schedules

LEMMA ForwardIsLeast == ASSUME IInv, ExactInv, Forward PROVE ExactInv'
<1> DEFINE t == order[at]
           x == Greatest({StartConstraint(t)} \cup {EsConstraint(Deps[k]) : k \in Predecessors(t)})
<1>1. /\ pc = "forward" /\ at <= Len(order) /\ es' = [es EXCEPT ![t] = x] /\ at' = at + 1
      /\ pc' = pc /\ input' = input /\ order' = order
  BY DEF Forward, graph, sorting
<1>2. /\ Shape /\ After /\ Once /\ Elements(order) = Tasks /\ at \in 1..(Len(order) + 1)
      /\ \A s \in Schedules : \A i \in 1..(at - 1) : es[order[i]] <= s[order[i]]
  BY <1>1 DEF IInv, OrderInv, Later, PassInv, ExactInv
<1>3. /\ input \in Inputs /\ es \in [Ids -> Int] /\ lf \in [Ids -> Int] /\ order \in Seq(Ids)
      /\ DOMAIN order = 1..Len(order) /\ Len(order) \in Nat
  BY DEF IInv, TInv, TypeOK
<1>4. at \in DOMAIN order /\ t \in Ids /\ t \in Tasks BY <1>1, <1>2, <1>3 DEF Elements
<1>5. /\ x \in Int
      /\ x = StartConstraint(t) \/ \E k \in Predecessors(t) : x = EsConstraint(Deps[k])
  <2> HIDE DEF t
  <2> QED BY <1>3, <1>4, EarliestOf
<1> HIDE DEF x
<1>6. es'[t] = x /\ \A v \in Ids : v # t => es'[v] = es[v] BY <1>1, <1>3, <1>4
<1>7. ASSUME NEW s \in Schedules PROVE x <= s[t]
  <2>1. s[t] \in Int /\ s[t] >= StartConstraint(t) BY <1>2, <1>3, <1>4, ScheduleFacts
  <2>2. CASE x = StartConstraint(t) BY <1>5, <2>1, <2>2
  <2>3. CASE \E k \in Predecessors(t) : x = EsConstraint(Deps[k])
    <3>1. PICK k \in Predecessors(t) : x = EsConstraint(Deps[k]) BY <2>3
    <3> DEFINE d == Deps[k]
    <3>2. k \in Places /\ d.task = t BY DEF Predecessors
    <3>3. PICK j \in 1..(at - 1) : order[j] = d.on BY <1>2, <1>4, <3>2 DEF After
    <3>4. es[d.on] <= s[d.on] BY <1>2, <3>3
    <3>5. Keeps(s, d) /\ d.on \in Tasks /\ s[d.on] \in Int /\ d.on \in Ids /\ d.lag \in Int
      BY <1>2, <1>3, <3>2, ScheduleFacts, InputFacts
    <3>6. es[d.on] \in Int /\ DurationOf(d.on) \in Int /\ DurationOf(d.task) \in Int
      BY <1>3, <1>4, <3>2, <3>5, InputFacts
    <3>7. s[d.task] \in Int BY <2>1, <3>2
    <3>8. x = EsConstraint(d) BY <3>1
    <3> HIDE DEF d
    <3>9. EsConstraint(d) <= s[d.task]
      BY <3>4, <3>5, <3>6, <3>7 DEF EsConstraint, EF, Keeps
    <3> QED BY <3>2, <3>8, <3>9
  <2> QED BY <1>5, <2>2, <2>3
<1>8. ASSUME NEW s \in Schedules, NEW i \in 1..at PROVE es'[order[i]] <= s[order[i]]
  <2>1. CASE i = at BY <1>6, <1>7, <2>1
  <2>2. CASE i # at
    <3>1. i \in 1..(at - 1) /\ i \in DOMAIN order BY <1>3, <1>4, <2>2
    <3>2. order[i] # t BY <1>2, <1>4, <2>2, <3>1 DEF Once
    <3>3. order[i] \in Ids BY <1>3, <3>1
    <3> QED BY <1>2, <1>6, <3>1, <3>2, <3>3
  <2> QED BY <2>1, <2>2
<1>9. at' - 1 = at BY <1>1, <1>3, <1>4
<1>10. Schedules' = Schedules BY <1>1, SchedulesSame
<1> QED BY <1>1, <1>8, <1>9, <1>10 DEF ExactInv

LEMMA BackwardIsGreatest == ASSUME IInv, ExactInv, Backward PROVE ExactInv'
<1> DEFINE t == order[at]
           x == Least({projectEnd} \cup {LfConstraint(Deps[k]) : k \in SuccessorsOf(t)})
<1>1. /\ pc = "backward" /\ at >= 1 /\ lf' = [lf EXCEPT ![t] = x] /\ at' = at - 1 /\ pc' = pc
      /\ input' = input /\ order' = order /\ es' = es /\ projectEnd' = projectEnd
  BY DEF Backward, graph, sorting
<1>2. /\ Shape /\ After /\ Once /\ Elements(order) = Tasks /\ at \in 0..Len(order)
      /\ \A s \in Schedules :
           /\ \A v \in Tasks : es[v] <= s[v]
           /\ InTime(s) => \A i \in (at + 1)..Len(order) : s[order[i]] + DurationOf(order[i]) <= lf[order[i]]
  BY <1>1 DEF IInv, OrderInv, Later, PassInv, ExactInv
<1>3. /\ input \in Inputs /\ es \in [Ids -> Int] /\ lf \in [Ids -> Int] /\ order \in Seq(Ids)
      /\ DOMAIN order = 1..Len(order) /\ Len(order) \in Nat /\ projectEnd \in Int
  BY DEF IInv, TInv, TypeOK
<1>4. at \in DOMAIN order /\ t \in Ids /\ t \in Tasks BY <1>1, <1>2, <1>3 DEF Elements
<1>5. /\ x \in Int
      /\ x = projectEnd \/ \E k \in SuccessorsOf(t) : x = LfConstraint(Deps[k])
  <2> HIDE DEF t
  <2> QED BY <1>3, <1>4, LatestOf
<1> HIDE DEF x
<1>6. lf'[t] = x /\ \A v \in Ids : v # t => lf'[v] = lf[v] BY <1>1, <1>3, <1>4
<1>7. ASSUME NEW s \in Schedules, InTime(s) PROVE s[t] + DurationOf(t) <= x
  <2>1. CASE x = projectEnd BY <1>4, <1>7, <2>1 DEF InTime
  <2>2. CASE \E k \in SuccessorsOf(t) : x = LfConstraint(Deps[k])
    <3>1. PICK k \in SuccessorsOf(t) : x = LfConstraint(Deps[k]) BY <2>2
    <3> DEFINE d == Deps[k]
    <3>2. k \in Places /\ d.on = t BY DEF SuccessorsOf
    <3>3. PICK m, n \in 1..Len(order) : m < n /\ order[m] = d.on /\ order[n] = d.task
      BY <1>2, <3>2, Points DEF IInv
    <3>4. m = at BY <1>2, <1>3, <1>4, <3>2, <3>3 DEF Once
    <3>5. n \in (at + 1)..Len(order) BY <1>3, <1>4, <3>3, <3>4
    <3>6. s[d.task] + DurationOf(d.task) <= lf[d.task] BY <1>2, <1>7, <3>3, <3>5
    <3>7. Keeps(s, d) /\ s[d.on] \in Int /\ s[d.task] \in Int /\ d.lag \in Int /\ d.on \in Ids /\ d.task \in Ids
      BY <1>2, <1>3, <3>2, ScheduleFacts, InputFacts
    <3>8. lf[d.task] \in Int /\ DurationOf(d.on) \in Int /\ DurationOf(d.task) \in Int
      BY <1>3, <3>7, InputFacts
    <3>9. x = LfConstraint(d) BY <3>1
    <3> HIDE DEF d
    <3>10. s[d.on] + DurationOf(d.on) <= LfConstraint(d)
      <4>1. CASE d.kind = "SS" BY <3>6, <3>7, <3>8, <4>1 DEF LfConstraint, LS, Keeps
      <4>2. CASE d.kind = "FF" BY <3>6, <3>7, <3>8, <4>2 DEF LfConstraint, LS, Keeps
      <4>3. CASE d.kind = "SF" BY <3>6, <3>7, <3>8, <4>3 DEF LfConstraint, LS, Keeps
      <4>4. CASE d.kind \notin {"SS", "FF", "SF"}
        <5>1. s[d.task] >= s[d.on] + DurationOf(d.on) + d.lag BY <3>7, <4>4 DEF Keeps
        <5>2. LfConstraint(d) = lf[d.task] - DurationOf(d.task) - d.lag BY <4>4 DEF LfConstraint, LS
        <5> QED BY <3>6, <3>7, <3>8, <5>1, <5>2
      <4> QED BY <4>1, <4>2, <4>3, <4>4
    <3> QED BY <3>2, <3>9, <3>10
  <2> QED BY <1>5, <2>1, <2>2
<1>8. ASSUME NEW s \in Schedules, InTime(s), NEW i \in at..Len(order)
      PROVE  s[order[i]] + DurationOf(order[i]) <= lf'[order[i]]
  <2>1. CASE i = at BY <1>6, <1>7, <1>8, <2>1
  <2>2. CASE i # at
    <3>1. i \in (at + 1)..Len(order) /\ i \in DOMAIN order BY <1>3, <1>4, <2>2
    <3>2. order[i] # t BY <1>2, <1>4, <2>2, <3>1 DEF Once
    <3>3. order[i] \in Ids BY <1>3, <3>1
    <3> QED BY <1>2, <1>6, <1>8, <3>1, <3>2, <3>3
  <2> QED BY <2>1, <2>2
<1>9. at' + 1 = at BY <1>1, <1>3, <1>4
<1>10. /\ Schedules' = Schedules /\ Tasks' = Tasks /\ \A v : DurationOf(v)' = DurationOf(v)
  BY <1>1, SchedulesSame DEF Tasks
<1>11. \A s : InTime(s)' <=> InTime(s) BY <1>1, <1>10 DEF InTime
<1> QED BY <1>1, <1>2, <1>8, <1>9, <1>10, <1>11 DEF ExactInv

LEMMA StepExactInv == IInv /\ ExactInv /\ [Next]_vars => ExactInv'
<1> SUFFICES ASSUME IInv, ExactInv, [Next]_vars PROVE ExactInv' OBVIOUS
<1>1. CASE Forward BY <1>1, ForwardIsLeast
<1>2. CASE Backward BY <1>2, BackwardIsGreatest
<1>3. CASE Turn
  <2>1. /\ pc = "forward" /\ at > Len(order) /\ pc' = "backward" /\ at' = Len(order)
        /\ input' = input /\ order' = order /\ es' = es
    BY <1>3 DEF Turn, sorting
  <2>2. Elements(order) = Tasks /\ at \in 1..(Len(order) + 1)
    BY <2>1 DEF IInv, OrderInv, Later, PassInv
  <2>3. DOMAIN order = 1..Len(order) /\ Len(order) \in Nat BY DEF IInv, TInv, TypeOK
  <2>4. at - 1 = Len(order) BY <2>1, <2>2, <2>3
  <2>5. \A s \in Schedules : \A t \in Tasks : es[t] <= s[t]
    BY <2>1, <2>2, <2>3, <2>4 DEF ExactInv, Elements
  <2>6. (at' + 1)..Len(order') = {} BY <2>1, <2>3
  <2>7. Schedules' = Schedules /\ Tasks' = Tasks BY <2>1, SchedulesSame DEF Tasks
  <2> QED BY <2>1, <2>5, <2>6, <2>7 DEF ExactInv
<1>4. CASE Begin
  <2>1. pc' = "forward" /\ at' = 1 BY <1>4 DEF Begin
  <2>2. 1..(at' - 1) = {} BY <2>1
  <2> QED BY <2>1, <2>2 DEF ExactInv
<1>5. CASE Finish \/ UNCHANGED vars
  <2>1. /\ at' = at /\ es' = es /\ projectEnd' = projectEnd /\ lf' = lf /\ order' = order /\ input' = input
        /\ pc' = pc \/ (pc = "backward" /\ pc' = "done")
    BY <1>5 DEF Finish, vars, passes, graph, sorting
  <2>2. /\ Schedules' = Schedules /\ Tasks' = Tasks /\ \A v : DurationOf(v)' = DurationOf(v)
    BY <2>1, SchedulesSame DEF Tasks
  <2>3. \A s : InTime(s)' <=> InTime(s) BY <2>1, <2>2 DEF InTime
  <2> QED BY <2>1, <2>2, <2>3 DEF ExactInv
<1>6. CASE GraphNext
  <2>1. pc' \in {"search", "unknown", "cycle", "verdict", "sort", "sorted"}
    BY <1>6 DEF GraphNext, Validate, Refuse, SelfCycle, Unsorted, Root, Look, Return, Searched, Search,
                Build, Pop, Sorted
  <2> QED BY <2>1 DEF ExactInv
<1> QED BY <1>1, <1>2, <1>3, <1>4, <1>5, <1>6 DEF Next

LEMMA ExactAtTheEnd == IInv /\ ExactInv => SlackIsExact
<1> SUFFICES ASSUME IInv, ExactInv, pc = "done", NEW s \in Schedules
             PROVE  /\ \A t \in Tasks : es[t] <= s[t]
                    /\ InTime(s) => \A t \in Tasks : s[t] <= LS(t)
  BY DEF SlackIsExact, InTime
<1>1. /\ input \in Inputs /\ lf \in [Ids -> Int] /\ DOMAIN order = 1..Len(order)
      /\ Shape /\ Elements(order) = Tasks /\ at = 0
  BY DEF IInv, TInv, TypeOK, OrderInv, Later, PassInv
<1>2. /\ \A t \in Tasks : es[t] <= s[t]
      /\ InTime(s) => \A i \in 1..Len(order) : s[order[i]] + DurationOf(order[i]) <= lf[order[i]]
  BY <1>1 DEF ExactInv
<1>3. InTime(s) => \A t \in Tasks : s[t] + DurationOf(t) <= lf[t] BY <1>1, <1>2 DEF Elements
<1>4. \A t \in Tasks : s[t] \in Int /\ lf[t] \in Int /\ DurationOf(t) \in Int
  BY <1>1, ScheduleFacts, InputFacts
<1> QED BY <1>2, <1>3, <1>4 DEF LS

\* For every project, the slack is exactly how far a task can slip: no schedule on
\* any set of days starts a task before its earliest start, nor, ending in time,
\* after its latest.
THEOREM SlackIsExactAlways == Spec => []SlackIsExact
<1>1. Init => ExactInv BY DEF Init, GraphInit, ExactInv
<1> QED BY <1>1, InitIInv, StepIInv, StepExactInv, ExactAtTheEnd, PTL DEF Spec

-----------------------------------------------------------------------------
(* The order is the least.  At every place stands the least task that could  *)
(* stand there; and where the sort gives up, some tasks wait for each other. *)

Placed(i) == {order[j] : j \in 1..(i - 1)}
Greedy ==
  \A i \in DOMAIN order : \A t \in Tasks :
    t \notin Placed(i) /\ (\A k \in Places : Deps[k].task = t => Deps[k].on \in Placed(i)) => order[i] <= t
Stuck(R) == R # {} /\ \A t \in R : \E k \in Places : Deps[k].task = t /\ Deps[k].on \in R

LeastInv ==
  /\ pc \in {"sort", "sorted"} => Greedy
  /\ pc = "cycle" \/ (pc = "search" /\ input.ask = "schedule") => \E R \in SUBSET Tasks : Stuck(R)

LEMMA PopIsGreedy == ASSUME TInv, OrderInv, Greedy, Pop PROVE Greedy'
<1>1. PICK id \in ready : order' = Append(order, id) /\ \A r \in ready : id <= r BY DEF Pop
<1>2. Waits BY DEF Pop, OrderInv
<1>3. id \in Ids BY <1>2, InputFacts DEF Waits, TInv
<1>4. order \in Seq(Ids) /\ Len(order) \in Nat /\ DOMAIN order = 1..Len(order) BY DEF TInv, TypeOK
<1>5. /\ DOMAIN order' = 1..(Len(order) + 1) /\ order'[Len(order) + 1] = id
      /\ \A i \in 1..Len(order) : order'[i] = order[i]
  BY <1>1, <1>3, <1>4, AppendProperties
<1>6. input' = input BY DEF Pop
<1>7. Places' = Places /\ Tasks' = Tasks /\ Deps' = Deps BY <1>6 DEF Places, Tasks, Deps
<1>8. \A i \in 1..(Len(order) + 1) : Placed(i)' = Placed(i) BY <1>4, <1>5 DEF Placed
<1>9. Placed(Len(order) + 1) = Elements(order) BY <1>4 DEF Placed, Elements
<1> SUFFICES ASSUME NEW i \in 1..(Len(order) + 1), NEW t \in Tasks, t \notin Placed(i),
                    \A k \in Places : Deps[k].task = t => Deps[k].on \in Placed(i)
             PROVE  order'[i] <= t
  BY <1>5, <1>7, <1>8 DEF Greedy
<1>10. CASE i \in 1..Len(order) BY <1>4, <1>5, <1>10 DEF Greedy
<1>11. CASE i = Len(order) + 1
  <2>1. t \notin Elements(order) /\ waiting[t] = {} BY <1>2, <1>9, <1>11 DEF Waits
  <2>2. t \in ready BY <1>2, <2>1 DEF Waits
  <2> QED BY <1>1, <1>5, <1>11, <2>2
<1> QED BY <1>4, <1>10, <1>11

LEMMA LeftoversAreStuck == ASSUME TInv, OrderInv, Unsorted PROVE Stuck(Tasks \ Elements(order))
<1> DEFINE R == Tasks \ Elements(order)
<1>1. Shape /\ Once /\ Waits /\ ready = {} /\ Len(order) # Cardinality(Tasks) BY DEF Unsorted, OrderInv
<1>2. R # {}
  <2>1. SUFFICES ASSUME R = {} PROVE FALSE OBVIOUS
  <2>2. Elements(order) = Tasks BY <1>1, <2>1 DEF Once
  <2> QED BY <1>1, <2>2 DEF Once
<1>3. ASSUME NEW t \in R PROVE \E k \in Places : Deps[k].task = t /\ Deps[k].on \in R
  <2>1. waiting[t] # {} BY <1>1 DEF Waits
  <2>2. PICK k \in Places : Deps[k].task = t /\ Deps[k].on \notin Elements(order) BY <1>1, <2>1 DEF Waits
  <2>3. Deps[k].on \in Tasks BY <1>1 DEF Shape, Known
  <2> QED BY <2>2, <2>3
<1> QED BY <1>2, <1>3 DEF Stuck

LEMMA StepLeastInv == TInv /\ OrderInv /\ LeastInv /\ [Next]_vars => LeastInv'
<1> SUFFICES ASSUME TInv, OrderInv, LeastInv, [Next]_vars PROVE LeastInv' OBVIOUS
<1>0. input' = input
  BY DEF Next, GraphNext, Validate, Refuse, SelfCycle, Build, Pop, Sorted, Unsorted, Root, Look, Return, Searched,
         Begin, Forward, Turn, Backward, Finish, vars, graph
<1>1. Places' = Places /\ Tasks' = Tasks /\ Deps' = Deps BY <1>0 DEF Places, Tasks, Deps
<1>2. \A R : Stuck(R)' <=> Stuck(R) BY <1>1 DEF Stuck
<1>3. CASE Build
  <2>1. order' = << >> /\ pc' = "sort" BY <1>3 DEF Build, OrderInv
  <2>2. DOMAIN order' = {} BY <2>1
  <2> QED BY <2>1, <2>2 DEF LeastInv, Greedy
<1>4. CASE Pop
  <2>1. pc = "sort" /\ pc' = "sort" BY <1>4 DEF Pop
  <2> QED BY <1>4, <2>1, PopIsGreedy DEF LeastInv
<1>5. CASE SelfCycle
  <2>1. PICK k \in Places : Self(k) BY <1>5 DEF SelfCycle
  <2>2. Known(k) /\ pc' = "cycle" BY <1>5 DEF SelfCycle
  <2>3. {Deps[k].task} \in SUBSET Tasks /\ Stuck({Deps[k].task}) BY <2>1, <2>2 DEF Known, Self, Stuck
  <2> QED BY <1>1, <1>2, <2>2, <2>3 DEF LeastInv
<1>6. CASE Unsorted
  <2>1. pc' = "search" /\ Stuck(Tasks \ Elements(order)) BY <1>6, LeftoversAreStuck DEF Unsorted, Search
  <2>2. Tasks \ Elements(order) \in SUBSET Tasks OBVIOUS
  <2> QED BY <1>1, <1>2, <2>1, <2>2 DEF LeastInv
<1>7. CASE Validate
  <2>1. pc' = "search" /\ input'.ask = "validate" BY <1>0, <1>7 DEF Validate, Search
  <2> QED BY <2>1 DEF LeastInv
<1>8. CASE Sorted \/ UNCHANGED vars \/ Root \/ Look \/ Return \/ Searched
  <2>1. order' = order BY <1>8 DEF Sorted, vars, graph, Root, Look, Return, Searched, sorting
  <2>2. \A i : Placed(i)' = Placed(i) BY <2>1 DEF Placed
  <2>3. Greedy' <=> Greedy BY <1>1, <2>1, <2>2 DEF Greedy
  <2>4. \/ pc' = pc
        \/ pc = "sort" /\ pc' = "sorted"
        \/ pc = "search" /\ pc' = IF input.ask = "schedule" THEN "cycle" ELSE "verdict"
    BY <1>8 DEF Sorted, vars, graph, Root, Look, Return, Searched
  <2> QED BY <1>0, <1>1, <1>2, <2>3, <2>4 DEF LeastInv
<1>9. CASE Refuse \/ Begin \/ Forward \/ Turn \/ Backward \/ Finish
  <2>1. pc' \in {"unknown", "forward", "backward", "done"}
    BY <1>9 DEF Refuse, Begin, Forward, Turn, Backward, Finish, graph
  <2> QED BY <2>1 DEF LeastInv
<1> QED BY <1>3, <1>4, <1>5, <1>6, <1>7, <1>8, <1>9 DEF Next, GraphNext

\* Tasks that wait for each other are in no order: the first of them would have
\* to come after another.
LEMMA StuckHasNoOrder ==
  ASSUME input \in Inputs, NEW R \in SUBSET Tasks, Stuck(R)
  PROVE  Orders = {}
<1> SUFFICES ASSUME NEW p \in Orders PROVE FALSE OBVIOUS
<1> DEFINE N == Cardinality(Tasks)
           I == {i \in 1..N : p[i] \in R}
<1>1. /\ p \in [1..N -> Tasks] /\ Elements(p) = Tasks /\ N \in Nat
      /\ \A k \in Places : \A i, j \in 1..N : p[i] = Deps[k].task /\ p[j] = Deps[k].on => j < i
  BY InputFacts, FS_CardinalityType DEF Orders
<1>2. \A t \in Tasks : \E i \in 1..N : p[i] = t BY <1>1 DEF Elements
<1>3. I # {} BY <1>2 DEF Stuck
<1>4. IsFiniteSet(I) /\ I \subseteq Int
  <2> HIDE DEF N
  <2>1. I \subseteq 1..N /\ 1..N \subseteq Int OBVIOUS
  <2>2. IsFiniteSet(1..N) BY <1>1, FS_Interval
  <2> QED BY <2>1, <2>2, FS_Subset
<1> DEFINE i == Least(I)
<1>5. i \in I /\ \A j \in I : i <= j
  <2> HIDE DEF I
  <2> QED BY <1>3, <1>4, LeastExists
<1> HIDE DEF i
<1>6. PICK k \in Places : Deps[k].task = p[i] /\ Deps[k].on \in R BY <1>5 DEF Stuck
<1>7. PICK j \in 1..N : p[j] = Deps[k].on BY <1>2, <1>6
<1>8. j < i /\ j \in I BY <1>1, <1>5, <1>6, <1>7
<1> QED BY <1>1, <1>5, <1>8

LEMMA SortedIsOrder ==
  ASSUME TInv, After, Once, Elements(order) = Tasks
  PROVE  order \in Orders
<1>1. order \in Seq(Ids) /\ DOMAIN order = 1..Len(order) /\ Len(order) \in Nat BY DEF TInv, TypeOK
<1>2. Len(order) = Cardinality(Tasks) BY DEF Once
<1>3. \A i \in 1..Len(order) : order[i] \in Tasks BY <1>1 DEF Elements
<1>4. order \in [1..Cardinality(Tasks) -> Tasks] BY <1>1, <1>2, <1>3
<1>5. ASSUME NEW k \in Places, NEW i \in DOMAIN order, NEW j \in DOMAIN order,
             order[i] = Deps[k].task, order[j] = Deps[k].on
      PROVE  j < i
  <2>1. PICK m \in 1..(i - 1) : order[m] = Deps[k].on BY <1>5 DEF After
  <2>2. m \in DOMAIN order /\ m < i BY <1>1, <2>1
  <2>3. m = j BY <1>5, <2>1, <2>2 DEF Once
  <2> QED BY <2>2, <2>3
<1> QED BY <1>4, <1>5 DEF Orders

LEMMA UpToFinite == ASSUME NEW n \in Nat PROVE IsFiniteSet(1..n)
<1>1. 1 \in Int /\ n \in Int OBVIOUS
<1> QED BY <1>1, FS_Interval

LEMMA SortedIsLeast ==
  ASSUME TInv, Shape, After, Once, Elements(order) = Tasks, Greedy, NEW p \in Orders, p # order
  PROVE  Before(order, p)
<1> DEFINE N == Cardinality(Tasks)
           D == {i \in 1..N : p[i] # order[i]}
<1>1. /\ p \in [1..N -> Tasks] /\ Elements(p) = Tasks /\ N \in Nat /\ IsFiniteSet(Tasks)
      /\ \A k \in Places : \A i, j \in 1..N : p[i] = Deps[k].task /\ p[j] = Deps[k].on => j < i
  BY InputFacts, FS_CardinalityType DEF Orders, TInv
<1>2. order \in [1..N -> Tasks] BY SortedIsOrder DEF Orders
<1>3. D # {} BY <1>1, <1>2
<1>4. IsFiniteSet(D) /\ D \subseteq Int
  <2> HIDE DEF N
  <2>1. D \subseteq 1..N /\ 1..N \subseteq Int OBVIOUS
  <2>2. N \in Nat BY <1>1
  <2>3. IsFiniteSet(1..N) BY <2>2, UpToFinite
  <2> QED BY <2>1, <2>3, FS_Subset
<1> DEFINE i == Least(D)
<1>5. i \in D /\ \A j \in D : i <= j
  <2> HIDE DEF D
  <2> QED BY <1>3, <1>4, LeastExists
<1> HIDE DEF i
<1>6. \A j \in 1..(i - 1) : j \in 1..N /\ p[j] = order[j] BY <1>1, <1>5
<1>7. \A m, n \in 1..N : p[m] = p[n] => m = n
  <2>1. p \in Surjection(1..N, Tasks) BY <1>1 DEF Surjection, Elements
  <2>2. IsFiniteSet(1..N) /\ Cardinality(1..N) = N BY <1>1, FS_Interval
  <2>3. p \in Injection(1..N, Tasks) BY <1>1, <2>1, <2>2, FS_SurjSameCardinalityImpliesInj
  <2> QED BY <2>3 DEF Injection, IsInjective
<1>8. p[i] \in Tasks /\ p[i] \notin Placed(i)
  <2>1. ASSUME NEW j \in 1..(i - 1), p[i] = order[j] PROVE FALSE
    <3>1. j \in 1..N /\ p[i] = p[j] /\ i \in 1..N BY <1>5, <1>6, <2>1
    <3>2. j # i BY <1>5
    <3> QED BY <1>7, <3>1, <3>2
  <2> QED BY <1>1, <1>5, <2>1 DEF Placed
<1>9. ASSUME NEW k \in Places, Deps[k].task = p[i] PROVE Deps[k].on \in Placed(i)
  <2>1. Deps[k].on \in Elements(p) BY <1>1 DEF Shape, Known
  <2>2. PICK j \in 1..N : p[j] = Deps[k].on BY <1>1, <2>1 DEF Elements
  <2>3. j < i BY <1>1, <1>5, <1>9, <2>2
  <2>4. j \in 1..(i - 1) BY <1>1, <1>5, <2>2, <2>3
  <2> QED BY <1>6, <2>2, <2>4 DEF Placed
<1>10. order[i] <= p[i] BY <1>2, <1>5, <1>8, <1>9 DEF Greedy
<1>11. order[i] \in Int /\ p[i] \in Int
  <2>1. order[i] \in Tasks /\ p[i] \in Tasks BY <1>1, <1>2, <1>5
  <2>2. Tasks \subseteq Ids BY InputFacts DEF TInv
  <2>3. \A t \in Ids : t \in Int BY IdsAssumption
  <2> HIDE DEF N, D
  <2> QED BY <2>1, <2>2, <2>3
<1>12. order[i] < p[i] BY <1>5, <1>10, <1>11
<1> QED BY <1>2, <1>5, <1>6, <1>12 DEF Before

\* topologicalSort returns, for every list of dependencies, the least of the orders
\* that keep them, task ids compared one by one, and throws a cycle only when there
\* is none: the least ready id at every place makes the least order.
THEOREM OrderIsLeastAlways == Spec => []OrderIsLeast
<1>1. Init => LeastInv BY DEF Init, GraphInit, LeastInv
<1>2. TInv /\ OrderInv /\ LeastInv => OrderIsLeast
  <2> SUFFICES ASSUME TInv, OrderInv, LeastInv PROVE OrderIsLeast OBVIOUS
  <2>1. ASSUME pc = "sorted" PROVE order \in Orders /\ \A p \in Orders : p = order \/ Before(order, p)
    BY <2>1, SortedIsOrder, SortedIsLeast DEF OrderInv, Later, LeastInv
  <2>2. ASSUME pc = "cycle" PROVE Orders = {} BY <2>2, StuckHasNoOrder DEF LeastInv, TInv
  <2> QED BY <2>1, <2>2 DEF OrderIsLeast
<1> QED BY <1>1, <1>2, InitTInv, StepTInv, InitOrderInv, StepOrderInv, StepLeastInv, PTL DEF Spec

-----------------------------------------------------------------------------
(* The search for cycles.  A node is open while its call runs and on the     *)
(* stack until its component is cut off.  The numbers order the stack; an    *)
(* open node leads to everything above it, a finished one on the stack to    *)
(* something below it, and nothing leads out of what was cut off.  The low   *)
(* number of an open node is that of a node it leads to, and not above that  *)
(* of any node on the stack that was looked at from it or from what is       *)
(* finished above it.  So a node whose low number is its own leads to        *)
(* nothing below, and what is above it is its component.                     *)

Edge(u, v) == \E k \in Places : Known(k) /\ Deps[k].on = u /\ Deps[k].task = v
Closed(S) == \A u \in S, v \in Tasks : Edge(u, v) => v \in S
Leads(u, v) == \A S \in SUBSET Tasks : u \in S /\ Closed(S) => v \in S
Component(v) == {t \in Tasks : Leads(v, t) /\ Leads(t, v)}

On == Elements(stack)
Caller(i) == calls[i].node
Open == {Caller(i) : i \in DOMAIN calls}

Numbered == \A v \in Visited : idx[v] \in Nat /\ idx[v] < Cardinality(Visited)
Ascends == \A p, q \in DOMAIN stack : p < q => idx[stack[p]] < idx[stack[q]]
CutOff == Closed(Visited \ On)
LookedAt ==
  /\ \A u \in On \ Open : Successors(u) \subseteq Visited
  /\ \A i \in DOMAIN calls : /\ calls[i].left \subseteq Successors(Caller(i))
                             /\ Successors(Caller(i)) \ calls[i].left \subseteq Visited
Upward == \A i \in DOMAIN calls, x \in On : idx[Caller(i)] <= idx[x] => Leads(Caller(i), x)
Downward == \A x \in On \ Open : \E y \in On : idx[y] < idx[x] /\ Leads(x, y)
LowReached ==
  \A i \in DOMAIN calls :
    /\ low[Caller(i)] \in Nat /\ low[Caller(i)] <= idx[Caller(i)]
    /\ \E w \in On : low[Caller(i)] = idx[w] /\ Leads(Caller(i), w)
\* What is on the stack from an open node up to the next.
Above(i, x) == idx[Caller(i)] <= idx[x] /\ (i + 1 \in DOMAIN calls => idx[x] < idx[Caller(i + 1)])
LowBounds ==
  \A i \in DOMAIN calls, x \in On : Above(i, x) =>
    \A w \in Successors(x) \cap On : (x = Caller(i) /\ w \in calls[i].left) \/ low[Caller(i)] <= idx[w]

IsSelf(S) == \E k \in Places : Known(k) /\ Self(k) /\ S = {Deps[k].task}
Found ==
  /\ \A c \in cycles : \/ IsSelf(Elements(c))
                       \/ /\ \E a, b \in Elements(c) : a # b
                          /\ \A t \in Elements(c) : t \in Tasks /\ Elements(c) = Component(t)
  /\ \A k \in Places : Known(k) /\ Self(k) => \E c \in cycles : Elements(c) = {Deps[k].task}
  /\ \A t \in Visited \ On : Component(t) = {t} \/ \E c \in cycles : Elements(c) = Component(t)

Stacked == Numbered /\ Ascends /\ CutOff /\ LookedAt /\ Upward /\ Downward /\ LowReached /\ LowBounds
TarjanInv ==
  /\ pc \in {"search", "verdict"} /\ input.ask = "validate" => nodes = Tasks /\ Stacked /\ Found
  /\ pc = "verdict" => input.ask = "validate" /\ calls = << >> /\ Visited = nodes
  /\ pc = "sort" => input.ask = "schedule"

LEMMA LeadsOn == ASSUME NEW u, NEW v, NEW w, Leads(u, v), Leads(v, w) PROVE Leads(u, w)
BY DEF Leads

LEMMA LeadsAlong == ASSUME NEW u, NEW v \in Tasks, u = v \/ Edge(u, v) PROVE Leads(u, v)
BY DEF Leads, Closed

LEMMA StaysInside == ASSUME NEW S \in SUBSET Tasks, Closed(S), NEW u \in S, NEW v, Leads(u, v) PROVE v \in S
BY DEF Leads

LEMMA SuccessorIs ==
  ASSUME nodes = Tasks, NEW v, NEW w
  PROVE  w \in Successors(v) <=> w \in Tasks /\ w # v /\ Edge(v, w)
<1>1. ASSUME w \in Successors(v) PROVE w \in Tasks /\ w # v /\ Edge(v, w)
  <2>1. PICK k \in Places : Known(k) /\ ~Self(k) /\ Deps[k].on = v /\ w = Deps[k].task BY <1>1 DEF Successors
  <2> QED BY <1>1, <2>1 DEF Successors, Edge, Self
<1>2. ASSUME w \in Tasks, w # v, Edge(v, w) PROVE w \in Successors(v)
  <2>1. PICK k \in Places : Known(k) /\ Deps[k].on = v /\ Deps[k].task = w BY <1>2 DEF Edge
  <2> QED BY <1>2, <2>1 DEF Successors, Self
<1> QED BY <1>1, <1>2

LEMMA GraphSame ==
  ASSUME input' = input
  PROVE  /\ Tasks' = Tasks /\ Places' = Places /\ Deps' = Deps
         /\ \A u, v : Leads(u, v)' <=> Leads(u, v)
         /\ \A S : Closed(S)' <=> Closed(S)
         /\ \A S : IsSelf(S)' <=> IsSelf(S)
         /\ \A v : Component(v)' = Component(v)
         /\ nodes' = nodes => \A v : Successors(v)' = Successors(v)
<1>1. Tasks' = Tasks /\ Places' = Places /\ Deps' = Deps BY DEF Tasks, Places, Deps
<1>2. \A k : Known(k)' <=> Known(k) BY <1>1 DEF Known
<1>3. \A u, v : Edge(u, v)' <=> Edge(u, v) BY <1>1, <1>2 DEF Edge
<1>4. \A S : Closed(S)' <=> Closed(S) BY <1>1, <1>3 DEF Closed
<1>5. \A u, v : Leads(u, v)' <=> Leads(u, v) BY <1>1, <1>4 DEF Leads
<1>6. \A v : Component(v)' = Component(v) BY <1>1, <1>5 DEF Component
<1>7. \A S : IsSelf(S)' <=> IsSelf(S) BY <1>1, <1>2 DEF IsSelf, Self
<1>8. nodes' = nodes => \A v : Successors(v)' = Successors(v) BY <1>1, <1>2 DEF Successors, Self
<1> QED BY <1>1, <1>4, <1>5, <1>6, <1>7, <1>8

\* The open nodes are on the stack, in the order of the calls.
LEMMA StackFacts ==
  ASSUME TInv, Numbered, Ascends, nodes = Tasks
  PROVE  /\ On \subseteq Visited /\ Visited \subseteq Tasks /\ Tasks \subseteq Ids
         /\ IsFiniteSet(Visited) /\ Cardinality(Visited) \in Nat
         /\ DOMAIN calls = 1..Len(calls) /\ Len(calls) \in Nat
         /\ \A i \in DOMAIN calls : Caller(i) \in On
         /\ \A x \in On : idx[x] \in Nat /\ idx[x] < Cardinality(Visited)
         /\ \A i, j \in DOMAIN calls : i < j => idx[Caller(i)] < idx[Caller(j)]
         /\ \A x, y \in On : idx[x] = idx[y] => x = y
<1>1. Tasks \subseteq Ids /\ IsFiniteSet(Tasks) BY InputFacts DEF TInv
<1>2. On \subseteq Visited BY DEF TInv, SearchInv, On, Elements
<1>3. Visited \subseteq Tasks BY DEF Visited
<1>4. IsFiniteSet(Visited) /\ Cardinality(Visited) \in Nat BY <1>1, <1>3, FS_Subset, FS_CardinalityType
<1>5. DOMAIN calls = 1..Len(calls) /\ Len(calls) \in Nat BY DEF TInv, TypeOK
<1>6. \A i \in DOMAIN calls : Caller(i) \in On BY DEF TInv, SearchInv, StackHolds, Caller, On, Elements
<1>7. \A x \in On : idx[x] \in Nat /\ idx[x] < Cardinality(Visited) BY <1>2 DEF Numbered
<1>8. ASSUME NEW i \in DOMAIN calls, NEW j \in DOMAIN calls, i < j PROVE idx[Caller(i)] < idx[Caller(j)]
  <2>1. PICK p \in DOMAIN stack : stack[p] = Caller(i) BY DEF TInv, SearchInv, StackHolds, Caller
  <2>2. PICK q \in DOMAIN stack : stack[q] = Caller(j) BY DEF TInv, SearchInv, StackHolds, Caller
  <2>3. p < q BY <1>8, <2>1, <2>2 DEF TInv, SearchInv, StackHolds, Caller
  <2> QED BY <2>1, <2>2, <2>3 DEF Ascends
<1>9. ASSUME NEW x \in On, NEW y \in On, idx[x] = idx[y] PROVE x = y
  <2>1. PICK p \in DOMAIN stack : stack[p] = x BY DEF On, Elements
  <2>2. PICK q \in DOMAIN stack : stack[q] = y BY DEF On, Elements
  <2>3. DOMAIN stack = 1..Len(stack) /\ Len(stack) \in Nat BY DEF TInv, TypeOK
  <2>4. p \in Int /\ q \in Int BY <2>3
  <2>5. CASE p < q BY <1>7, <1>9, <2>1, <2>2, <2>5 DEF Ascends
  <2>6. CASE q < p BY <1>7, <1>9, <2>1, <2>2, <2>6 DEF Ascends
  <2>7. CASE p = q BY <2>1, <2>2, <2>7
  <2> QED BY <2>4, <2>5, <2>6, <2>7
<1> QED BY <1>1, <1>2, <1>3, <1>4, <1>5, <1>6, <1>7, <1>8, <1>9

\* A call is entered, from outside or from the call on top.
LEMMA EnterStacked ==
  ASSUME TInv, Stacked, nodes = Tasks, input' = input, nodes' = nodes,
         NEW v \in Tasks, v \notin Visited, NEW n, n = Len(calls), NEW N, N = Cardinality(Visited),
         stack' = Append(stack, v), idx' = [idx EXCEPT ![v] = N], low' = [low EXCEPT ![v] = N],
         DOMAIN calls' = 1..(n + 1), Caller(n + 1)' = v, calls'[n + 1].left = Successors(v),
         \A i \in 1..n : Caller(i)' = Caller(i),
         \A i \in 1..(n - 1) : calls'[i].left = calls[i].left,
         n # 0 => v \in calls[n].left /\ calls'[n].left = calls[n].left \ {v}
  PROVE  Stacked' /\ On' = On \cup {v} /\ Visited' = Visited \cup {v}
<1> USE DEF Stacked
<1>0. /\ On \subseteq Visited /\ Visited \subseteq Tasks /\ Tasks \subseteq Ids
      /\ IsFiniteSet(Visited) /\ N \in Nat
      /\ DOMAIN calls = 1..n /\ n \in Nat
      /\ \A i \in 1..n : Caller(i) \in On
      /\ \A x \in On : idx[x] \in Nat /\ idx[x] < N
      /\ \A i, j \in 1..n : i < j => idx[Caller(i)] < idx[Caller(j)]
  BY StackFacts
<1>1. /\ Tasks' = Tasks
      /\ \A u, w : Leads(u, w)' <=> Leads(u, w)
      /\ \A S : Closed(S)' <=> Closed(S)
      /\ \A u : Successors(u)' = Successors(u)
  BY GraphSame
<1>2. /\ idx'[v] = N /\ low'[v] = N /\ \A x \in Ids : x # v => idx'[x] = idx[x] /\ low'[x] = low[x]
  BY <1>0 DEF TInv, TypeOK
<1>3. /\ stack \in Seq(Ids) /\ DOMAIN stack = 1..Len(stack) /\ Len(stack) \in Nat /\ v \in Ids
  BY <1>0 DEF TInv, TypeOK
<1>4. /\ DOMAIN stack' = 1..(Len(stack) + 1) /\ stack'[Len(stack) + 1] = v
      /\ \A p \in 1..Len(stack) : stack'[p] = stack[p]
  BY <1>3, AppendProperties
<1>5. On' = On \cup {v}
  <2>1. On' \subseteq On \cup {v} BY <1>3, <1>4 DEF On, Elements
  <2>2. On \subseteq On' BY <1>3, <1>4 DEF On, Elements
  <2>3. Len(stack) + 1 \in DOMAIN stack' BY <1>3, <1>4
  <2>4. v \in On' BY <1>4, <2>3 DEF On, Elements
  <2> QED BY <2>1, <2>2, <2>4
<1>6. Visited' = Visited \cup {v}
  <2>1. N # None BY <1>0, IdsAssumption
  <2> QED BY <1>0, <1>1, <1>2, <2>1 DEF Visited
<1>7. v \notin On /\ \A x \in On : x # v /\ x \in Ids BY <1>0
<1>8. \A x \in On : idx'[x] = idx[x] /\ low'[x] = low[x] BY <1>2, <1>7
<1>9. \A i \in 1..n : Caller(i) \in On /\ idx'[Caller(i)] = idx[Caller(i)] /\ low'[Caller(i)] = low[Caller(i)]
  BY <1>0, <1>8
<1>10. \A i \in 1..(n + 1) : i \in 1..n \/ i = n + 1 BY <1>0
<1>11. \A i \in 1..n : calls'[i].left = calls[i].left \ {v} \/ (i # n /\ calls'[i].left = calls[i].left)
  BY <1>0
<1>12. Numbered'
  <2>1. Cardinality(Visited') = N + 1 BY <1>0, <1>6, FS_AddElement
  <2> QED BY <1>0, <1>2, <1>6, <2>1 DEF Numbered
<1>13. Ascends'
  <2> SUFFICES ASSUME NEW p \in 1..(Len(stack) + 1), NEW q \in 1..(Len(stack) + 1), p < q
               PROVE  idx'[stack'[p]] < idx'[stack'[q]]
    BY <1>4 DEF Ascends
  <2>1. p \in 1..Len(stack) /\ stack[p] \in On BY <1>3 DEF On, Elements
  <2>2. CASE q = Len(stack) + 1 BY <1>0, <1>2, <1>4, <1>8, <2>1, <2>2
  <2>3. CASE q \in 1..Len(stack)
    <3>1. stack[q] \in On /\ idx[stack[p]] < idx[stack[q]] BY <1>3, <2>1, <2>3 DEF On, Elements, Ascends
    <3> QED BY <1>4, <1>8, <2>1, <2>3, <3>1
  <2> QED BY <1>3, <2>2, <2>3
<1>14. CutOff'
  <2>1. Visited' \ On' = Visited \ On BY <1>0, <1>5, <1>6
  <2> QED BY <1>1, <2>1 DEF CutOff
<1>15. Open' = Open \cup {v}
  <2>1. Open' \subseteq Open \cup {v} BY <1>0, <1>10 DEF Open
  <2>2. n + 1 \in DOMAIN calls' /\ 1..n \subseteq DOMAIN calls' BY <1>0
  <2>3. v \in Open' BY <2>2 DEF Open
  <2>4. Open \subseteq Open' BY <1>0, <2>2 DEF Open
  <2> QED BY <2>1, <2>3, <2>4
<1>16. LookedAt'
  <2>1. ASSUME NEW u \in On' \ Open' PROVE Successors(u)' \subseteq Visited'
    BY <1>1, <1>5, <1>6, <1>15 DEF LookedAt
  <2>2. ASSUME NEW i \in 1..(n + 1)
        PROVE  /\ calls'[i].left \subseteq Successors(Caller(i))' /\ Successors(Caller(i))' \ calls'[i].left \subseteq Visited'
    <3>1. CASE i \in 1..n
      <4>1. calls[i].left \subseteq Successors(Caller(i)) /\ Successors(Caller(i)) \ calls[i].left \subseteq Visited
        BY <1>0, <3>1 DEF LookedAt
      <4>2. Successors(Caller(i))' = Successors(Caller(i)) BY <1>1, <3>1
      <4> QED BY <1>6, <1>11, <3>1, <4>1, <4>2
    <3>2. CASE i = n + 1 BY <1>1, <3>2
    <3> QED BY <1>10, <3>1, <3>2
  <2> QED BY <2>1, <2>2 DEF LookedAt
<1>17. Upward'
  <2> SUFFICES ASSUME NEW i \in 1..(n + 1), NEW x \in On', idx'[Caller(i)'] <= idx'[x] PROVE Leads(Caller(i)', x)
    BY <1>1 DEF Upward
  <2>1. CASE i \in 1..n /\ x \in On
    <3>1. idx[Caller(i)] <= idx[x] BY <1>8, <1>9, <2>1
    <3>2. Leads(Caller(i), x) BY <1>0, <2>1, <3>1 DEF Upward
    <3> QED BY <2>1, <3>2
  <2>2. CASE i \in 1..n /\ x = v
    <3>1. n \in 1..n /\ (i = n \/ i < n) BY <1>0, <2>2
    <3>2. idx[Caller(i)] <= idx[Caller(n)] BY <1>0, <2>2, <3>1
    <3>3. Leads(Caller(i), Caller(n)) BY <1>0, <2>2, <3>1, <3>2 DEF Upward
    <3>4. v \in Successors(Caller(n)) BY <1>0, <3>1 DEF LookedAt
    <3>5. Leads(Caller(n), v) BY <3>4, SuccessorIs, LeadsAlong
    <3> QED BY <2>2, <3>3, <3>5, LeadsOn
  <2>3. CASE i = n + 1
    <3>1. x = v BY <1>0, <1>2, <1>5, <1>8, <2>3
    <3> QED BY <2>3, <3>1, LeadsAlong
  <2> QED BY <1>5, <1>10, <2>1, <2>2, <2>3
<1>18. Downward'
  <2> SUFFICES ASSUME NEW x \in On' \ Open' PROVE \E y \in On' : idx'[y] < idx'[x] /\ Leads(x, y)
    BY <1>1 DEF Downward
  <2>1. x \in On \ Open BY <1>5, <1>15
  <2>2. PICK y \in On : idx[y] < idx[x] /\ Leads(x, y) BY <2>1 DEF Downward
  <2> QED BY <1>5, <1>8, <2>1, <2>2
<1>19. LowReached'
  <2> SUFFICES ASSUME NEW i \in 1..(n + 1)
               PROVE  /\ low'[Caller(i)'] \in Nat /\ low'[Caller(i)'] <= idx'[Caller(i)']
                      /\ \E w \in On' : low'[Caller(i)'] = idx'[w] /\ Leads(Caller(i)', w)
    BY <1>1 DEF LowReached
  <2>1. CASE i \in 1..n
    <3>1. PICK w \in On : low[Caller(i)] = idx[w] /\ Leads(Caller(i), w) BY <1>0, <2>1 DEF LowReached
    <3> QED BY <1>0, <1>5, <1>8, <1>9, <2>1, <3>1 DEF LowReached
  <2>2. CASE i = n + 1 BY <1>0, <1>2, <1>5, <2>2, LeadsAlong
  <2> QED BY <1>10, <2>1, <2>2
<1>20. LowBounds'
  <2> SUFFICES ASSUME NEW i \in 1..(n + 1), NEW x \in On', Above(i, x)', NEW w \in Successors(x), w \in On'
               PROVE  (x = Caller(i)' /\ w \in calls'[i].left) \/ low'[Caller(i)'] <= idx'[w]
    BY <1>1 DEF LowBounds
  <2>1. CASE i = n + 1
    <3>1. idx'[v] <= idx'[x] BY <2>1 DEF Above
    <3>2. x = v BY <1>0, <1>2, <1>5, <1>8, <3>1
    <3> QED BY <2>1, <3>2
  <2>2. CASE i \in 1..n
    <3>1. i + 1 \in DOMAIN calls' BY <1>0, <2>2
    <3>2. idx[Caller(i)] <= idx'[x] /\ idx'[x] < idx'[Caller(i + 1)'] BY <1>9, <2>2, <3>1 DEF Above
    <3>3. idx'[Caller(i + 1)'] <= N
      <4>1. CASE i = n BY <1>0, <1>2, <4>1
      <4>2. CASE i # n
        <5>1. i + 1 \in 1..n BY <1>0, <2>2, <4>2
        <5> QED BY <1>0, <1>9, <5>1
      <4> QED BY <4>1, <4>2
    <3>4. x \in On
      <4>1. ASSUME x = v PROVE FALSE
        <5>1. idx'[x] = N BY <1>2, <4>1
        <5>2. i + 1 \in 1..n \/ i + 1 = n + 1 BY <1>0, <2>2
        <5>3. idx'[Caller(i + 1)'] \in Nat BY <1>0, <1>2, <1>9, <5>2
        <5> QED BY <1>0, <3>2, <3>3, <5>1, <5>3
      <4> QED BY <1>5, <4>1
    <3>5. Above(i, x)
      <4>1. idx[Caller(i)] <= idx[x] BY <1>8, <3>2, <3>4
      <4>2. ASSUME i + 1 \in 1..n PROVE idx[x] < idx[Caller(i + 1)] BY <1>8, <1>9, <3>2, <3>4, <4>2
      <4> QED BY <1>0, <4>1, <4>2 DEF Above
    <3>6. CASE w = v
      <4>1. low[Caller(i)] \in Nat /\ low[Caller(i)] <= idx[Caller(i)] /\ idx[Caller(i)] \in Nat /\ idx[Caller(i)] < N
        BY <1>0, <2>2 DEF LowReached
      <4> QED BY <1>0, <1>2, <1>9, <2>2, <3>6, <4>1
    <3>7. CASE w \in On
      <4>1. (x = Caller(i) /\ w \in calls[i].left) \/ low[Caller(i)] <= idx[w]
        BY <1>0, <2>2, <3>4, <3>5, <3>7 DEF LowBounds
      <4> QED BY <1>7, <1>8, <1>9, <1>11, <2>2, <3>7, <4>1
    <3> QED BY <1>5, <3>6, <3>7
  <2> QED BY <1>10, <2>1, <2>2
<1> QED BY <1>5, <1>6, <1>12, <1>13, <1>14, <1>16, <1>17, <1>18, <1>19, <1>20

\* The call on top looks at a node that has been visited.
LEMMA BackStacked ==
  ASSUME TInv, Stacked, nodes = Tasks, input' = input, nodes' = nodes,
         NEW n, n = Len(calls), n \in DOMAIN calls, NEW w \in calls[n].left, w \in Visited,
         idx' = idx, stack' = stack, BackEdge(Caller(n), w), DOMAIN calls' = DOMAIN calls,
         \A i \in DOMAIN calls : Caller(i)' = Caller(i),
         \A i \in DOMAIN calls : calls'[i].left = IF i = n THEN calls[n].left \ {w} ELSE calls[i].left
  PROVE  Stacked' /\ On' = On /\ Visited' = Visited
<1> USE DEF Stacked
<1> DEFINE v == Caller(n)
<1>0. /\ On \subseteq Visited /\ Visited \subseteq Tasks /\ Tasks \subseteq Ids
      /\ DOMAIN calls = 1..n /\ n \in Nat
      /\ \A i \in 1..n : Caller(i) \in On
      /\ \A x \in On : idx[x] \in Nat
      /\ \A i, j \in 1..n : i < j => idx[Caller(i)] < idx[Caller(j)]
  BY StackFacts
<1>1. /\ Tasks' = Tasks
      /\ \A u, x : Leads(u, x)' <=> Leads(u, x)
      /\ \A S : Closed(S)' <=> Closed(S)
      /\ \A u : Successors(u)' = Successors(u)
  BY GraphSame
<1>2. On' = On /\ Visited' = Visited /\ Open' = Open
  BY DEF On, Elements, Visited, Open
<1>3. v \in On /\ v \in Ids /\ low[v] \in Nat /\ low[v] <= idx[v] BY <1>0 DEF LowReached
<1>4. w \in Successors(v) BY DEF LookedAt
<1>5. Leads(v, w) BY <1>4, SuccessorIs, LeadsAlong
<1>6. /\ low'[v] = low[v] \/ (w \in On /\ low'[v] = idx[w])
      /\ low'[v] \in Nat /\ low'[v] <= low[v] /\ (w \in On => low'[v] <= idx[w])
      /\ \A x \in Ids : x # v => low'[x] = low[x]
  <2>1. low \in [Ids -> Nat \cup {None}] BY DEF TInv, TypeOK
  <2>2. CASE w \in On
    <3>1. low' = [low EXCEPT ![v] = Less(low[v], idx[w])] BY <1>3, <2>1, <2>2 DEF BackEdge, On
    <3>2. idx[w] \in Nat BY <1>0, <2>2
    <3>3. low'[v] = Less(low[v], idx[w]) BY <1>3, <2>1, <3>1
    <3>4. \A x \in Ids : x # v => low'[x] = low[x] BY <1>3, <2>1, <3>1
    <3> QED BY <1>3, <2>2, <3>2, <3>3, <3>4 DEF Less
  <2>3. CASE w \notin On
    <3>1. low' = low BY <2>3 DEF BackEdge, On
    <3> QED BY <1>3, <2>3, <3>1
  <2> QED BY <2>2, <2>3
<1>7. \A i \in 1..n : i # n => Caller(i) # v /\ low'[Caller(i)] = low[Caller(i)]
  <2> SUFFICES ASSUME NEW i \in 1..n, i # n PROVE Caller(i) # v /\ low'[Caller(i)] = low[Caller(i)] OBVIOUS
  <2>1. i < n /\ n \in 1..n BY <1>0
  <2>2. idx[Caller(i)] < idx[v] /\ idx[v] \in Nat /\ Caller(i) \in Ids BY <1>0, <2>1
  <2> QED BY <1>6, <2>2
<1> HIDE DEF v
<1>8. Numbered' /\ Ascends' /\ CutOff' BY <1>1, <1>2 DEF Numbered, Ascends, CutOff
<1>9. LookedAt'
  <2>1. ASSUME NEW u \in On' \ Open' PROVE Successors(u)' \subseteq Visited' BY <1>1, <1>2 DEF LookedAt
  <2>2. ASSUME NEW i \in DOMAIN calls
        PROVE  /\ calls'[i].left \subseteq Successors(Caller(i))' /\ Successors(Caller(i))' \ calls'[i].left \subseteq Visited'
    <3>1. calls[i].left \subseteq Successors(Caller(i)) /\ Successors(Caller(i)) \ calls[i].left \subseteq Visited
      BY DEF LookedAt
    <3>2. Successors(Caller(i))' = Successors(Caller(i)) BY <1>1
    <3> QED BY <1>2, <3>1, <3>2
  <2> QED BY <2>1, <2>2 DEF LookedAt
<1>10. Upward' BY <1>1, <1>2 DEF Upward
<1>11. Downward' BY <1>1, <1>2 DEF Downward
<1>12. LowReached'
  <2> SUFFICES ASSUME NEW i \in 1..n
               PROVE  /\ low'[Caller(i)] \in Nat /\ low'[Caller(i)] <= idx[Caller(i)]
                      /\ \E x \in On : low'[Caller(i)] = idx[x] /\ Leads(Caller(i), x)
    BY <1>0, <1>1, <1>2 DEF LowReached
  <2>1. CASE i # n BY <1>0, <1>7, <2>1 DEF LowReached
  <2>2. CASE i = n
    <3>1. low'[v] \in Nat /\ low'[v] <= idx[v] /\ Caller(i) = v BY <1>0, <1>3, <1>6, <2>2 DEF v
    <3>2. \E x \in On : low'[v] = idx[x] /\ Leads(v, x) BY <1>0, <1>5, <1>6 DEF LowReached, v
    <3> QED BY <3>1, <3>2
  <2> QED BY <2>1, <2>2
<1>13. LowBounds'
  <2>1. \A i \in 1..n, x \in On : Above(i, x)' <=> Above(i, x)
    BY <1>0 DEF Above
  <2> SUFFICES ASSUME NEW i \in 1..n, NEW x \in On, Above(i, x), NEW u \in Successors(x), u \in On
               PROVE  (x = Caller(i) /\ u \in calls'[i].left) \/ low'[Caller(i)] <= idx[u]
    BY <1>0, <1>1, <1>2, <2>1 DEF LowBounds
  <2>2. (x = Caller(i) /\ u \in calls[i].left) \/ low[Caller(i)] <= idx[u] BY <1>0 DEF LowBounds
  <2>3. CASE i # n BY <1>0, <1>7, <2>2, <2>3
  <2>4. CASE i = n
    <3>1. Caller(i) = v /\ idx[u] \in Nat BY <1>0, <2>4 DEF v
    <3>2. CASE u = w BY <1>6, <3>1, <3>2
    <3>3. CASE u # w BY <1>0, <1>3, <1>6, <2>2, <2>4, <3>1, <3>3
    <3> QED BY <3>2, <3>3
  <2> QED BY <2>3, <2>4
<1> QED BY <1>2, <1>8, <1>9, <1>10, <1>11, <1>12, <1>13

\* What the end of the call on top leaves of the calls, and of the low numbers.
Ends(n) ==
  /\ n = Len(calls) /\ n \in DOMAIN calls /\ calls[n].left = {}
  /\ DOMAIN calls' = 1..(n - 1) /\ \A i \in 1..(n - 1) : calls'[i] = calls[i]
  /\ idx' = idx
  /\ low' = IF n = 1 THEN low ELSE [low EXCEPT ![Caller(n - 1)] = Less(@, low[Caller(n)])]

LEMMA LowAfter ==
  ASSUME TInv, Stacked, nodes = Tasks, NEW n, Ends(n)
  PROVE  /\ \A i \in 1..(n - 1) : i # n - 1 => low'[Caller(i)] = low[Caller(i)]
         /\ n # 1 => low'[Caller(n - 1)] = Less(low[Caller(n - 1)], low[Caller(n)])
<1>0. /\ Visited \subseteq Tasks /\ On \subseteq Visited /\ Tasks \subseteq Ids /\ DOMAIN calls = 1..n /\ n \in Nat
      /\ \A i \in 1..n : Caller(i) \in On
      /\ \A x \in On : idx[x] \in Nat
      /\ \A i, j \in 1..n : i < j => idx[Caller(i)] < idx[Caller(j)]
  BY StackFacts DEF Stacked, Ends
<1>1. low \in [Ids -> Nat \cup {None}] BY DEF TInv, TypeOK
<1>2. CASE n = 1 BY <1>2 DEF Ends
<1>3. CASE n # 1
  <2>1. n - 1 \in 1..n /\ n \in 1..n BY <1>0, <1>3 DEF Ends
  <2>2. Caller(n - 1) \in Ids BY <1>0, <2>1
  <2>3. low' = [low EXCEPT ![Caller(n - 1)] = Less(low[Caller(n - 1)], low[Caller(n)])] BY <1>1, <1>3, <2>2 DEF Ends
  <2>4. ASSUME NEW i \in 1..(n - 1), i # n - 1 PROVE low'[Caller(i)] = low[Caller(i)]
    <3>1. i \in 1..n /\ i < n - 1 BY <1>0, <2>4
    <3>2. idx[Caller(i)] < idx[Caller(n - 1)] /\ idx[Caller(i)] \in Nat BY <1>0, <2>1, <3>1
    <3>3. Caller(i) # Caller(n - 1) /\ Caller(i) \in Ids BY <1>0, <3>1, <3>2
    <3> QED BY <1>1, <2>2, <2>3, <3>3
  <2> QED BY <1>1, <2>2, <2>3, <2>4
<1> QED BY <1>2, <1>3

\* A call ends that is not the root of its component: its node stays.
LEMMA StayStacked ==
  ASSUME TInv, Stacked, nodes = Tasks, input' = input, nodes' = nodes,
         NEW n, Ends(n), low[Caller(n)] # idx[Caller(n)], stack' = stack
  PROVE  Stacked' /\ On' = On /\ Visited' = Visited
<1> USE DEF Stacked
<1> DEFINE v == Caller(n)
<1>0. /\ On \subseteq Visited /\ Visited \subseteq Tasks /\ Tasks \subseteq Ids
      /\ DOMAIN calls = 1..n /\ n \in Nat
      /\ \A i \in 1..n : Caller(i) \in On
      /\ \A x \in On : idx[x] \in Nat
      /\ \A i, j \in 1..n : i < j => idx[Caller(i)] < idx[Caller(j)]
  BY StackFacts DEF Ends
<1>1. /\ Tasks' = Tasks
      /\ \A u, x : Leads(u, x)' <=> Leads(u, x)
      /\ \A S : Closed(S)' <=> Closed(S)
      /\ \A u : Successors(u)' = Successors(u)
  BY GraphSame
<1>2. On' = On /\ Visited' = Visited /\ idx' = idx BY DEF On, Elements, Visited, Ends
<1>3. n \in 1..n /\ v \in On /\ low[v] \in Nat /\ low[v] < idx[v] /\ calls[n].left = {}
  <2>1. n \in 1..n /\ calls[n].left = {} BY <1>0 DEF Ends
  <2> QED BY <1>0, <2>1 DEF LowReached
<1>4. \A i \in 1..(n - 1) : i \in 1..n /\ Caller(i)' = Caller(i) /\ calls'[i] = calls[i]
  BY <1>0 DEF Ends, Caller
<1>5. DOMAIN calls' = 1..(n - 1) BY DEF Ends
<1>6. Open \subseteq Open' \cup {v}
  <2>1. \A i \in 1..n : i = n \/ i \in 1..(n - 1) BY <1>0
  <2> QED BY <1>0, <1>4, <1>5, <2>1 DEF Open
<1>7. Numbered' /\ Ascends' /\ CutOff' BY <1>1, <1>2 DEF Numbered, Ascends, CutOff
<1>8. LookedAt'
  <2>1. ASSUME NEW u \in On' \ Open' PROVE Successors(u)' \subseteq Visited'
    <3>1. CASE u = v BY <1>0, <1>1, <1>2, <1>3, <3>1 DEF LookedAt
    <3>2. CASE u # v BY <1>1, <1>2, <1>6, <2>1, <3>2 DEF LookedAt
    <3> QED BY <3>1, <3>2
  <2>2. ASSUME NEW i \in 1..(n - 1)
        PROVE  /\ calls'[i].left \subseteq Successors(Caller(i))' /\ Successors(Caller(i))' \ calls'[i].left \subseteq Visited'
    BY <1>0, <1>1, <1>2, <1>4 DEF LookedAt
  <2> QED BY <1>5, <2>1, <2>2 DEF LookedAt
<1>9. Upward' BY <1>0, <1>1, <1>2, <1>4, <1>5 DEF Upward
<1>10. PICK y \in On : low[v] = idx[y] /\ Leads(v, y) BY <1>0, <1>3 DEF LowReached
<1>11. Downward'
  <2> SUFFICES ASSUME NEW x \in On, x \notin Open' PROVE \E z \in On : idx[z] < idx[x] /\ Leads(x, z)
    BY <1>1, <1>2 DEF Downward
  <2>1. CASE x = v BY <1>3, <1>10, <2>1
  <2>2. CASE x # v BY <1>6, <2>2 DEF Downward
  <2> QED BY <2>1, <2>2
<1> HIDE DEF v
<1>12. n # 1 => /\ n - 1 \in 1..n /\ low[Caller(n - 1)] \in Nat
                /\ low'[Caller(n - 1)] = Less(low[Caller(n - 1)], low[v])
                /\ low'[Caller(n - 1)] <= low[v] /\ low'[Caller(n - 1)] <= low[Caller(n - 1)]
  <2> SUFFICES ASSUME n # 1 PROVE /\ n - 1 \in 1..n /\ low[Caller(n - 1)] \in Nat
                                  /\ low'[Caller(n - 1)] = Less(low[Caller(n - 1)], low[v])
                                  /\ low'[Caller(n - 1)] <= low[v] /\ low'[Caller(n - 1)] <= low[Caller(n - 1)]
    OBVIOUS
  <2>1. n - 1 \in 1..n BY <1>0, <1>3
  <2>2. low[Caller(n - 1)] \in Nat BY <1>0, <2>1 DEF LowReached
  <2>3. low'[Caller(n - 1)] = Less(low[Caller(n - 1)], low[v]) BY LowAfter DEF v
  <2> QED BY <1>3, <2>1, <2>2, <2>3 DEF Less
<1>13. \A i \in 1..(n - 1) : i # n - 1 => low'[Caller(i)] = low[Caller(i)] BY LowAfter
<1>14. LowReached'
  <2> SUFFICES ASSUME NEW i \in 1..(n - 1)
               PROVE  /\ low'[Caller(i)] \in Nat /\ low'[Caller(i)] <= idx[Caller(i)]
                      /\ \E x \in On : low'[Caller(i)] = idx[x] /\ Leads(Caller(i), x)
    BY <1>1, <1>2, <1>4, <1>5 DEF LowReached
  <2>0. i \in 1..n BY <1>4
  <2>1. CASE i # n - 1 BY <1>0, <1>13, <2>0, <2>1 DEF LowReached
  <2>2. CASE i = n - 1
    <3>1. n # 1 /\ i < n BY <1>0, <2>2
    <3>2. /\ low[Caller(i)] \in Nat /\ low[Caller(i)] <= idx[Caller(i)]
          /\ \E x \in On : low[Caller(i)] = idx[x] /\ Leads(Caller(i), x)
      BY <1>0, <2>0 DEF LowReached
    <3>3. idx[Caller(i)] \in Nat BY <1>0, <2>0
    <3>4. Leads(Caller(i), y)
      <4>1. idx[Caller(i)] <= idx[v] BY <1>0, <1>3, <2>0, <3>1 DEF v
      <4>2. Leads(Caller(i), v) BY <1>0, <1>3, <2>0, <4>1 DEF Upward
      <4> QED BY <1>10, <4>2, LeadsOn
    <3>5. low'[Caller(i)] = low[Caller(i)] \/ low'[Caller(i)] = low[v] BY <1>12, <2>2, <3>1 DEF Less
    <3> QED BY <1>3, <1>10, <1>12, <2>2, <3>1, <3>2, <3>3, <3>4, <3>5
  <2> QED BY <2>1, <2>2
<1>15. LowBounds'
  <2> SUFFICES ASSUME NEW i \in 1..(n - 1), NEW x \in On, Above(i, x)', NEW u \in Successors(x), u \in On
               PROVE  (x = Caller(i) /\ u \in calls[i].left) \/ low'[Caller(i)] <= idx[u]
    BY <1>1, <1>2, <1>4, <1>5 DEF LowBounds
  <2>0. i \in 1..n /\ idx[Caller(i)] <= idx[x] /\ idx[u] \in Nat /\ idx[x] \in Nat BY <1>0, <1>2, <1>4 DEF Above
  <2>1. CASE i # n - 1
    <3>1. i + 1 \in 1..(n - 1) BY <1>0, <2>1
    <3>2. idx[x] < idx[Caller(i + 1)] BY <1>2, <1>4, <1>5, <3>1 DEF Above
    <3>3. Above(i, x) BY <2>0, <3>2 DEF Above
    <3> QED BY <1>0, <1>13, <2>0, <2>1, <3>3 DEF LowBounds
  <2>2. CASE i = n - 1
    <3>1. n # 1 /\ i + 1 = n /\ idx[v] \in Nat BY <1>0, <1>3, <2>2
    <3>2. CASE idx[x] < idx[v]
      <4>1. Above(i, x) BY <2>0, <3>1, <3>2 DEF Above, v
      <4>2. (x = Caller(i) /\ u \in calls[i].left) \/ low[Caller(i)] <= idx[u] BY <1>0, <2>0, <4>1 DEF LowBounds
      <4>3. low[Caller(i)] \in Nat /\ low'[Caller(i)] \in Nat /\ low'[Caller(i)] <= low[Caller(i)]
        BY <1>3, <1>12, <2>2, <3>1 DEF Less
      <4> QED BY <2>0, <4>2, <4>3
    <3>3. CASE ~(idx[x] < idx[v])
      <4>1. idx[v] <= idx[x] /\ n + 1 \notin DOMAIN calls BY <1>0, <2>0, <3>1, <3>3
      <4>2. Above(n, x) BY <4>1 DEF Above, v
      <4>3. low[v] <= idx[u] BY <1>0, <1>3, <4>2 DEF LowBounds, v
      <4>4. low'[Caller(i)] \in Nat /\ low'[Caller(i)] <= low[v] BY <1>3, <1>12, <2>2, <3>1 DEF Less
      <4> QED BY <1>3, <2>0, <4>3, <4>4
    <3> QED BY <3>2, <3>3
  <2> QED BY <2>1, <2>2
<1> QED BY <1>2, <1>7, <1>8, <1>9, <1>11, <1>14, <1>15

\* What is on the stack from the node of a call upwards.
Upper(n) == {x \in On : idx[Caller(n)] <= idx[x]}

\* The call on top has looked at everything, and its low number is its own.
IsRoot(n) ==
  n = Len(calls) /\ n \in DOMAIN calls /\ calls[n].left = {} /\ low[Caller(n)] = idx[Caller(n)]

\* From the root of a component nothing on the stack below it can be reached.
LEMMA RootCloses ==
  ASSUME TInv, Stacked, nodes = Tasks, NEW n, IsRoot(n)
  PROVE  /\ Closed(Upper(n) \cup (Visited \ On))
         /\ \A x \in Upper(n) : x \in Open => x = Caller(n)
         /\ Caller(n) \in Upper(n)
<1> USE DEF Stacked
<1> DEFINE v == Caller(n)
<1>0. /\ On \subseteq Visited /\ Visited \subseteq Tasks /\ Tasks \subseteq Ids
      /\ DOMAIN calls = 1..n /\ n \in Nat /\ n \in 1..n
      /\ \A i \in 1..n : Caller(i) \in On
      /\ \A x \in On : idx[x] \in Nat
      /\ \A i, j \in 1..n : i < j => idx[Caller(i)] < idx[Caller(j)]
  BY StackFacts DEF IsRoot
<1>1. v \in On /\ idx[v] \in Nat /\ v \in Upper(n) BY <1>0 DEF Upper
<1>2. ASSUME NEW x \in Upper(n), x \in Open PROVE x = v
  <2>1. PICK i \in 1..n : x = Caller(i) BY <1>0, <1>2 DEF Open
  <2>2. idx[v] <= idx[x] /\ idx[x] \in Nat BY <1>0 DEF Upper
  <2>3. CASE i = n BY <2>1, <2>3
  <2>4. CASE i # n
    <3>1. i < n BY <1>0, <2>4
    <3> QED BY <1>0, <1>1, <2>1, <2>2, <3>1
  <2> QED BY <2>3, <2>4
<1>3. ASSUME NEW x \in Upper(n), NEW w \in Tasks, Edge(x, w), w # x
      PROVE  w \in Upper(n) \cup (Visited \ On)
  <2>1. w \in Successors(x) BY <1>3, SuccessorIs
  <2>2. x \in On /\ idx[v] <= idx[x] BY DEF Upper
  <2>3. w \in Visited
    <3>1. CASE x = v BY <1>0, <2>1, <3>1 DEF LookedAt, IsRoot
    <3>2. CASE x # v BY <1>2, <2>1, <2>2, <3>2 DEF LookedAt
    <3> QED BY <3>1, <3>2
  <2>4. ASSUME w \in On PROVE idx[v] <= idx[w]
    <3>1. n + 1 \notin DOMAIN calls BY <1>0
    <3>2. Above(n, x) BY <2>2, <3>1 DEF Above
    <3>3. (x = v /\ w \in calls[n].left) \/ low[v] <= idx[w] BY <1>0, <2>1, <2>2, <2>4, <3>2 DEF LowBounds
    <3> QED BY <3>3 DEF IsRoot
  <2> QED BY <2>3, <2>4 DEF Upper
<1>4. ASSUME NEW x \in Visited \ On, NEW w \in Tasks, Edge(x, w) PROVE w \in Visited \ On
  BY <1>4 DEF CutOff, Closed
<1>5. Closed(Upper(n) \cup (Visited \ On)) BY <1>3, <1>4 DEF Closed
<1> QED BY <1>1, <1>2, <1>5

\* What is above a root is its component: each node leads to a least one, which
\* can only be the root.
LEMMA UpperIsComponent ==
  ASSUME TInv, Stacked, nodes = Tasks, NEW n, IsRoot(n), NEW t \in Upper(n)
  PROVE  Component(t) = Upper(n)
<1> USE DEF Stacked
<1> DEFINE v == Caller(n)
           C == Upper(n) \cup (Visited \ On)
<1>0. /\ On \subseteq Visited /\ Visited \subseteq Tasks /\ Tasks \subseteq Ids /\ IsFiniteSet(Visited)
      /\ DOMAIN calls = 1..n /\ n \in Nat /\ n \in 1..n
      /\ \A x \in On : idx[x] \in Nat
      /\ \A x, y \in On : idx[x] = idx[y] => x = y
  BY StackFacts DEF IsRoot
<1>1. Closed(C) /\ v \in Upper(n) /\ \A x \in Upper(n) : x \in Open => x = v BY RootCloses
<1>2. Upper(n) \subseteq On /\ C \in SUBSET Tasks /\ Visited \ On \in SUBSET Tasks BY <1>0 DEF Upper
<1>3. ASSUME NEW x \in Upper(n) PROVE Leads(v, x) BY <1>0 DEF Upward, Upper
<1>4. ASSUME NEW x \in Upper(n) PROVE Leads(x, v)
  <2> DEFINE R == {y \in Upper(n) : Leads(x, y)}
             I == {idx[y] : y \in R}
  <2>1. x \in R BY <1>0, <1>2, LeadsAlong
  <2>2. IsFiniteSet(I)
    <3>1. IsFiniteSet(R) BY <1>0, <1>2, FS_Subset
    <3> HIDE DEF R
    <3> QED BY <3>1, FiniteValues
  <2>3. I \subseteq Int /\ I # {} BY <1>0, <1>2, <2>1
  <2>4. Least(I) \in I /\ \A m \in I : Least(I) <= m
    <3> HIDE DEF I
    <3> QED BY <2>2, <2>3, LeastExists
  <2>5. PICK y \in R : \A z \in R : idx[y] <= idx[z]
    <3>1. PICK y \in R : Least(I) = idx[y] BY <2>4
    <3> QED BY <2>4, <3>1
  <2>6. ASSUME y # v PROVE FALSE
    <3>1. y \in On \ Open BY <1>1, <1>2, <2>6
    <3>2. PICK z \in On : idx[z] < idx[y] /\ Leads(y, z) BY <3>1 DEF Downward
    <3>3. Leads(x, z) BY <3>2, LeadsOn
    <3>4. z \in C BY <1>1, <1>2, <3>3, StaysInside
    <3>5. z \in R BY <3>2, <3>3, <3>4
    <3> QED BY <1>0, <2>5, <3>1, <3>2, <3>5
  <2> QED BY <2>6
<1>5. ASSUME NEW x \in Upper(n) PROVE x \in Component(t)
  <2>1. Leads(t, x) BY <1>3, <1>4, LeadsOn
  <2>2. Leads(x, t) BY <1>3, <1>4, LeadsOn
  <2> QED BY <1>0, <1>2, <2>1, <2>2 DEF Component
<1>6. ASSUME NEW x \in Component(t) PROVE x \in Upper(n)
  <2>1. Leads(t, x) /\ Leads(x, t) BY DEF Component
  <2>2. x \in C BY <1>1, <1>2, <2>1, StaysInside
  <2>3. ASSUME x \in Visited \ On PROVE FALSE
    <3>1. t \in Visited \ On BY <1>2, <2>1, <2>3, StaysInside DEF CutOff
    <3> QED BY <1>2, <3>1
  <2> QED BY <2>2, <2>3
<1> QED BY <1>5, <1>6

\* Cutting the stack where a node lies takes off what is above it.
LEMMA CutAt ==
  ASSUME TInv, Stacked, nodes = Tasks, NEW n \in DOMAIN calls,
         NEW m \in DOMAIN stack, stack[m] = Caller(n)
  PROVE  /\ Elements(SubSeq(stack, m, Len(stack))) = Upper(n)
         /\ Elements(SubSeq(stack, 1, m - 1)) = On \ Upper(n)
<1>0. stack \in Seq(Ids) /\ DOMAIN stack = 1..Len(stack) /\ Len(stack) \in Nat BY DEF TInv, TypeOK
<1>1. \A x \in On : idx[x] \in Nat BY StackFacts DEF Stacked
<1>2. \A p \in DOMAIN stack : stack[p] \in On BY DEF On, Elements
<1>3. \A p \in DOMAIN stack : m <= p <=> idx[Caller(n)] <= idx[stack[p]]
  <2> SUFFICES ASSUME NEW p \in DOMAIN stack PROVE m <= p <=> idx[Caller(n)] <= idx[stack[p]] OBVIOUS
  <2>1. m \in Int /\ p \in Int /\ idx[stack[m]] \in Nat /\ idx[stack[p]] \in Nat BY <1>0, <1>1, <1>2
  <2>2. p < m => idx[stack[p]] < idx[stack[m]] BY DEF Stacked, Ascends
  <2>3. m < p => idx[stack[m]] < idx[stack[p]] BY DEF Stacked, Ascends
  <2> QED BY <2>1, <2>2, <2>3
<1> DEFINE a == SubSeq(stack, m, Len(stack))
           b == SubSeq(stack, 1, m - 1)
<1>4. DOMAIN a = 1..(Len(stack) - m + 1) /\ \A i \in DOMAIN a : a[i] = stack[m + i - 1]
  BY <1>0
<1>5. DOMAIN b = 1..(m - 1) /\ \A i \in DOMAIN b : b[i] = stack[i] BY <1>0
<1> HIDE DEF a, b
<1>6. Elements(a) = Upper(n)
  <2>1. ASSUME NEW i \in DOMAIN a PROVE a[i] \in Upper(n)
    <3>1. m + i - 1 \in DOMAIN stack /\ m <= m + i - 1 BY <1>0, <1>4
    <3> QED BY <1>2, <1>3, <1>4, <3>1 DEF Upper
  <2>2. ASSUME NEW x \in Upper(n) PROVE \E i \in DOMAIN a : a[i] = x
    <3>1. PICK p \in DOMAIN stack : stack[p] = x BY DEF Upper, On, Elements
    <3>2. m <= p BY <1>3, <3>1 DEF Upper
    <3>3. p - m + 1 \in DOMAIN a /\ m + (p - m + 1) - 1 = p BY <1>0, <1>4, <3>2
    <3> QED BY <1>4, <3>1, <3>3
  <2> QED BY <2>1, <2>2 DEF Elements
<1>7. Elements(b) = On \ Upper(n)
  <2>1. ASSUME NEW i \in DOMAIN b PROVE b[i] \in On \ Upper(n)
    <3>1. i \in DOMAIN stack /\ ~(m <= i) BY <1>0, <1>5
    <3> QED BY <1>2, <1>3, <1>5, <3>1 DEF Upper
  <2>2. ASSUME NEW x \in On \ Upper(n) PROVE \E i \in DOMAIN b : b[i] = x
    <3>1. PICK p \in DOMAIN stack : stack[p] = x BY DEF On, Elements
    <3>2. ~(m <= p) BY <1>3, <3>1 DEF Upper
    <3>3. p \in DOMAIN b BY <1>0, <1>5, <3>2
    <3> QED BY <1>5, <3>1, <3>3
  <2> QED BY <2>1, <2>2 DEF Elements
<1> QED BY <1>6, <1>7 DEF a, b

\* A call ends that is the root of its component: the component is cut off.
LEMMA PopStacked ==
  ASSUME TInv, Stacked, nodes = Tasks, input' = input, nodes' = nodes,
         NEW n, Ends(n), IsRoot(n),
         NEW m \in DOMAIN stack, stack[m] = Caller(n), stack' = SubSeq(stack, 1, m - 1)
  PROVE  Stacked' /\ On' = On \ Upper(n) /\ Visited' = Visited
<1> USE DEF Stacked
<1> DEFINE v == Caller(n)
<1>0. /\ On \subseteq Visited /\ Visited \subseteq Tasks /\ Tasks \subseteq Ids
      /\ DOMAIN calls = 1..n /\ n \in Nat /\ n \in 1..n
      /\ \A i \in 1..n : Caller(i) \in On
      /\ \A x \in On : idx[x] \in Nat
      /\ \A i, j \in 1..n : i < j => idx[Caller(i)] < idx[Caller(j)]
  BY StackFacts DEF Ends
<1>1. /\ Tasks' = Tasks
      /\ \A u, x : Leads(u, x)' <=> Leads(u, x)
      /\ \A S : Closed(S)' <=> Closed(S)
      /\ \A u : Successors(u)' = Successors(u)
  BY GraphSame
<1>2. On' = On \ Upper(n)
  <2>1. Elements(SubSeq(stack, 1, m - 1)) = On \ Upper(n) BY <1>0, CutAt
  <2> QED BY <2>1 DEF On, Elements
<1>3. Visited' = Visited /\ idx' = idx BY DEF Visited, Ends
<1>4. \A x \in On : x \in On' <=> idx[x] < idx[v] BY <1>0, <1>2 DEF Upper
<1>5. On' \subseteq On BY <1>2
<1>6. \A i \in 1..(n - 1) : /\ i \in 1..n /\ i < n /\ Caller(i)' = Caller(i) /\ calls'[i] = calls[i]
                            /\ Caller(i) \in On' /\ idx[Caller(i)] < idx[v]
  BY <1>0, <1>4 DEF Ends, Caller
<1>7. DOMAIN calls' = 1..(n - 1) BY DEF Ends
<1>8. Open \subseteq Open' \cup {v}
  <2>1. \A i \in 1..n : i = n \/ i \in 1..(n - 1) BY <1>0
  <2> QED BY <1>0, <1>6, <1>7, <2>1 DEF Open
<1>9. \A i \in 1..(n - 1) : low'[Caller(i)] = low[Caller(i)]
  <2> SUFFICES ASSUME NEW i \in 1..(n - 1) PROVE low'[Caller(i)] = low[Caller(i)] OBVIOUS
  <2>1. CASE i # n - 1 BY <2>1, LowAfter
  <2>2. CASE i = n - 1
    <3>1. n # 1 BY <1>0, <2>2
    <3>2. low'[Caller(i)] = Less(low[Caller(i)], low[v]) BY <2>2, <3>1, LowAfter
    <3>3. low[Caller(i)] \in Nat /\ low[Caller(i)] <= idx[Caller(i)] BY <1>0, <1>6 DEF LowReached
    <3>4. idx[Caller(i)] \in Nat /\ idx[v] \in Nat /\ idx[Caller(i)] < idx[v] /\ low[v] = idx[v]
      BY <1>0, <1>6 DEF IsRoot
    <3> QED BY <3>2, <3>3, <3>4 DEF Less
  <2> QED BY <2>1, <2>2
<1> HIDE DEF v
<1>10. Numbered' BY <1>3 DEF Numbered
<1>11. Ascends'
  <2>1. stack \in Seq(Ids) /\ DOMAIN stack = 1..Len(stack) /\ Len(stack) \in Nat BY DEF TInv, TypeOK
  <2>2. DOMAIN stack' = 1..(m - 1) /\ \A i \in 1..(m - 1) : stack'[i] = stack[i] /\ i \in DOMAIN stack BY <2>1
  <2> SUFFICES ASSUME NEW p \in 1..(m - 1), NEW q \in 1..(m - 1), p < q PROVE idx'[stack'[p]] < idx'[stack'[q]]
    BY <2>2 DEF Ascends
  <2>3. idx[stack[p]] < idx[stack[q]] BY <2>2 DEF Ascends
  <2> QED BY <1>3, <2>2, <2>3
<1>12. CutOff'
  <2>1. Closed(Upper(n) \cup (Visited \ On)) BY RootCloses
  <2>2. Visited' \ On' = Upper(n) \cup (Visited \ On) BY <1>0, <1>2, <1>3 DEF Upper
  <2> QED BY <1>1, <2>1, <2>2 DEF CutOff
<1>13. \A x \in On' : x # v
  <2>1. v \in On /\ idx[v] \in Nat BY <1>0 DEF v
  <2>2. v \notin On' BY <1>4, <2>1
  <2> QED BY <2>2
<1>14. LookedAt'
  <2>1. ASSUME NEW u \in On' \ Open' PROVE Successors(u)' \subseteq Visited'
    BY <1>1, <1>3, <1>5, <1>8, <1>13 DEF LookedAt
  <2>2. ASSUME NEW i \in 1..(n - 1)
        PROVE  /\ calls'[i].left \subseteq Successors(Caller(i))' /\ Successors(Caller(i))' \ calls'[i].left \subseteq Visited'
    BY <1>0, <1>1, <1>3, <1>6 DEF LookedAt
  <2> QED BY <1>7, <2>1, <2>2 DEF LookedAt
<1>15. Upward' BY <1>0, <1>1, <1>3, <1>5, <1>6, <1>7 DEF Upward
<1>16. Downward'
  <2> SUFFICES ASSUME NEW x \in On', x \notin Open' PROVE \E z \in On' : idx[z] < idx[x] /\ Leads(x, z)
    BY <1>1, <1>3 DEF Downward
  <2>1. x \in On \ Open /\ idx[x] < idx[v] BY <1>4, <1>5, <1>8, <1>13
  <2>2. PICK z \in On : idx[z] < idx[x] /\ Leads(x, z) BY <2>1 DEF Downward
  <2>3. idx[z] < idx[v] BY <1>0, <2>1, <2>2 DEF v
  <2> QED BY <1>4, <2>2, <2>3
<1>17. LowReached'
  <2> SUFFICES ASSUME NEW i \in 1..(n - 1)
               PROVE  /\ low[Caller(i)] \in Nat /\ low[Caller(i)] <= idx[Caller(i)]
                      /\ \E x \in On' : low[Caller(i)] = idx[x] /\ Leads(Caller(i), x)
    BY <1>1, <1>3, <1>6, <1>7, <1>9 DEF LowReached
  <2>1. /\ low[Caller(i)] \in Nat /\ low[Caller(i)] <= idx[Caller(i)]
        /\ \E x \in On : low[Caller(i)] = idx[x] /\ Leads(Caller(i), x)
    BY <1>0, <1>6 DEF LowReached
  <2>2. PICK x \in On : low[Caller(i)] = idx[x] /\ Leads(Caller(i), x) BY <2>1
  <2>3. idx[x] < idx[v]
    <3>1. idx[Caller(i)] \in Nat /\ idx[v] \in Nat /\ idx[Caller(i)] < idx[v] BY <1>0, <1>6 DEF v
    <3> QED BY <2>1, <2>2, <3>1
  <2> QED BY <1>4, <2>1, <2>2, <2>3
<1>18. LowBounds'
  <2> SUFFICES ASSUME NEW i \in 1..(n - 1), NEW x \in On', Above(i, x)', NEW u \in Successors(x), u \in On'
               PROVE  (x = Caller(i) /\ u \in calls[i].left) \/ low[Caller(i)] <= idx[u]
    BY <1>1, <1>3, <1>6, <1>7, <1>9 DEF LowBounds
  <2>1. i \in 1..n /\ x \in On /\ u \in On /\ idx[x] < idx[v] /\ idx[Caller(i)] <= idx[x]
    BY <1>3, <1>4, <1>5, <1>6 DEF Above
  <2>2. ASSUME i + 1 \in DOMAIN calls PROVE idx[x] < idx[Caller(i + 1)]
    <3>1. CASE i = n - 1
      <4>1. i + 1 = n BY <1>0, <3>1
      <4> QED BY <2>1, <4>1 DEF v
    <3>2. CASE i # n - 1
      <4>1. i + 1 \in 1..(n - 1) BY <1>0, <3>2
      <4> QED BY <1>3, <1>6, <1>7, <4>1 DEF Above
    <3> QED BY <3>1, <3>2
  <2>3. Above(i, x) BY <2>1, <2>2 DEF Above
  <2> QED BY <1>0, <2>1, <2>3 DEF LowBounds
<1> QED BY <1>2, <1>3, <1>10, <1>11, <1>12, <1>14, <1>15, <1>16, <1>17, <1>18

\* The component is reported unless it is one node.
LEMMA PopFound ==
  ASSUME TInv, Stacked, nodes = Tasks, Found, input' = input, nodes' = nodes,
         NEW n, Ends(n), IsRoot(n),
         NEW m \in DOMAIN stack, stack[m] = Caller(n), stack' = SubSeq(stack, 1, m - 1),
         NEW component, component = SubSeq(stack, m, Len(stack)),
         cycles' = IF Len(component) > 1 THEN cycles \cup {component} ELSE cycles
  PROVE  Found'
<1>0. /\ On \subseteq Visited /\ Visited \subseteq Tasks BY StackFacts DEF Stacked
<1>1. On' = On \ Upper(n) /\ Visited' = Visited BY PopStacked
<1>2. /\ Tasks' = Tasks /\ Places' = Places /\ Deps' = Deps
      /\ \A S : IsSelf(S)' <=> IsSelf(S)
      /\ \A t : Component(t)' = Component(t)
  BY GraphSame
<1>3. Elements(component) = Upper(n) BY CutAt DEF IsRoot
<1>4. Upper(n) \subseteq On BY DEF Upper
<1>5. \A t \in Upper(n) : Component(t) = Elements(component) /\ t \in Tasks BY <1>0, <1>3, <1>4, UpperIsComponent
<1>6. /\ Len(component) = Len(stack) - m + 1 /\ DOMAIN component = 1..(Len(stack) - m + 1)
      /\ \A i \in DOMAIN component : component[i] = stack[m + i - 1]
      /\ Len(stack) \in Nat /\ m \in Nat /\ DOMAIN stack = 1..Len(stack)
  <2>1. stack \in Seq(Ids) /\ Len(stack) \in Nat /\ DOMAIN stack = 1..Len(stack) BY DEF TInv, TypeOK
  <2>2. m \in 1..Len(stack) BY <2>1
  <2> QED BY <2>1, <2>2
<1>7. ASSUME Len(component) > 1 PROVE \E a, b \in Elements(component) : a # b
  <2>1. m + 1 \in DOMAIN stack /\ 1 \in DOMAIN component /\ 2 \in DOMAIN component
        /\ m + 1 - 1 = m /\ m + 2 - 1 = m + 1
    BY <1>6, <1>7
  <2>2. stack[m] # stack[m + 1]
    <3>1. m # m + 1 BY <1>6
    <3> QED BY <2>1, <3>1 DEF TInv, SearchInv, StackHolds
  <2>3. component[1] # component[2] BY <1>6, <2>1, <2>2
  <2> QED BY <2>1, <2>3 DEF Elements
<1>8. ASSUME ~(Len(component) > 1), NEW t \in Upper(n) PROVE Component(t) = {t}
  <2>1. \A i, j \in DOMAIN component : i = j BY <1>6, <1>8
  <2>2. \A a, b \in Elements(component) : a = b BY <2>1 DEF Elements
  <2> QED BY <1>3, <1>5, <2>2
<1>9. ASSUME NEW c \in cycles'
      PROVE  \/ IsSelf(Elements(c))
             \/ /\ \E a, b \in Elements(c) : a # b
                /\ \A t \in Elements(c) : t \in Tasks /\ Elements(c) = Component(t)
  <2>1. CASE c \in cycles BY <2>1 DEF Found
  <2>2. CASE c \notin cycles
    <3>1. c = component /\ Len(component) > 1 BY <2>2
    <3> QED BY <1>3, <1>5, <1>7, <3>1
  <2> QED BY <2>1, <2>2
<1>10. cycles \subseteq cycles' OBVIOUS
<1>11. ASSUME NEW k \in Places, Known(k), Self(k) PROVE \E c \in cycles' : Elements(c) = {Deps[k].task}
  BY <1>10, <1>11 DEF Found
<1>12. ASSUME NEW t \in Visited' \ On' PROVE Component(t) = {t} \/ \E c \in cycles' : Elements(c) = Component(t)
  <2>1. CASE t \in Upper(n)
    <3>1. CASE Len(component) > 1 BY <1>5, <2>1, <3>1
    <3>2. CASE ~(Len(component) > 1) BY <1>8, <2>1, <3>2
    <3> QED BY <3>1, <3>2
  <2>2. CASE t \notin Upper(n) BY <1>1, <1>10, <2>2 DEF Found
  <2> QED BY <2>1, <2>2
<1>13. \A k : (Known(k)' <=> Known(k)) /\ (Self(k)' <=> Self(k)) BY <1>2 DEF Known, Self
<1> QED BY <1>2, <1>9, <1>11, <1>12, <1>13 DEF Found, Elements

LEMMA FoundKept ==
  ASSUME Found, input' = input, cycles' = cycles, Visited' \ On' = Visited \ On
  PROVE  Found'
<1>1. /\ Tasks' = Tasks /\ Places' = Places /\ Deps' = Deps
      /\ \A S : IsSelf(S)' <=> IsSelf(S)
      /\ \A t : Component(t)' = Component(t)
  BY GraphSame
<1>2. \A k : (Known(k)' <=> Known(k)) /\ (Self(k)' <=> Self(k)) BY <1>1 DEF Known, Self
<1> QED BY <1>1, <1>2 DEF Found, Elements

LEMMA ValidateSearches == ASSUME TInv, Validate PROVE nodes' = Tasks' /\ Stacked' /\ Found'
<1>1. /\ input' = input /\ nodes' = Tasks /\ stack' = << >> /\ calls' = << >>
      /\ idx' = [v \in Ids |-> None]
      /\ cycles' = {<<Deps[k].task>> : k \in {j \in Places : Known(j) /\ Self(j) /\ Deps[j].task \in Tasks}}
  BY DEF Validate, Search
<1>2. Tasks' = Tasks /\ Places' = Places /\ Deps' = Deps /\ Tasks \subseteq Ids
  BY <1>1, InputFacts DEF Tasks, Places, Deps, TInv
<1>3. Visited' = {} BY <1>1, <1>2 DEF Visited
<1>4. DOMAIN stack' = {} /\ DOMAIN calls' = {} BY <1>1
<1>5. On' = {} BY <1>4 DEF On, Elements
<1>6. Numbered' /\ Ascends' /\ CutOff' BY <1>3, <1>4, <1>5 DEF Numbered, Ascends, CutOff, Closed
<1>7. LookedAt' /\ Upward' /\ Downward' /\ LowReached' /\ LowBounds'
  BY <1>4, <1>5 DEF LookedAt, Upward, Downward, LowReached, LowBounds
<1>8. \A k : (Known(k)' <=> Known(k)) /\ (Self(k)' <=> Self(k)) BY <1>2 DEF Known, Self
<1>9. \A t : Elements(<<t>>) = {t} BY DEF Elements
<1>10. ASSUME NEW c \in cycles' PROVE IsSelf(Elements(c))
  <2>1. PICK k \in Places : Known(k) /\ Self(k) /\ c = <<Deps[k].task>> BY <1>1
  <2> QED BY <1>9, <2>1 DEF IsSelf
<1>11. ASSUME NEW k \in Places, Known(k), Self(k) PROVE \E c \in cycles' : Elements(c) = {Deps[k].task}
  <2>1. <<Deps[k].task>> \in cycles' BY <1>1, <1>11 DEF Known
  <2> QED BY <1>9, <2>1
<1>12. \A S : IsSelf(S)' <=> IsSelf(S) BY <1>1, GraphSame
<1>13. Found' BY <1>2, <1>3, <1>8, <1>10, <1>11, <1>12 DEF Found, Elements
<1> QED BY <1>1, <1>2, <1>6, <1>7, <1>13 DEF Stacked

LEMMA RootSearches ==
  ASSUME TInv, nodes = Tasks, Stacked, Found, Root PROVE nodes' = Tasks' /\ Stacked' /\ Found'
<1>1. PICK v \in nodes \ Visited : Enter(v, << >>) BY DEF Root
<1>2. input' = input /\ nodes' = nodes /\ cycles' = cycles /\ calls = << >> BY DEF Root
<1> DEFINE c == [node |-> v, left |-> Successors(v)]
<1>3. /\ idx' = [idx EXCEPT ![v] = Cardinality(Visited)] /\ low' = [low EXCEPT ![v] = Cardinality(Visited)]
      /\ stack' = Append(stack, v) /\ calls' = Append(<< >>, c)
  BY <1>1 DEF Enter
<1>4. calls' = <<c>> BY <1>3
<1>5. PICK n, N : n = 0 /\ N = Cardinality(Visited) OBVIOUS
<1>6. Stacked' /\ On' = On \cup {v} /\ Visited' = Visited \cup {v}
  <2>1. n = Len(calls) /\ ~(n # 0) /\ 1..n = {} /\ 1..(n - 1) = {} BY <1>2, <1>5
  <2>2. DOMAIN calls' = 1..(n + 1) /\ Caller(n + 1)' = v /\ calls'[n + 1].left = Successors(v)
    BY <1>4, <1>5 DEF Caller
  <2> HIDE DEF c
  <2>3. v \in Tasks /\ v \notin Visited BY <1>1
  <2> QED BY <1>2, <1>3, <1>5, <2>1, <2>2, <2>3, EnterStacked
<1>7. Visited' \ On' = Visited \ On BY <1>1, <1>6
<1> QED BY <1>2, <1>6, <1>7, FoundKept, GraphSame

LEMMA LookSearches ==
  ASSUME TInv, nodes = Tasks, Stacked, Found, Look PROVE nodes' = Tasks' /\ Stacked' /\ Found'
<1>0. PICK n : n = Len(calls) OBVIOUS
<1> DEFINE v == calls[n].node
<1>1. calls \in Seq(Call) /\ calls # << >> BY DEF TInv, TypeOK, Call, Look
<1>2. n \in Nat /\ n \in 1..n /\ DOMAIN calls = 1..n BY <1>0, <1>1
<1>3. calls[n] \in Call /\ \A i \in 1..n : calls[i] \in Call BY <1>1, <1>2
<1>4. PICK w \in calls[n].left :
        LET rest == [calls EXCEPT ![n].left = @ \ {w}]
        IN  \/ w \notin Visited /\ Enter(w, rest)
            \/ w \in Visited /\ BackEdge(v, w) /\ calls' = rest /\ UNCHANGED <<idx, stack>>
  BY <1>0 DEF Look
<1> DEFINE rest == [calls EXCEPT ![n].left = @ \ {w}]
<1>5. rest = [calls EXCEPT ![n] = [calls[n] EXCEPT !.left = calls[n].left \ {w}]] BY <1>1, <1>2
<1>6. [calls[n] EXCEPT !.left = calls[n].left \ {w}] \in Call BY <1>3 DEF Call
<1>7. rest \in Seq(Call) /\ Len(rest) = n /\ DOMAIN rest = 1..n BY <1>1, <1>2, <1>5, <1>6
<1>8. \A i \in 1..n : /\ rest[i].node = calls[i].node
                      /\ rest[i].left = IF i = n THEN calls[n].left \ {w} ELSE calls[i].left
  BY <1>1, <1>2, <1>3, <1>5 DEF Call
<1>9. input' = input /\ nodes' = nodes /\ cycles' = cycles BY DEF Look
<1>10. w \in Tasks BY <1>2, <1>4 DEF TInv, SearchInv, StackHolds
<1> HIDE DEF v, rest
<1>11. CASE w \notin Visited /\ Enter(w, rest)
  <2> DEFINE c == [node |-> w, left |-> Successors(w)]
  <2>1. /\ idx' = [idx EXCEPT ![w] = Cardinality(Visited)] /\ low' = [low EXCEPT ![w] = Cardinality(Visited)]
        /\ stack' = Append(stack, w) /\ calls' = Append(rest, c)
    BY <1>11 DEF Enter
  <2>2. c.node = w /\ c.left = Successors(w) /\ c \in Call
    <3>1. Tasks \subseteq Ids BY InputFacts DEF TInv
    <3> QED BY <1>10, <3>1 DEF Call, Successors
  <2> HIDE DEF c
  <2>3. /\ Len(calls') = n + 1 /\ DOMAIN calls' = 1..(n + 1) /\ calls'[n + 1] = c
        /\ \A i \in 1..n : calls'[i] = rest[i]
    BY <1>2, <1>7, <2>1, <2>2, AppendProperties
  <2>4. Caller(n + 1)' = w /\ calls'[n + 1].left = Successors(w) BY <2>2, <2>3 DEF Caller
  <2>5. \A i \in 1..n : Caller(i)' = Caller(i) BY <1>8, <2>3 DEF Caller
  <2>6. \A i \in 1..(n - 1) : calls'[i].left = calls[i].left BY <1>2, <1>8, <2>3
  <2>7. calls'[n].left = calls[n].left \ {w} BY <1>2, <1>8, <2>3
  <2>8. PICK N : N = Cardinality(Visited) OBVIOUS
  <2>9. Stacked' /\ On' = On \cup {w} /\ Visited' = Visited \cup {w}
    BY <1>0, <1>4, <1>9, <1>10, <1>11, <2>1, <2>3, <2>4, <2>5, <2>6, <2>7, <2>8, EnterStacked
  <2>10. Visited' \ On' = Visited \ On BY <1>11, <2>9
  <2> QED BY <1>9, <2>9, <2>10, FoundKept, GraphSame
<1>12. CASE w \in Visited /\ BackEdge(v, w) /\ calls' = rest /\ UNCHANGED <<idx, stack>>
  <2>1. \A i \in 1..n : Caller(i)' = Caller(i) BY <1>8, <1>12 DEF Caller
  <2>2. \A i \in 1..n : calls'[i].left = IF i = n THEN calls[n].left \ {w} ELSE calls[i].left BY <1>8, <1>12
  <2>3. n = Len(calls) /\ BackEdge(Caller(n), w) BY <1>0, <1>12 DEF v, Caller
  <2>4. DOMAIN calls' = DOMAIN calls /\ n \in DOMAIN calls BY <1>2, <1>7, <1>12
  <2>5. /\ \A i \in DOMAIN calls : Caller(i)' = Caller(i)
        /\ \A i \in DOMAIN calls : calls'[i].left = IF i = n THEN calls[n].left \ {w} ELSE calls[i].left
    BY <1>2, <2>1, <2>2
  <2>6. idx' = idx /\ stack' = stack /\ w \in Visited /\ w \in calls[n].left BY <1>4, <1>12
  <2>7. Stacked' /\ On' = On /\ Visited' = Visited BY <1>9, <2>3, <2>4, <2>5, <2>6, BackStacked
  <2> QED BY <1>9, <2>7, FoundKept, GraphSame
<1> QED BY <1>4, <1>11, <1>12 DEF rest, v

LEMMA ReturnSearches ==
  ASSUME TInv, nodes = Tasks, Stacked, Found, Return PROVE nodes' = Tasks' /\ Stacked' /\ Found'
<1> DEFINE n == Len(calls)
           v == calls[n].node
           m == CHOOSE i \in DOMAIN stack : stack[i] = v
           component == SubSeq(stack, m, Len(stack))
<1>1. calls \in Seq(Call) /\ calls # << >> BY DEF TInv, TypeOK, Call, Return
<1>2. n \in Nat /\ n \in 1..n /\ DOMAIN calls = 1..n BY <1>1
<1>3. m \in DOMAIN stack /\ stack[m] = v BY <1>2 DEF TInv, SearchInv, StackHolds
<1>4. /\ input' = input /\ nodes' = nodes /\ idx' = idx /\ calls[n].left = {}
      /\ calls' = SubSeq(calls, 1, n - 1)
      /\ low' = IF n = 1 THEN low ELSE [low EXCEPT ![calls[n - 1].node] = Less(@, low[v])]
  BY DEF Return
<1>5. IF low[v] = idx[v]
      THEN /\ stack' = SubSeq(stack, 1, m - 1)
           /\ cycles' = IF Len(component) > 1 THEN cycles \cup {component} ELSE cycles
      ELSE stack' = stack /\ cycles' = cycles
  BY DEF Return
<1>6. v = Caller(n) /\ n = Len(calls) BY DEF Caller
<1> HIDE DEF n, v, m
<1>7. DOMAIN calls' = 1..(n - 1) /\ \A i \in 1..(n - 1) : calls'[i] = calls[i]
  <2>1. \A i \in 1..(n - 1) : calls[i] \in Call BY <1>1, <1>2
  <2> QED BY <1>2, <1>4, <2>1, SubSeqProperties
<1>8. Ends(n) BY <1>2, <1>4, <1>6, <1>7 DEF Ends, Caller
<1>9. CASE low[v] # idx[v]
  <2>1. stack' = stack /\ cycles' = cycles BY <1>5, <1>9
  <2>2. Stacked' /\ On' = On /\ Visited' = Visited BY <1>4, <1>6, <1>8, <1>9, <2>1, StayStacked
  <2> QED BY <1>4, <2>1, <2>2, FoundKept, GraphSame
<1>10. CASE low[v] = idx[v]
  <2>1. IsRoot(n) BY <1>2, <1>4, <1>6, <1>10 DEF IsRoot
  <2>2. Stacked' BY <1>3, <1>4, <1>5, <1>6, <1>8, <1>10, <2>1, PopStacked
  <2>3. Found' BY <1>3, <1>4, <1>5, <1>6, <1>8, <1>10, <2>1, PopFound
  <2> QED BY <1>4, <2>2, <2>3, GraphSame
<1> QED BY <1>9, <1>10

LEMMA StepTarjanInv == TInv /\ TarjanInv /\ [Next]_vars => TarjanInv'
<1> SUFFICES ASSUME TInv, TarjanInv, [Next]_vars PROVE TarjanInv' OBVIOUS
<1>0. input' = input
  BY DEF Next, GraphNext, Validate, Refuse, SelfCycle, Build, Pop, Sorted, Unsorted, Root, Look, Return, Searched,
         Begin, Forward, Turn, Backward, Finish, vars, graph
<1>1. CASE Validate
  <2>1. pc' = "search" BY <1>1 DEF Validate, Search
  <2> QED BY <1>1, <2>1, ValidateSearches DEF TarjanInv
<1>2. CASE Root \/ Look \/ Return
  <2>1. pc = "search" /\ pc' = "search" BY <1>2 DEF Root, Look, Return
  <2>2. CASE input.ask = "validate"
    <3>1. nodes = Tasks /\ Stacked /\ Found BY <2>1, <2>2 DEF TarjanInv
    <3>2. nodes' = Tasks' /\ Stacked' /\ Found' BY <1>2, <3>1, RootSearches, LookSearches, ReturnSearches
    <3> QED BY <2>1, <3>2 DEF TarjanInv
  <2>3. CASE input.ask # "validate" BY <1>0, <2>1, <2>3 DEF TarjanInv
  <2> QED BY <2>2, <2>3
<1>3. CASE Unsorted
  <2>1. pc' = "search" /\ input'.ask = "schedule" BY <1>0, <1>3 DEF Unsorted, Search, TarjanInv
  <2> QED BY <2>1 DEF TarjanInv
<1>4. CASE Build
  <2>1. pc' = "sort" /\ input'.ask = "schedule" BY <1>0, <1>4 DEF Build
  <2> QED BY <2>1 DEF TarjanInv
<1>5. CASE Pop
  <2>1. pc' = "sort" /\ input'.ask = "schedule" BY <1>0, <1>5 DEF Pop, TarjanInv
  <2> QED BY <2>1 DEF TarjanInv
<1>6. CASE Searched \/ UNCHANGED vars
  <2>1. /\ nodes' = nodes /\ idx' = idx /\ low' = low /\ stack' = stack /\ calls' = calls /\ cycles' = cycles
    BY <1>6 DEF Searched, vars, graph, searching
  <2>2. Tasks' = Tasks /\ \A u : Successors(u)' = Successors(u) BY <1>0, <2>1, GraphSame
  <2>3. /\ \A u, w : Leads(u, w)' <=> Leads(u, w)
        /\ \A S : Closed(S)' <=> Closed(S)
    BY <1>0, GraphSame
  <2>4. Visited' = Visited /\ On' = On /\ Open' = Open /\ \A i : Caller(i)' = Caller(i)
    BY <2>1 DEF Visited, On, Elements, Open, Caller
  <2>5. \A i, x : Above(i, x)' <=> Above(i, x) BY <2>1, <2>4 DEF Above
  <2>6. Numbered' = Numbered /\ Ascends' = Ascends /\ (CutOff' <=> CutOff)
    BY <2>1, <2>3, <2>4 DEF Numbered, Ascends, CutOff
  <2>7. (LookedAt' <=> LookedAt) /\ (Upward' <=> Upward) /\ (Downward' <=> Downward)
    BY <2>1, <2>2, <2>3, <2>4 DEF LookedAt, Upward, Downward
  <2>8. (LowReached' <=> LowReached) /\ (LowBounds' <=> LowBounds)
    BY <2>1, <2>2, <2>3, <2>4, <2>5 DEF LowReached, LowBounds
  <2>9. Stacked => Stacked' BY <2>6, <2>7, <2>8 DEF Stacked
  <2>10. Found => Found' BY <1>0, <2>1, <2>4, FoundKept
  <2>11. input.ask \in {"schedule", "validate"} BY InputsAssumption DEF TInv
  <2>12. CASE Searched
    <3>1. pc = "search" /\ pc' = (IF input.ask = "schedule" THEN "cycle" ELSE "verdict") BY <2>12 DEF Searched
    <3>2. calls = << >> /\ Visited = nodes BY <2>12 DEF Searched
    <3> QED BY <1>0, <2>1, <2>2, <2>4, <2>9, <2>10, <2>11, <3>1, <3>2 DEF TarjanInv
  <2>13. CASE UNCHANGED vars
    <3>1. pc' = pc BY <2>13 DEF vars, graph
    <3> QED BY <1>0, <2>1, <2>2, <2>4, <2>9, <2>10, <3>1 DEF TarjanInv
  <2> QED BY <1>6, <2>12, <2>13
<1>7. CASE Refuse \/ SelfCycle \/ Sorted \/ Begin \/ Forward \/ Turn \/ Backward \/ Finish
  <2>1. pc' \in {"unknown", "cycle", "sorted", "forward", "backward", "done"}
    BY <1>7 DEF Refuse, SelfCycle, Sorted, Begin, Forward, Turn, Backward, Finish, graph
  <2> QED BY <2>1 DEF TarjanInv
<1> QED BY <1>1, <1>2, <1>3, <1>4, <1>5, <1>6, <1>7 DEF Next, GraphNext

\* When no call runs nothing is on the stack: its least node would lead below itself.
LEMMA NothingLeft == ASSUME TInv, nodes = Tasks, Stacked, calls = << >> PROVE On = {}
<1> SUFFICES ASSUME On # {} PROVE FALSE OBVIOUS
<1>1. /\ On \subseteq Visited /\ IsFiniteSet(Visited) /\ \A x \in On : idx[x] \in Nat BY StackFacts DEF Stacked
<1> DEFINE I == {idx[x] : x \in On}
<1>2. IsFiniteSet(I)
  <2>1. IsFiniteSet(On) BY <1>1, FS_Subset
  <2> QED BY <2>1, FiniteValues
<1>3. I \subseteq Int /\ I # {} BY <1>1
<1>4. Least(I) \in I /\ \A m \in I : Least(I) <= m
  <2> HIDE DEF I
  <2> QED BY <1>2, <1>3, LeastExists
<1>5. PICK x \in On : \A y \in On : idx[x] <= idx[y]
  <2>1. PICK x \in On : Least(I) = idx[x] BY <1>4
  <2> QED BY <1>4, <2>1
<1>6. Open = {} BY DEF Open
<1>7. PICK y \in On : idx[y] < idx[x] BY <1>6 DEF Stacked, Downward
<1> QED BY <1>1, <1>5, <1>7

LEMMA ReachesIsLeads ==
  ASSUME NEW u \in Tasks, NEW v \in Tasks, u # v
  PROVE  Reaches(u, v) <=> Leads(u, v)
<1>1. ASSUME Reaches(u, v), NEW S \in SUBSET Tasks, u \in S, Closed(S) PROVE v \in S
  <2>1. S \cup {u} = S BY <1>1
  <2>2. ASSUME NEW k \in Places, Known(k), Deps[k].on \in S PROVE Deps[k].task \in S
    <3>1. Edge(Deps[k].on, Deps[k].task) /\ Deps[k].task \in Tasks BY <2>2 DEF Edge, Known
    <3> QED BY <1>1, <2>2, <3>1 DEF Closed
  <2> QED BY <1>1, <2>1, <2>2 DEF Reaches
<1>2. ASSUME Leads(u, v), NEW S \in SUBSET Tasks,
             \A k \in Places : Known(k) /\ Deps[k].on \in S \cup {u} => Deps[k].task \in S
      PROVE  v \in S
  <2>1. Closed(S \cup {u})
    <3> SUFFICES ASSUME NEW x \in S \cup {u}, NEW w \in Tasks, Edge(x, w) PROVE w \in S \cup {u} BY DEF Closed
    <3>1. PICK k \in Places : Known(k) /\ Deps[k].on = x /\ Deps[k].task = w BY DEF Edge
    <3> QED BY <1>2, <3>1
  <2>2. v \in S \cup {u}
    <3>1. S \cup {u} \in SUBSET Tasks /\ u \in S \cup {u} OBVIOUS
    <3> QED BY <1>2, <2>1, <3>1, StaysInside
  <2> QED BY <2>2
<1> QED BY <1>1, <1>2 DEF Reaches, Leads

LEMMA ReachesOn ==
  ASSUME NEW u \in Tasks, NEW v \in Tasks, NEW w \in Tasks, Reaches(u, v), Reaches(v, w)
  PROVE  Reaches(u, w)
<1> SUFFICES ASSUME NEW S \in SUBSET Tasks,
                    \A k \in Places : Known(k) /\ Deps[k].on \in S \cup {u} => Deps[k].task \in S
             PROVE  w \in S
  BY DEF Reaches
<1>1. v \in S BY DEF Reaches
<1>2. \A k \in Places : Known(k) /\ Deps[k].on \in S \cup {v} => Deps[k].task \in S BY <1>1
<1> QED BY <1>2 DEF Reaches

\* A task depends on itself through others of its component, or directly.
LEMMA ReachesItself ==
  ASSUME NEW v \in Tasks
  PROVE  /\ Component(v) = {t \in Tasks : t = v \/ (Reaches(v, t) /\ Reaches(t, v))}
         /\ Reaches(v, v) <=> Component(v) # {v} \/ IsSelf({v})
<1>1. v \in Component(v) BY LeadsAlong DEF Component
<1>2. \A t \in Tasks : t # v => (t \in Component(v) <=> Reaches(v, t) /\ Reaches(t, v))
  BY ReachesIsLeads DEF Component
<1>3. Component(v) = {t \in Tasks : t = v \/ (Reaches(v, t) /\ Reaches(t, v))}
  <2>1. Component(v) \subseteq Tasks BY DEF Component
  <2> QED BY <1>1, <1>2, <2>1
<1>4. ASSUME Component(v) # {v} PROVE Reaches(v, v)
  <2>1. PICK t \in Component(v) : t # v BY <1>1, <1>4
  <2>2. t \in Tasks BY DEF Component
  <2> QED BY <1>2, <2>1, <2>2, ReachesOn
<1>5. ASSUME IsSelf({v}) PROVE Reaches(v, v)
  <2>1. PICK k \in Places : Known(k) /\ Self(k) /\ {v} = {Deps[k].task} BY <1>5 DEF IsSelf
  <2>2. Deps[k].on = v /\ Deps[k].task = v BY <2>1 DEF Self
  <2> QED BY <2>1, <2>2 DEF Reaches
<1>6. ASSUME Reaches(v, v), Component(v) = {v}, ~IsSelf({v}) PROVE FALSE
  <2> DEFINE S == {x \in Tasks : Leads(v, x)} \ {v}
  <2>1. ASSUME NEW k \in Places, Known(k), Deps[k].on \in S \cup {v} PROVE Deps[k].task \in S
    <3> DEFINE x == Deps[k].on
               w == Deps[k].task
    <3>1. x \in Tasks /\ w \in Tasks BY <2>1 DEF Known
    <3>2. Leads(v, x) BY <2>1, <3>1, LeadsAlong
    <3>3. Edge(x, w) BY <2>1 DEF Edge
    <3>4. Leads(x, w) BY <3>1, <3>3, LeadsAlong
    <3>5. Leads(v, w) BY <3>2, <3>4, LeadsOn
    <3>6. ASSUME w = v PROVE FALSE
      <4>1. x \in Component(v) BY <3>1, <3>2, <3>4, <3>6 DEF Component
      <4>2. x = v BY <1>6, <4>1
      <4>3. IsSelf({v}) BY <2>1, <3>6, <4>2 DEF IsSelf, Self
      <4> QED BY <1>6, <4>3
    <3> QED BY <3>1, <3>5, <3>6
  <2>2. S \in SUBSET Tasks /\ v \notin S OBVIOUS
  <2> HIDE DEF S
  <2> QED BY <1>6, <2>1, <2>2 DEF Reaches
<1> QED BY <1>3, <1>4, <1>5, <1>6

LEMMA ExactAtVerdict == TInv /\ TarjanInv => CyclesAreExact
<1> SUFFICES ASSUME TInv, TarjanInv, pc = "verdict"
             PROVE  {Elements(c) : c \in cycles} =
                      {{t \in Tasks : t = v \/ (Reaches(v, t) /\ Reaches(t, v))} : v \in {u \in Tasks : Reaches(u, u)}}
                      \cup {{Deps[k].task} : k \in {j \in Places : Known(j) /\ Self(j)}}
  BY DEF CyclesAreExact
<1>1. nodes = Tasks /\ Stacked /\ Found /\ calls = << >> /\ Visited = Tasks BY DEF TarjanInv
<1>2. On = {} BY <1>1, NothingLeft
<1>3. ASSUME NEW c \in cycles
      PROVE  \/ \E k \in Places : Known(k) /\ Self(k) /\ Elements(c) = {Deps[k].task}
             \/ \E v \in Tasks : Reaches(v, v) /\ Elements(c) = Component(v)
  <2>1. CASE IsSelf(Elements(c)) BY <2>1 DEF IsSelf
  <2>2. CASE ~IsSelf(Elements(c))
    <3>1. PICK a \in Elements(c), b \in Elements(c) : a # b BY <1>1, <2>2 DEF Found
    <3>2. a \in Tasks /\ Elements(c) = Component(a) BY <1>1, <2>2, <3>1 DEF Found
    <3>3. Component(a) # {a} BY <3>1, <3>2
    <3> QED BY <3>2, <3>3, ReachesItself
  <2> QED BY <2>1, <2>2
<1>4. ASSUME NEW k \in Places, Known(k), Self(k) PROVE \E c \in cycles : Elements(c) = {Deps[k].task}
  BY <1>1, <1>4 DEF Found
<1>5. ASSUME NEW v \in Tasks, Reaches(v, v) PROVE \E c \in cycles : Elements(c) = Component(v)
  <2>1. Component(v) = {v} \/ \E c \in cycles : Elements(c) = Component(v) BY <1>1, <1>2 DEF Found
  <2>2. CASE Component(v) = {v}
    <3>1. IsSelf({v}) BY <1>5, <2>2, ReachesItself
    <3>2. PICK k \in Places : Known(k) /\ Self(k) /\ {v} = {Deps[k].task} BY <3>1 DEF IsSelf
    <3> QED BY <1>4, <2>2, <3>2
  <2> QED BY <2>1, <2>2
<1> DEFINE A == {Elements(c) : c \in cycles}
           B == {Component(v) : v \in {u \in Tasks : Reaches(u, u)}}
           C == {{Deps[k].task} : k \in {j \in Places : Known(j) /\ Self(j)}}
           D == {{t \in Tasks : t = v \/ (Reaches(v, t) /\ Reaches(t, v))} : v \in {u \in Tasks : Reaches(u, u)}}
<1>6. B = D
  <2>1. \A v \in Tasks : Component(v) = {t \in Tasks : t = v \/ (Reaches(v, t) /\ Reaches(t, v))}
    BY ReachesItself
  <2> QED BY <2>1
<1>7. A \subseteq B \cup C BY <1>3
<1>8. B \subseteq A BY <1>5
<1>9. C \subseteq A BY <1>4
<1> QED BY <1>6, <1>7, <1>8, <1>9

\* When validateDependencies answers, findCycles has named exactly the tasks that
\* depend on themselves, by strongly connected component: for every finite set of
\* tasks and every list of dependencies, the low numbers of Tarjan's search find
\* each component when its first node returns, and miss none.
THEOREM CyclesAreExactAlways == Spec => []CyclesAreExact
<1>1. Init => TarjanInv BY DEF Init, GraphInit, TarjanInv
<1> QED BY <1>1, InitTInv, StepTInv, StepTarjanInv, ExactAtVerdict, PTL DEF Spec

\* A task that leads to itself is in a set each of which waits for another.
LEMMA ComponentIsStuck ==
  ASSUME NEW v \in Tasks, Reaches(v, v) PROVE \E S \in SUBSET Tasks : Stuck(S)
<1>1. CASE IsSelf({v})
  <2>1. PICK k \in Places : Known(k) /\ Self(k) /\ {v} = {Deps[k].task} BY <1>1 DEF IsSelf
  <2>2. Stuck({v}) BY <2>1 DEF Stuck, Self
  <2>3. {v} \in SUBSET Tasks /\ {v} # {} OBVIOUS
  <2> QED BY <2>2, <2>3
<1>2. CASE ~IsSelf({v})
  <2> DEFINE C == Component(v)
  <2>1. v \in C /\ C # {v} /\ C \subseteq Tasks BY <1>2, ReachesItself, LeadsAlong DEF Component
  <2>2. \A x, y \in C : Leads(x, y) BY LeadsOn DEF Component
  <2>3. ASSUME NEW x \in C PROVE \E k \in Places : Deps[k].task = x /\ Deps[k].on \in C
    <3> SUFFICES ASSUME \A k \in Places : ~(Deps[k].task = x /\ Deps[k].on \in C) PROVE FALSE OBVIOUS
    <3>1. PICK t \in C : t # x BY <2>1
    <3> DEFINE S == {z \in Tasks : Leads(t, z)} \ {x}
    <3>2. ASSUME NEW z \in S, NEW w \in Tasks, Edge(z, w) PROVE w \in S
      <4>1. Leads(z, w) BY <3>2, LeadsAlong
      <4>2. Leads(t, w) BY <4>1, LeadsOn
      <4>3. ASSUME w = x PROVE FALSE
        <5>1. Leads(v, t) /\ Leads(x, v) BY <2>1, <2>2
        <5>2. Leads(v, z) BY <5>1, LeadsOn
        <5>3. Leads(z, v) BY <4>1, <4>3, <5>1, LeadsOn
        <5>4. z \in C BY <5>2, <5>3 DEF Component
        <5>5. PICK k \in Places : Deps[k].on = z /\ Deps[k].task = x BY <3>2, <4>3 DEF Edge
        <5> QED BY <5>4, <5>5
      <4> QED BY <4>2, <4>3
    <3>3. S \in SUBSET Tasks /\ t \in S /\ x \notin S BY <2>1, <3>1, LeadsAlong
    <3>4. Leads(t, x) BY <2>2, <3>1
    <3> HIDE DEF S
    <3>5. Closed(S) BY <3>2 DEF Closed
    <3> QED BY <3>3, <3>4, <3>5, StaysInside
  <2> HIDE DEF C
  <2>4. C # {} /\ Stuck(C) BY <2>1, <2>3 DEF Stuck
  <2> QED BY <2>1, <2>4
<1> QED BY <1>1, <1>2

\* And in such a set the task that fewest of it lead to leads to itself.
LEMMA StuckReachesItself ==
  ASSUME input \in Inputs, NEW S \in SUBSET Tasks, Stuck(S)
  PROVE  \E v \in Tasks : Reaches(v, v)
<1> DEFINE Ancestors(x) == {y \in S : Leads(y, x)}
           D == {Ancestors(x) : x \in S}
<1>1. IsFiniteSet(S) /\ S # {} BY InputFacts, FS_Subset DEF Stuck
<1>2. D \subseteq FiniteSubsetsOf(S) /\ D # {}
  <2>1. D \subseteq SUBSET S /\ D # {} BY <1>1
  <2> QED BY <1>1, <2>1, FS_FiniteSubsetsOfFinite
<1>3. \E U \in D : \A V \in D : ~(<<V, U>> \in StrictSubsetOrdering(S))
  <2> HIDE DEF D
  <2> QED BY <1>1, <1>2, FS_StrictSubsetOrderingWellFounded, WFMin
<1>4. PICK x \in S : \A y \in S : ~(<<Ancestors(y), Ancestors(x)>> \in StrictSubsetOrdering(S)) BY <1>3
<1>5. PICK k \in Places : Deps[k].task = x /\ Deps[k].on \in S BY DEF Stuck
<1> DEFINE p == Deps[k].on
<1>6. Known(k) /\ p \in Tasks /\ x \in Tasks BY <1>5 DEF Known
<1>7. Leads(p, x)
  <2>1. Edge(p, x) BY <1>5, <1>6 DEF Edge
  <2> QED BY <1>6, <2>1, LeadsAlong
<1>8. Ancestors(p) \subseteq Ancestors(x) BY <1>7, LeadsOn
<1>9. x \in Ancestors(x) BY <1>6, LeadsAlong
<1>10. Ancestors(p) = Ancestors(x)
  <2>1. Ancestors(p) \in SUBSET S /\ Ancestors(x) \in SUBSET S OBVIOUS
  <2>2. ~(<<Ancestors(p), Ancestors(x)>> \in StrictSubsetOrdering(S)) BY <1>4, <1>5
  <2> HIDE DEF Ancestors
  <2> QED BY <1>8, <2>1, <2>2 DEF StrictSubsetOrdering
<1>11. Leads(x, p) BY <1>9, <1>10
<1>12. CASE p = x
  <2>1. IsSelf({x}) BY <1>5, <1>6, <1>12 DEF IsSelf, Self
  <2> QED BY <1>6, <2>1, ReachesItself
<1>13. CASE p # x
  <2>1. p \in Component(x) BY <1>6, <1>7, <1>11 DEF Component
  <2>2. Component(x) # {x} BY <1>13, <2>1
  <2> QED BY <1>6, <2>2, ReachesItself
<1> QED BY <1>12, <1>13

\* Every set of tasks has one that depends on none of the set.
Acyclic == \A S \in SUBSET Tasks : S # {} => \E s \in S : \A k \in Places : Deps[k].task = s => Deps[k].on \notin S

\* validateDependencies reports no cycle exactly when every set of tasks has one that
\* depends on none of the set: what TaskService takes it for when a request replaces
\* dependencies (its operator Acyclic, on the edges of this request).
THEOREM NoCycleIsAcyclic == Spec => [](pc = "verdict" => (cycles = {} <=> Acyclic))
<1>1. TInv /\ TarjanInv => (pc = "verdict" => (cycles = {} <=> Acyclic))
  <2> SUFFICES ASSUME TInv, TarjanInv, pc = "verdict" PROVE cycles = {} <=> Acyclic OBVIOUS
  <2>1. Acyclic <=> ~\E S \in SUBSET Tasks : Stuck(S) BY DEF Acyclic, Stuck
  <2>2. Acyclic <=> ~\E v \in Tasks : Reaches(v, v)
    BY <2>1, ComponentIsStuck, StuckReachesItself DEF TInv
  <2>3. CyclesAreExact BY ExactAtVerdict
  <2>4. \A k \in Places : Known(k) /\ Self(k) => Deps[k].task \in Tasks /\ Reaches(Deps[k].task, Deps[k].task)
    <3> SUFFICES ASSUME NEW k \in Places, Known(k), Self(k)
                 PROVE  Deps[k].task \in Tasks /\ Reaches(Deps[k].task, Deps[k].task)
      OBVIOUS
    <3>1. Deps[k].task \in Tasks BY DEF Known
    <3>2. IsSelf({Deps[k].task}) BY DEF IsSelf
    <3> QED BY <3>1, <3>2, ReachesItself
  <2>5. cycles = {} <=> ~\E v \in Tasks : Reaches(v, v)
    <3> DEFINE A == {Elements(c) : c \in cycles}
               D == {{t \in Tasks : t = v \/ (Reaches(v, t) /\ Reaches(t, v))} : v \in {u \in Tasks : Reaches(u, u)}}
               E == {{Deps[k].task} : k \in {j \in Places : Known(j) /\ Self(j)}}
    <3>1. A = D \cup E BY <2>3 DEF CyclesAreExact
    <3>2. A = {} <=> cycles = {} OBVIOUS
    <3>3. D = {} <=> ~\E v \in Tasks : Reaches(v, v) OBVIOUS
    <3>4. D = {} => E = {} BY <2>4, <3>3
    <3> HIDE DEF A, D, E
    <3> QED BY <3>1, <3>2, <3>3, <3>4
  <2> QED BY <2>2, <2>5
<1>2. Init => TarjanInv BY DEF Init, GraphInit, TarjanInv
<1> QED BY <1>1, <1>2, InitTInv, StepTInv, StepTarjanInv, PTL DEF Spec

-----------------------------------------------------------------------------
(* The calendar, when no holiday lies before day 0.  One day further the     *)
(* arithmetic count grows by one exactly when the day is a working day, so   *)
(* it is the count of the working days one by one, and both loops of         *)
(* fromOrdinal end within Reach.                                             *)

SinceEpoch(c) == IsCalendar(c) /\ c.holidays \subseteq Nat
Slot(c, day) == DayOfWeek(day) \notin c.weekend
Slots(c, n) == (n \div 7) * PerWeek(c) + WeekPrefix(c, n % 7)
Passed(c, n) == {h \in Holidays(c) : 0 <= h /\ h < n}
Off(c) == Cardinality(Holidays(c))

LEMMA AddOne ==
  ASSUME NEW S, IsFiniteSet(S), NEW x, NEW T, T = S \cup {x}
  PROVE  IsFiniteSet(T) /\ Cardinality(S) \in Nat /\ Cardinality(T) = IF x \in S THEN Cardinality(S) ELSE Cardinality(S) + 1
BY FS_AddElement, FS_CardinalityType

LEMMA PrefixStep ==
  ASSUME NEW c, IsCalendar(c), NEW k \in Nat
  PROVE  /\ WeekPrefix(c, k) \in Nat
         /\ WeekPrefix(c, k + 1) = IF Slot(c, k) THEN WeekPrefix(c, k) + 1 ELSE WeekPrefix(c, k)
<1> DEFINE S == {i \in 0..(k - 1) : DayOfWeek(i) \notin c.weekend}
           T == {i \in 0..((k + 1) - 1) : DayOfWeek(i) \notin c.weekend}
<1>1. IsFiniteSet(S)
  <2>1. IsFiniteSet(0..(k - 1)) BY FS_Interval
  <2> QED BY <2>1, FS_Subset
<1>2. \A i : i \in 0..((k + 1) - 1) <=> i \in 0..(k - 1) \/ i = k OBVIOUS
<1>3. k \notin S OBVIOUS
<1>4. Cardinality(S) = WeekPrefix(c, k) /\ Cardinality(T) = WeekPrefix(c, k + 1) BY DEF WeekPrefix
<1>5. T = IF Slot(c, k) THEN S \cup {k} ELSE S BY <1>2 DEF Slot
<1> HIDE DEF S, T
<1>6. CASE Slot(c, k) BY <1>1, <1>3, <1>4, <1>5, <1>6, AddOne
<1>7. CASE ~Slot(c, k) BY <1>1, <1>4, <1>5, <1>7, FS_CardinalityType
<1> QED BY <1>6, <1>7

LEMMA WeekFacts ==
  ASSUME NEW c, IsCalendar(c)
  PROVE  /\ WeekPrefix(c, 0) = 0 /\ PerWeek(c) \in 1..7
         /\ \A k \in 0..6 : WeekPrefix(c, k) \in Nat
         /\ \A n \in 0..(PerWeek(c) - 1) :
              LET i == WorkOffset(c, n) IN i \in 0..6 /\ Slot(c, i) /\ WeekPrefix(c, i) = n
<1> DEFINE W(k) == WeekPrefix(c, k)
<1>1. W(0) = 0
  <2>1. {i \in 0..(0 - 1) : DayOfWeek(i) \notin c.weekend} = {} OBVIOUS
  <2> QED BY <2>1, FS_EmptySet DEF WeekPrefix
<1>2. \A k \in Nat : W(k) \in Nat /\ W(k + 1) = IF Slot(c, k) THEN W(k) + 1 ELSE W(k) BY PrefixStep
<1> HIDE DEF W
<1>3. /\ W(1) = IF Slot(c, 0) THEN W(0) + 1 ELSE W(0)
      /\ W(2) = IF Slot(c, 1) THEN W(1) + 1 ELSE W(1)
      /\ W(3) = IF Slot(c, 2) THEN W(2) + 1 ELSE W(2)
      /\ W(4) = IF Slot(c, 3) THEN W(3) + 1 ELSE W(3)
      /\ W(5) = IF Slot(c, 4) THEN W(4) + 1 ELSE W(4)
      /\ W(6) = IF Slot(c, 5) THEN W(5) + 1 ELSE W(5)
      /\ W(7) = IF Slot(c, 6) THEN W(6) + 1 ELSE W(6)
  BY <1>2
<1>4. \E i \in 0..6 : Slot(c, i)
  <2>1. PICK w \in 0..6 : w \notin c.weekend BY DEF IsCalendar, Weekdays
  <2>2. DayOfWeek((w + 3) % 7) = w /\ (w + 3) % 7 \in 0..6 BY DEF DayOfWeek, EpochDow
  <2> QED BY <2>1, <2>2 DEF Slot
<1>5. Slot(c, 0) \/ Slot(c, 1) \/ Slot(c, 2) \/ Slot(c, 3) \/ Slot(c, 4) \/ Slot(c, 5) \/ Slot(c, 6) BY <1>4
<1>6. W(7) \in 1..7 BY <1>1, <1>3, <1>5
<1>7. ASSUME NEW n \in 0..(W(7) - 1) PROVE \E i \in 0..6 : Slot(c, i) /\ W(i) = n
  <2> SUFFICES ASSUME \A i \in 0..6 : ~(Slot(c, i) /\ W(i) = n) PROVE FALSE OBVIOUS
  <2>1. ASSUME NEW k \in 0..6, W(k) <= n PROVE W(k + 1) <= n
    <3>1. W(k) \in Nat /\ W(k + 1) = IF Slot(c, k) THEN W(k) + 1 ELSE W(k) BY <1>2
    <3>2. n \in Int BY <1>6
    <3>3. CASE Slot(c, k)
      <4>1. W(k) # n BY <3>3
      <4> QED BY <2>1, <3>1, <3>2, <3>3, <4>1
    <3> QED BY <2>1, <3>1, <3>3
  <2>2. W(0) <= n BY <1>1, <1>6
  <2>3. W(1) <= n BY <2>1, <2>2
  <2>4. W(2) <= n BY <2>1, <2>3
  <2>5. W(3) <= n BY <2>1, <2>4
  <2>6. W(4) <= n BY <2>1, <2>5
  <2>7. W(5) <= n BY <2>1, <2>6
  <2>8. W(6) <= n BY <2>1, <2>7
  <2>9. W(7) <= n BY <2>1, <2>8
  <2> QED BY <1>6, <2>9
<1>8. PerWeek(c) = W(7) BY DEF PerWeek, W
<1>9. ASSUME NEW n \in 0..(PerWeek(c) - 1)
      PROVE  LET i == WorkOffset(c, n) IN i \in 0..6 /\ Slot(c, i) /\ WeekPrefix(c, i) = n
  <2>1. \E i \in Weekdays : DayOfWeek(i) \notin c.weekend /\ WeekPrefix(c, i) = n
    BY <1>7, <1>8, <1>9 DEF Slot, W, Weekdays
  <2> QED BY <2>1 DEF WorkOffset, Slot, Weekdays
<1>10. \A k \in 0..6 : W(k) \in Nat BY <1>2
<1> QED BY <1>1, <1>6, <1>8, <1>9, <1>10 DEF W

LEMMA SlotsStep ==
  ASSUME NEW c, IsCalendar(c), NEW n \in Int
  PROVE  Slots(c, n) \in Int /\ Slots(c, n + 1) = IF Slot(c, n) THEN Slots(c, n) + 1 ELSE Slots(c, n)
<1>1. PICK q \in Int, r \in 0..6 : n = 7 * q + r
  <2>1. n \div 7 \in Int /\ n % 7 \in 0..6 /\ n = 7 * (n \div 7) + (n % 7) OBVIOUS
  <2> QED BY <2>1
<1>2. n \div 7 = q /\ n % 7 = r BY <1>1
<1>3. Slot(c, n) <=> Slot(c, r)
  <2>1. (n + 4) % 7 = (r + 4) % 7 BY <1>1
  <2> QED BY <2>1 DEF Slot, DayOfWeek, EpochDow
<1> DEFINE P == PerWeek(c)
<1>4. P \in Int /\ WeekPrefix(c, 0) = 0 /\ WeekPrefix(c, r) \in Nat BY WeekFacts
<1>5. WeekPrefix(c, r + 1) = IF Slot(c, r) THEN WeekPrefix(c, r) + 1 ELSE WeekPrefix(c, r) BY PrefixStep
<1>6. q * P \in Int /\ (q + 1) * P = q * P + P
  <2> HIDE DEF P
  <2> QED BY <1>4
<1>7. Slots(c, n) = q * P + WeekPrefix(c, r) BY <1>2 DEF Slots
<1>8. CASE r # 6
  <2>1. (n + 1) \div 7 = q /\ (n + 1) % 7 = r + 1 BY <1>1, <1>8
  <2>2. Slots(c, n + 1) = q * P + WeekPrefix(c, r + 1) BY <2>1 DEF Slots
  <2> HIDE DEF P
  <2> QED BY <1>3, <1>4, <1>5, <1>6, <1>7, <2>2
<1>9. CASE r = 6
  <2>1. (n + 1) \div 7 = q + 1 /\ (n + 1) % 7 = 0 BY <1>1, <1>9
  <2>2. Slots(c, n + 1) = (q + 1) * P + WeekPrefix(c, 0) BY <2>1 DEF Slots
  <2>3. P = WeekPrefix(c, r + 1) BY <1>9 DEF PerWeek
  <2> HIDE DEF P
  <2> QED BY <1>3, <1>4, <1>5, <1>6, <1>7, <2>2, <2>3
<1> QED BY <1>8, <1>9

\* A week for each of m: at least m slots more.
LEMMA SlotsWeeks ==
  ASSUME NEW c, IsCalendar(c), NEW n \in Int, NEW m \in Nat
  PROVE  Slots(c, n + 7 * m) >= Slots(c, n) + m
<1>1. PICK q \in Int, r \in 0..6 : n = 7 * q + r
  <2>1. n \div 7 \in Int /\ n % 7 \in 0..6 /\ n = 7 * (n \div 7) + (n % 7) OBVIOUS
  <2> QED BY <2>1
<1>2. n \div 7 = q /\ n % 7 = r /\ (n + 7 * m) \div 7 = q + m /\ (n + 7 * m) % 7 = r BY <1>1
<1> DEFINE P == PerWeek(c)
<1>3. P \in 1..7 /\ WeekPrefix(c, r) \in Nat BY WeekFacts
<1>4. Slots(c, n) = q * P + WeekPrefix(c, r) /\ Slots(c, n + 7 * m) = (q + m) * P + WeekPrefix(c, r)
  BY <1>2 DEF Slots
<1> HIDE DEF P
<1>5. (q + m) * P = q * P + m * P /\ q * P \in Int /\ m * P \in Int BY <1>3
<1>6. m * P >= m
  <2>1. P = 1 \/ P = 2 \/ P = 3 \/ P = 4 \/ P = 5 \/ P = 6 \/ P = 7 BY <1>3
  <2> QED BY <2>1
<1> QED BY <1>3, <1>4, <1>5, <1>6

LEMMA PassedFacts ==
  ASSUME NEW c, SinceEpoch(c), NEW n \in Int
  PROVE  /\ Off(c) \in Nat /\ Cardinality(Passed(c, n)) \in 0..Off(c)
         /\ WorkingDaysUpTo(c, n) = Slots(c, n) - Cardinality(Passed(c, n))
         /\ WorkingDaysUpTo(c, n) \in Int
         /\ n <= 0 => Cardinality(Passed(c, n)) = 0
<1>1. IsFiniteSet(Holidays(c)) /\ Holidays(c) \subseteq Nat
  <2>1. Holidays(c) \subseteq c.holidays /\ IsFiniteSet(c.holidays) /\ c.holidays \subseteq Nat
    BY DEF SinceEpoch, IsCalendar, Holidays
  <2> QED BY <2>1, FS_Subset
<1>2. Passed(c, n) \subseteq Holidays(c) BY DEF Passed
<1>3. /\ Off(c) \in Nat /\ Cardinality(Passed(c, n)) \in Nat
      /\ Cardinality(Passed(c, n)) <= Cardinality(Holidays(c))
  BY <1>1, <1>2, FS_Subset, FS_CardinalityType DEF Off
<1>4. {h \in Holidays(c) : n <= h /\ h < 0} = {} BY <1>1
<1>5. Cardinality({h \in Holidays(c) : n <= h /\ h < 0}) = 0 BY <1>4, FS_EmptySet
<1>6. Slots(c, n) \in Int BY SlotsStep DEF SinceEpoch
<1>7. WorkingDaysUpTo(c, n) = Slots(c, n) - Cardinality(Passed(c, n))
  <2> DEFINE A == {h \in Holidays(c) : 0 <= h /\ h < n}
             B == {h \in Holidays(c) : n <= h /\ h < 0}
             weeks == (n \div 7) * PerWeek(c)
             rest == WeekPrefix(c, n % 7)
  <2>1. A = Passed(c, n) /\ Cardinality(B) = 0 /\ Slots(c, n) = weeks + rest BY <1>5 DEF Passed, Slots
  <2>2. weeks \in Int /\ rest \in Int
    <3>1. PerWeek(c) \in Int /\ n \div 7 \in Int /\ n % 7 \in 0..6 /\ \A k \in 0..6 : WeekPrefix(c, k) \in Nat
      BY WeekFacts DEF SinceEpoch
    <3> QED BY <3>1
  <2>3. WorkingDaysUpTo(c, n) = weeks + rest - Cardinality(A) + Cardinality(B) BY DEF WorkingDaysUpTo
  <2> HIDE DEF A, B, weeks, rest
  <2> QED BY <1>3, <2>1, <2>2, <2>3
<1>8. ASSUME n <= 0 PROVE Cardinality(Passed(c, n)) = 0
  <2>1. Passed(c, n) = {} BY <1>1, <1>8 DEF Passed
  <2> QED BY <2>1, FS_EmptySet
<1>9. Cardinality(Passed(c, n)) \in 0..Off(c) BY <1>3 DEF Off
<1> QED BY <1>3, <1>6, <1>7, <1>8, <1>9

LEMMA CountStep ==
  ASSUME NEW c, SinceEpoch(c), NEW n \in Int
  PROVE  WorkingDaysUpTo(c, n + 1) = IF IsWorkingDay(c, n) THEN WorkingDaysUpTo(c, n) + 1 ELSE WorkingDaysUpTo(c, n)
<1>1. IsFiniteSet(Passed(c, n)) /\ Holidays(c) \subseteq Nat
  <2>1. Holidays(c) \subseteq c.holidays /\ IsFiniteSet(c.holidays) /\ c.holidays \subseteq Nat
    BY DEF SinceEpoch, IsCalendar, Holidays
  <2>2. Passed(c, n) \subseteq c.holidays BY <2>1 DEF Passed
  <2> QED BY <2>1, <2>2, FS_Subset
<1>2. Passed(c, n + 1) = IF n \in Holidays(c) THEN Passed(c, n) \cup {n} ELSE Passed(c, n)
  BY <1>1 DEF Passed
<1>3. n \notin Passed(c, n) BY DEF Passed
<1>4. Cardinality(Passed(c, n)) \in Nat BY PassedFacts
<1>5. Cardinality(Passed(c, n + 1)) =
        IF n \in Holidays(c) THEN Cardinality(Passed(c, n)) + 1 ELSE Cardinality(Passed(c, n))
  <2>1. CASE n \in Holidays(c)
    <3>1. Passed(c, n + 1) = Passed(c, n) \cup {n} BY <1>2, <2>1
    <3>2. Cardinality(Passed(c, n) \cup {n}) = Cardinality(Passed(c, n)) + 1 BY <1>1, <1>3, FS_AddElement
    <3> QED BY <2>1, <3>1, <3>2
  <2>2. CASE n \notin Holidays(c) BY <1>2, <2>2
  <2> QED BY <2>1, <2>2
<1>6. n + 1 \in Int OBVIOUS
<1>7. /\ WorkingDaysUpTo(c, n) = Slots(c, n) - Cardinality(Passed(c, n))
      /\ WorkingDaysUpTo(c, n + 1) = Slots(c, n + 1) - Cardinality(Passed(c, n + 1))
  BY <1>6, PassedFacts
<1>8. Slots(c, n) \in Int /\ Slots(c, n + 1) = IF Slot(c, n) THEN Slots(c, n) + 1 ELSE Slots(c, n)
  BY SlotsStep DEF SinceEpoch
<1>9. n \in Holidays(c) => Slot(c, n) BY DEF Holidays, Slot
<1>10. IsWorkingDay(c, n) <=> Slot(c, n) /\ n \notin Holidays(c) BY DEF IsWorkingDay, Slot
<1> QED BY <1>4, <1>5, <1>7, <1>8, <1>9, <1>10

\* The count never falls, and rises past a working day.
LEMMA CountRises ==
  ASSUME NEW c, SinceEpoch(c), NEW a \in Int, NEW b \in Int, a <= b
  PROVE  /\ WorkingDaysUpTo(c, a) <= WorkingDaysUpTo(c, b)
         /\ IsWorkingDay(c, a) /\ a < b => WorkingDaysUpTo(c, a) < WorkingDaysUpTo(c, b)
         /\ (\A d \in a..(b - 1) : ~IsWorkingDay(c, d)) => WorkingDaysUpTo(c, b) = WorkingDaysUpTo(c, a)
<1> DEFINE W(d) == WorkingDaysUpTo(c, d)
<1>1. \A d \in Int : W(d) \in Int BY PassedFacts
<1>2. \A d \in Int : W(d + 1) = IF IsWorkingDay(c, d) THEN W(d) + 1 ELSE W(d) BY CountStep
<1> HIDE DEF W
<1>3. ASSUME NEW x \in Int, NEW y \in Int, x <= y PROVE W(x) <= W(y)
  <2> DEFINE S == {d \in x..y : ~(W(x) <= W(d))}
  <2> SUFFICES ASSUME S # {} PROVE FALSE BY <1>3
  <2>1. IsFiniteSet(S)
    <3>1. IsFiniteSet(x..y) BY FS_Interval
    <3> QED BY <3>1, FS_Subset
  <2>2. Least(S) \in S /\ \A d \in S : Least(S) <= d
    <3>1. S \subseteq Int OBVIOUS
    <3> HIDE DEF S
    <3> QED BY <2>1, <3>1, LeastExists
  <2>3. PICK d \in x..y : ~(W(x) <= W(d)) /\ \A e \in x..y : ~(W(x) <= W(e)) => d <= e BY <2>2
  <2>4. d # x BY <1>1, <1>3, <2>3
  <2>5. d - 1 \in x..y /\ W(x) <= W(d - 1) BY <2>3, <2>4
  <2>6. d - 1 \in Int /\ (d - 1) + 1 = d BY <2>5
  <2>7. W(d) = IF IsWorkingDay(c, d - 1) THEN W(d - 1) + 1 ELSE W(d - 1) BY <1>2, <2>6
  <2>8. W(d - 1) \in Int /\ W(x) \in Int /\ W(d) \in Int BY <1>1, <2>6
  <2>9. W(x) <= W(d)
    <3>1. CASE IsWorkingDay(c, d - 1) BY <2>5, <2>7, <2>8, <3>1
    <3>2. CASE ~IsWorkingDay(c, d - 1) BY <2>5, <2>7, <3>2
    <3> QED BY <3>1, <3>2
  <2> QED BY <2>3, <2>9
<1>4. ASSUME IsWorkingDay(c, a), a < b PROVE W(a) < W(b)
  <2>1. W(a + 1) = W(a) + 1 /\ W(a + 1) <= W(b) /\ W(a) \in Int /\ W(b) \in Int BY <1>1, <1>2, <1>3, <1>4
  <2> QED BY <2>1
<1>5. ASSUME \A d \in a..(b - 1) : ~IsWorkingDay(c, d) PROVE W(b) = W(a)
  <2> DEFINE S == {d \in a..b : W(d) # W(a)}
  <2> SUFFICES ASSUME S # {} PROVE FALSE OBVIOUS
  <2>1. IsFiniteSet(S)
    <3>1. IsFiniteSet(a..b) BY FS_Interval
    <3> QED BY <3>1, FS_Subset
  <2>2. Least(S) \in S /\ \A d \in S : Least(S) <= d
    <3>1. S \subseteq Int OBVIOUS
    <3> HIDE DEF S
    <3> QED BY <2>1, <3>1, LeastExists
  <2>3. PICK d \in a..b : W(d) # W(a) /\ \A e \in a..b : W(e) # W(a) => d <= e BY <2>2
  <2>4. d # a BY <2>3
  <2>5. d - 1 \in a..(b - 1) /\ d - 1 \in a..b /\ W(d - 1) = W(a) BY <2>3, <2>4
  <2>6. ~IsWorkingDay(c, d - 1) /\ (d - 1) + 1 = d /\ d - 1 \in Int BY <1>5, <2>5
  <2>7. W((d - 1) + 1) = W(d - 1) BY <1>2, <2>6
  <2> QED BY <2>3, <2>5, <2>6, <2>7
<1>6. W(a) <= W(b) BY <1>3
<1> QED BY <1>4, <1>5, <1>6 DEF W

\* The working days from day 0 to a day, counted one by one, or less those before 0.
Counted(c, day) ==
  IF day >= 0 THEN Cardinality({d \in 0..(day - 1) : IsWorkingDay(c, d)})
  ELSE -Cardinality({d \in day..(-1) : IsWorkingDay(c, d)})

LEMMA CountedStep ==
  ASSUME NEW c, NEW day \in Int
  PROVE  /\ Counted(c, day) \in Int /\ Counted(c, 0) = 0
         /\ Counted(c, day + 1) = IF IsWorkingDay(c, day) THEN Counted(c, day) + 1 ELSE Counted(c, day)
<1> DEFINE Up(x) == {d \in 0..(x - 1) : IsWorkingDay(c, d)}
           Down(x) == {d \in x..(-1) : IsWorkingDay(c, d)}
<1>1. ASSUME NEW x \in Int
      PROVE  IsFiniteSet(Up(x)) /\ IsFiniteSet(Down(x)) /\ Cardinality(Up(x)) \in Nat /\ Cardinality(Down(x)) \in Nat
  <2>1. IsFiniteSet(0..(x - 1)) /\ IsFiniteSet(x..(-1)) BY FS_Interval
  <2>2. IsFiniteSet(Up(x)) /\ IsFiniteSet(Down(x)) BY <2>1, FS_Subset
  <2> QED BY <2>2, FS_CardinalityType
<1>2. Cardinality(Up(0)) = 0 /\ Cardinality(Down(0)) = 0
  <2>1. Up(0) = {} /\ Down(0) = {} OBVIOUS
  <2> HIDE DEF Up, Down
  <2> QED BY <2>1, FS_EmptySet
<1>3. \A x \in Int : Counted(c, x) = IF x >= 0 THEN Cardinality(Up(x)) ELSE -Cardinality(Down(x))
  BY DEF Counted
<1>4. CASE day >= 0
  <2>1. \A d : d \in 0..((day + 1) - 1) <=> d \in 0..(day - 1) \/ d = day BY <1>4
  <2>2. Up(day + 1) = IF IsWorkingDay(c, day) THEN Up(day) \cup {day} ELSE Up(day) BY <2>1
  <2>3. day \notin Up(day) OBVIOUS
  <2>4. IsFiniteSet(Up(day)) /\ Cardinality(Up(day)) \in Nat BY <1>1
  <2> HIDE DEF Up, Down
  <2>5. Cardinality(Up(day) \cup {day}) = Cardinality(Up(day)) + 1 BY <2>3, <2>4, FS_AddElement
  <2>6. Counted(c, day) = Cardinality(Up(day)) /\ Counted(c, day + 1) = Cardinality(Up(day + 1)) BY <1>3, <1>4
  <2> QED BY <1>2, <1>3, <2>2, <2>4, <2>5, <2>6
<1>5. CASE day < 0
  <2>1. \A d : d \in day..(-1) <=> d \in (day + 1)..(-1) \/ d = day BY <1>5
  <2>2. Down(day) = IF IsWorkingDay(c, day) THEN Down(day + 1) \cup {day} ELSE Down(day + 1) BY <2>1
  <2>3. day \notin Down(day + 1) OBVIOUS
  <2>4. day + 1 \in Int OBVIOUS
  <2>5. IsFiniteSet(Down(day + 1)) /\ Cardinality(Down(day + 1)) \in Nat /\ Cardinality(Down(day)) \in Nat
    BY <1>1, <2>4
  <2> HIDE DEF Up, Down
  <2>6. Cardinality(Down(day + 1) \cup {day}) = Cardinality(Down(day + 1)) + 1 BY <2>3, <2>5, FS_AddElement
  <2>7. Counted(c, day) = -Cardinality(Down(day)) BY <1>3, <1>5
  <2>8. Counted(c, day + 1) = -Cardinality(Down(day + 1))
    <3>1. CASE day + 1 = 0 BY <1>2, <1>3, <3>1
    <3>2. CASE day + 1 # 0
      <4>1. ~(day + 1 >= 0) BY <1>5, <3>2
      <4> QED BY <1>3, <2>4, <4>1
    <3> QED BY <3>1, <3>2
  <2> QED BY <1>2, <1>3, <2>2, <2>5, <2>6, <2>7, <2>8
<1> QED BY <1>4, <1>5

LEMMA CountIsCounted ==
  ASSUME NEW c, SinceEpoch(c), NEW day \in Int
  PROVE  WorkingDaysUpTo(c, day) = Counted(c, day)
<1> DEFINE W(d) == WorkingDaysUpTo(c, d)
           R(d) == Counted(c, d)
<1>1. \A d \in Int : W(d) \in Int /\ R(d) \in Int BY PassedFacts, CountedStep
<1>2. \A d \in Int : W(d + 1) - W(d) = R(d + 1) - R(d)
  <2> SUFFICES ASSUME NEW d \in Int PROVE W(d + 1) - W(d) = R(d + 1) - R(d) OBVIOUS
  <2>1. W(d + 1) = IF IsWorkingDay(c, d) THEN W(d) + 1 ELSE W(d) BY CountStep
  <2>2. R(d + 1) = IF IsWorkingDay(c, d) THEN R(d) + 1 ELSE R(d) BY CountedStep
  <2>3. W(d) \in Int /\ R(d) \in Int BY <1>1
  <2> HIDE DEF W, R
  <2> QED BY <2>1, <2>2, <2>3
<1>3. W(0) = 0 /\ R(0) = 0
  <2>1. 0 \div 7 = 0 /\ 0 % 7 = 0 OBVIOUS
  <2>2. WeekPrefix(c, 0) = 0 /\ PerWeek(c) \in Int BY WeekFacts DEF SinceEpoch
  <2>3. Slots(c, 0) = 0 BY <2>1, <2>2 DEF Slots
  <2>4. W(0) = 0 BY <2>3, PassedFacts
  <2> QED BY <2>4, CountedStep
<1> HIDE DEF W, R
<1>4. CASE day >= 0
  <2> DEFINE S == {d \in 0..day : W(d) # R(d)}
  <2> SUFFICES ASSUME S # {} PROVE FALSE BY <1>4 DEF W, R
  <2>1. IsFiniteSet(S)
    <3>1. IsFiniteSet(0..day) BY FS_Interval
    <3> QED BY <3>1, FS_Subset
  <2>2. Least(S) \in S /\ \A d \in S : Least(S) <= d
    <3>1. S \subseteq Int OBVIOUS
    <3> HIDE DEF S
    <3> QED BY <2>1, <3>1, LeastExists
  <2>3. PICK d \in 0..day : W(d) # R(d) /\ \A e \in 0..day : W(e) # R(e) => d <= e BY <2>2
  <2>4. d # 0 BY <1>3, <2>3
  <2>5. d - 1 \in 0..day /\ (d - 1) + 1 = d /\ W(d - 1) = R(d - 1) BY <2>3, <2>4
  <2>6. d - 1 \in Int /\ W(d) - W(d - 1) = R(d) - R(d - 1) BY <1>2, <2>5
  <2>7. W(d) \in Int /\ R(d) \in Int /\ W(d - 1) \in Int /\ R(d - 1) \in Int BY <1>1, <2>6
  <2> QED BY <2>3, <2>5, <2>6, <2>7
<1>5. CASE day < 0
  <2> DEFINE S == {d \in day..0 : W(d) # R(d)}
  <2> SUFFICES ASSUME S # {} PROVE FALSE BY <1>5 DEF W, R
  <2>1. IsFiniteSet(S)
    <3>1. IsFiniteSet(day..0) BY FS_Interval
    <3> QED BY <3>1, FS_Subset
  <2>2. Greatest(S) \in S /\ \A d \in S : d <= Greatest(S)
    <3>1. S \subseteq Int OBVIOUS
    <3> HIDE DEF S
    <3> QED BY <2>1, <3>1, GreatestExists
  <2>3. PICK d \in day..0 : W(d) # R(d) /\ \A e \in day..0 : W(e) # R(e) => e <= d BY <2>2
  <2>4. d # 0 BY <1>3, <2>3
  <2>5. d + 1 \in day..0 /\ W(d + 1) = R(d + 1) BY <2>3, <2>4
  <2>6. d \in Int /\ d + 1 \in Int /\ W(d + 1) - W(d) = R(d + 1) - R(d) BY <1>2, <2>5
  <2>7. W(d) \in Int /\ R(d) \in Int /\ W(d + 1) \in Int /\ R(d + 1) \in Int BY <1>1, <2>6
  <2> QED BY <2>3, <2>5, <2>6, <2>7
<1> QED BY <1>4, <1>5

\* A week for each holiday and one more always holds another working day.
LEMMA ReachSuffices ==
  ASSUME NEW c, SinceEpoch(c), NEW a \in Int
  PROVE  /\ Reach(c) \in Nat /\ WorkingDaysUpTo(c, a + Reach(c)) >= Slots(c, a) + 1
         /\ \E d \in a..(a + Reach(c)) : IsWorkingDay(c, d)
<1> DEFINE m == Off(c) + 1
           b == a + 7 * m
<1>1. Off(c) \in Nat /\ m \in Nat /\ b \in Int /\ Reach(c) = 7 * m /\ a <= b
  <2>1. Off(c) \in Nat BY PassedFacts
  <2> QED BY <2>1 DEF Reach, Off
<1>2. Slots(c, b) >= Slots(c, a) + m BY <1>1, SlotsWeeks DEF SinceEpoch
<1>3. /\ WorkingDaysUpTo(c, b) = Slots(c, b) - Cardinality(Passed(c, b)) /\ Cardinality(Passed(c, b)) \in 0..Off(c)
      /\ WorkingDaysUpTo(c, a) = Slots(c, a) - Cardinality(Passed(c, a)) /\ Cardinality(Passed(c, a)) \in 0..Off(c)
  BY <1>1, PassedFacts
<1>4. Slots(c, a) \in Int /\ Slots(c, b) \in Int BY <1>1, SlotsStep DEF SinceEpoch
<1> HIDE DEF b
<1>5. WorkingDaysUpTo(c, b) >= Slots(c, a) + 1 BY <1>1, <1>2, <1>3, <1>4
<1>6. WorkingDaysUpTo(c, b) # WorkingDaysUpTo(c, a) BY <1>1, <1>3, <1>4, <1>5
<1>7. PICK d \in a..(b - 1) : IsWorkingDay(c, d) BY <1>1, <1>6, CountRises
<1>8. d \in a..b BY <1>1
<1> QED BY <1>1, <1>5, <1>7, <1>8 DEF b

\* fromOrdinal answers with the working day of that number.
LEMMA FromOrdinalIs ==
  ASSUME NEW c, SinceEpoch(c), NEW u \in Int
  PROVE  /\ FromOrdinal(c, u) \in Int /\ IsWorkingDay(c, FromOrdinal(c, u))
         /\ WorkingDaysUpTo(c, FromOrdinal(c, u)) = u
<1> DEFINE P == PerWeek(c)
           weeks == u \div P
           o == WorkOffset(c, u % P)
           guess == weeks * 7 + o
           X == {d \in guess..(guess + Reach(c)) : WorkingDaysUpTo(c, d) >= u}
           x == Least(X)
           Y == {d \in x..(x + Reach(c)) : IsWorkingDay(c, d)}
           y == Least(Y)
<1>1. P \in 1..7 BY WeekFacts DEF SinceEpoch
<1>2. weeks \in Int /\ u % P \in 0..(P - 1) /\ u = weeks * P + (u % P)
  <2> HIDE DEF P
  <2>1. P = 1 \/ P = 2 \/ P = 3 \/ P = 4 \/ P = 5 \/ P = 6 \/ P = 7 BY <1>1
  <2> QED BY <2>1
<1>3. o \in 0..6 /\ WeekPrefix(c, o) = u % P
  <2>1. LET i == WorkOffset(c, u % P) IN i \in 0..6 /\ Slot(c, i) /\ WeekPrefix(c, i) = u % P
    BY <1>2, WeekFacts DEF SinceEpoch
  <2> QED BY <2>1
<1>4. FromOrdinal(c, u) = y BY DEF FromOrdinal, NextWorkingDay
<1> HIDE DEF weeks, o
<1>5. guess \in Int /\ Slots(c, guess) = u
  <2>1. guess \in Int /\ guess \div 7 = weeks /\ guess % 7 = o BY <1>2, <1>3
  <2> HIDE DEF guess, P
  <2>2. Slots(c, guess) = weeks * PerWeek(c) + WeekPrefix(c, o) BY <2>1 DEF Slots
  <2> QED BY <1>2, <1>3, <2>1, <2>2 DEF P
<1> HIDE DEF guess
<1>6. Reach(c) \in Nat /\ WorkingDaysUpTo(c, guess + Reach(c)) >= u
  <2>1. Reach(c) \in Nat /\ WorkingDaysUpTo(c, guess + Reach(c)) >= Slots(c, guess) + 1 BY <1>5, ReachSuffices
  <2>2. WorkingDaysUpTo(c, guess + Reach(c)) \in Int BY <1>5, <2>1, PassedFacts
  <2> QED BY <1>5, <2>1, <2>2
<1>7. x \in X /\ \A d \in X : x <= d
  <2>1. IsFiniteSet(X)
    <3>1. IsFiniteSet(guess..(guess + Reach(c))) BY <1>5, <1>6, FS_Interval
    <3> QED BY <3>1, FS_Subset
  <2>2. X \subseteq Int /\ X # {}
    <3>1. guess + Reach(c) \in guess..(guess + Reach(c)) BY <1>5, <1>6
    <3>2. guess + Reach(c) \in X BY <1>6, <3>1
    <3> QED BY <1>5, <1>6, <3>2
  <2> HIDE DEF X
  <2> QED BY <2>1, <2>2, LeastExists
<1>8. x \in Int /\ guess <= x BY <1>5, <1>6, <1>7
<1>9. WorkingDaysUpTo(c, x) = u
  <2> HIDE DEF x
  <2>1. WorkingDaysUpTo(c, x) >= u BY <1>7
  <2>2. WorkingDaysUpTo(c, x) \in Int BY <1>8, PassedFacts
  <2>3. CASE x = guess
    <3>1. WorkingDaysUpTo(c, x) = u - Cardinality(Passed(c, x)) /\ Cardinality(Passed(c, x)) \in 0..Off(c) /\ Off(c) \in Nat
      BY <1>5, <2>3, PassedFacts
    <3> QED BY <2>1, <2>2, <3>1
  <2>4. CASE x # guess
    <3>1. x - 1 \in guess..(guess + Reach(c)) /\ ~(x <= x - 1) BY <1>5, <1>6, <1>7, <1>8, <2>4
    <3>2. ~(WorkingDaysUpTo(c, x - 1) >= u) BY <1>7, <3>1
    <3>3. x - 1 \in Int /\ (x - 1) + 1 = x BY <1>8
    <3>4. WorkingDaysUpTo(c, x) = IF IsWorkingDay(c, x - 1) THEN WorkingDaysUpTo(c, x - 1) + 1 ELSE WorkingDaysUpTo(c, x - 1)
      BY <3>3, CountStep
    <3>5. WorkingDaysUpTo(c, x - 1) \in Int BY <3>3, PassedFacts
    <3> QED BY <2>1, <2>2, <3>2, <3>4, <3>5
  <2> QED BY <2>3, <2>4
<1> HIDE DEF x, X
<1>10. y \in Y /\ \A d \in Y : y <= d
  <2>1. IsFiniteSet(Y)
    <3>1. IsFiniteSet(x..(x + Reach(c))) BY <1>6, <1>8, FS_Interval
    <3> QED BY <3>1, FS_Subset
  <2>2. Y \subseteq Int /\ Y # {} BY <1>6, <1>8, ReachSuffices
  <2> HIDE DEF Y
  <2> QED BY <2>1, <2>2, LeastExists
<1> HIDE DEF y
<1>11. y \in x..(x + Reach(c)) /\ y \in Int /\ x <= y /\ IsWorkingDay(c, y) BY <1>6, <1>8, <1>10
<1>12. \A d \in x..(y - 1) : ~IsWorkingDay(c, d)
  <2> SUFFICES ASSUME NEW d \in x..(y - 1), IsWorkingDay(c, d) PROVE FALSE OBVIOUS
  <2>1. d \in x..(x + Reach(c)) /\ ~(y <= d) BY <1>6, <1>8, <1>11
  <2> QED BY <1>10, <2>1
<1>13. WorkingDaysUpTo(c, y) = u BY <1>8, <1>9, <1>11, <1>12, CountRises
<1> QED BY <1>4, <1>11, <1>13

HolidaysSinceEpoch == Calendar # None => Calendar.holidays \subseteq Nat

\* When no holiday lies before 1970, computeRollup's dates are working days, on which
\* exactly as many working days have passed as the schedule says, and no task starts
\* before the day asked for: for every calendar, schedule and start (toOrdinal,
\* fromOrdinal).  A holiday before 1970 breaks it: the loop of fromOrdinal only steps
\* forward, and its guess may already be too late.
THEOREM DatesAreWorkingDaysAlways == Spec => [](HolidaysSinceEpoch => DatesAreWorkingDays)
<1>1. IInv => (HolidaysSinceEpoch => DatesAreWorkingDays)
  <2> SUFFICES ASSUME IInv, HolidaysSinceEpoch, pc = "done", Calendar # None PROVE DatesAreWorkingDays
    BY DEF DatesAreWorkingDays
  <2>1. input \in Inputs /\ es \in [Ids -> Int] /\ lf \in [Ids -> Int] BY DEF IInv, TInv, TypeOK
  <2>2. Tasks \subseteq Ids /\ SinceEpoch(Calendar) BY <2>1, InputFacts DEF HolidaysSinceEpoch, SinceEpoch
  <2>3. ASSUME NEW u \in Int
        PROVE  /\ ToDay(u) \in Int /\ IsWorkingDay(Calendar, ToDay(u)) /\ WorkingDaysUpTo(Calendar, ToDay(u)) = u
               /\ u = Counted(Calendar, ToDay(u))
    <3>1. ToDay(u) = FromOrdinal(Calendar, u) BY DEF ToDay
    <3>2. ToDay(u) \in Int /\ IsWorkingDay(Calendar, ToDay(u)) /\ WorkingDaysUpTo(Calendar, ToDay(u)) = u
      BY <2>2, <3>1, FromOrdinalIs
    <3> QED BY <2>2, <3>2, CountIsCounted
  <2>4. ASSUME NEW u \in {es[t] : t \in Tasks} \cup {lf[t] : t \in Tasks}
        PROVE  IsWorkingDay(Calendar, ToDay(u)) /\ u = Counted(Calendar, ToDay(u))
    <3>1. u \in Int BY <2>1, <2>2
    <3> QED BY <2>3, <3>1
  <2>5. ASSUME NEW t \in Tasks, input.start[t] # None PROVE ToDay(es[t]) >= input.start[t]
    <3> DEFINE s == input.start[t]
               day == ToDay(es[t])
    <3>1. t \in Ids /\ s \in Int BY <2>1, <2>2, <2>5, InputFacts
    <3>2. es[t] >= WorkingDaysUpTo(Calendar, s)
      <4>1. es[t] >= StartConstraint(t) BY KeptAtTheEnd DEF BothCanBeKept, Feasible
      <4> QED BY <2>5, <4>1 DEF StartConstraint, FromDay, ToOrdinal
    <3>3. es[t] \in Int BY <2>1, <3>1
    <3>4. day \in Int /\ IsWorkingDay(Calendar, day) /\ WorkingDaysUpTo(Calendar, day) = es[t] BY <2>3, <3>3
    <3> HIDE DEF s, day
    <3>5. ASSUME day < s PROVE FALSE
      <4>1. WorkingDaysUpTo(Calendar, day) < WorkingDaysUpTo(Calendar, s) BY <2>2, <3>1, <3>4, <3>5, CountRises
      <4>2. WorkingDaysUpTo(Calendar, s) \in Int BY <2>2, <3>1, PassedFacts
      <4> QED BY <3>2, <3>3, <3>4, <4>1, <4>2 DEF s
    <3>6. day >= s BY <3>1, <3>4, <3>5
    <3> QED BY <3>6 DEF s, day
  <2> QED BY <2>4, <2>5 DEF DatesAreWorkingDays, Counted
<1> QED BY <1>1, InitIInv, StepIInv, PTL DEF Spec
=============================================================================
