---------------------------- MODULE NavPanelProofs ----------------------------
(***************************************************************************)
(* The panel's types, that agents can be reached and that the selection    *)
(* stays, for every number of plans, agents and acts.                      *)
(*                                                                         *)
(* The rows are a sequence that is built by filters and concatenations.    *)
(* What the properties need of them is the set of the rows: RowSet, which  *)
(* the first part shows AllRows to have, whatever their order.  An         *)
(* operation ends in a rebuild, and a panel that is rebuilt is Good when   *)
(* its finished plans were partitioned for the instances it has (Unpast).  *)
(* That is the inductive invariant, NavInv, with the types.                *)
(*                                                                         *)
(* The selection survives a rebuild when what is selected keeps a row and  *)
(* the identifiers of rows tell instances apart (RebuildKeeps).  Where a   *)
(* step rebuilds twice, the row must not be away in between: what the      *)
(* panel has counted covers what there is to count (Covered), so a second  *)
(* count gives a plan no row that the first took away (CalmerRows).        *)
(***************************************************************************)
EXTENDS NavPanel, SharedProofs
----------------------------------------------------------------------------
(* Sequences and the sets of their elements *)

\* A nonempty set of naturals has its Min in it.
LEMMA MinFacts ==
    ASSUME NEW I \in SUBSET Nat, I # {}
    PROVE  Min(I) \in I /\ \A k \in I : Min(I) <= k
<1>1. \E m \in I : \A k \in I : m <= k
  BY NatMin
<1> QED BY <1>1 DEF Min

\* A bounded one has its Max.
LEMMA MaxFacts ==
    ASSUME NEW b \in Nat, NEW I \in SUBSET (0 .. b), I # {}
    PROVE  Max(I) \in I /\ \A k \in I : k <= Max(I)
<1>1. \E m \in I : \A k \in I : k <= m
  <2>1. I \in SUBSET Nat /\ \A k \in I : k <= b
    OBVIOUS
  <2> QED BY ONLY <2>1, I # {}, b \in Nat, NatMax
<1> QED BY <1>1 DEF Max

\* The recursion of FlattenSeq, from the empty sequence.
LEMMA FlattenSteps ==
    ASSUME NEW T, NEW ss \in Seq(Seq(T))
    PROVE  \E f \in [0 .. Len(ss) -> Seq(T)] :
              /\ f[0] = << >>
              /\ \A k \in 1 .. Len(ss) : f[k] = f[k - 1] \o ss[k]
              /\ FlattenSeq(ss) = f[Len(ss)]
<1> DEFINE N == Len(ss)
           step == [k \in 1 .. N |-> [q \in Seq(T) |-> q \o ss[k]]]
           Eqn(f) == f = [k \in 1 .. N |-> IF k = 1 THEN ss[k] ELSE f[k - 1] \o ss[k]]
<1>1. N \in Nat /\ << >> \in Seq(T)
  OBVIOUS
<1>2. \A k \in 1 .. N : ss[k] \in Seq(T)
  OBVIOUS
<1>3. \A k \in 1 .. N : \A q \in Seq(T) : q \o ss[k] \in Seq(T)
  BY <1>2
<1>4. FlattenSeq(ss) = IF N = 0 THEN ss ELSE (CHOOSE g : Eqn(g))[N]
  BY DEF FlattenSeq
<1>5. N = 0 => ss = << >>
  OBVIOUS
<1> HIDE DEF N
<1>6. step \in [1 .. N -> [Seq(T) -> Seq(T)]]
  BY <1>3
<1>7. PICK f : DefinedBySteps(f, N, Seq(T), << >>, step)
  <2> HIDE DEF step
  <2> QED BY <1>1, <1>6, Recursion
<1>8. /\ f \in [0 .. N -> Seq(T)] /\ f[0] = << >>
      /\ \A k \in 1 .. N : f[k] = f[k - 1] \o ss[k]
  <2>1. /\ f \in [0 .. N -> Seq(T)] /\ f[0] = << >>
        /\ \A k \in 1 .. N : f[k] = step[k][f[k - 1]]
    BY <1>7 DEF DefinedBySteps
  <2>2. \A k \in 1 .. N : k - 1 \in 0 .. N
    BY <1>1
  <2> QED BY <2>1, <2>2
<1>9. CASE N = 0
  BY <1>4, <1>5, <1>8, <1>9 DEF N
<1>10. CASE N # 0
  <2> DEFINE e == [k \in 1 .. N |-> f[k]]
             g == CHOOSE h : Eqn(h)
  <2>1. Eqn(e)
    <3>1. ASSUME NEW k \in 1 .. N, k = 1 PROVE f[k] = ss[k]
      <4>1. f[k] = << >> \o ss[k]
        <5>1. f[k] = f[k - 1] \o ss[k]
          BY <1>8
        <5>2. k - 1 = 0
          BY <3>1
        <5> QED BY <5>1, <5>2, <1>8
      <4>2. ss[k] \in Seq(T)
        BY <1>2
      <4> QED BY <4>1, <4>2
    <3>2. ASSUME NEW k \in 1 .. N, k # 1 PROVE f[k] = e[k - 1] \o ss[k]
      <4>1. k - 1 \in 1 .. N
        BY <1>1, <3>2
      <4> QED BY <1>8, <4>1
    <3>3. \A k \in 1 .. N : e[k] = IF k = 1 THEN ss[k] ELSE e[k - 1] \o ss[k]
      BY <3>1, <3>2
    <3> QED BY <3>3
  <2>2. Eqn(g)
    <3> HIDE DEF Eqn, e
    <3> QED BY <2>1
  <2>3. FlattenSeq(ss) = g[N]
    BY <1>4, <1>10
  <2> HIDE DEF g
  <2>4. \A k \in 1 .. N : g[k] = IF k = 1 THEN ss[k] ELSE g[k - 1] \o ss[k]
    BY <2>2
  <2> DEFINE I == {k \in Nat : k + 1 <= N => g[k + 1] = f[k + 1]}
  <2>5. I \in SUBSET Nat
    OBVIOUS
  <2>6. 0 \in I
    <3>1. 1 \in 1 .. N
      BY <1>1, <1>10
    <3>2. g[1] = ss[1] /\ ss[1] \in Seq(T)
      BY <1>2, <2>4, <3>1
    <3>3. f[1] = << >> \o ss[1]
      <4>1. \A k \in 1 .. N : k = 1 => k - 1 = 0
        OBVIOUS
      <4>2. \A k \in 1 .. N : k = 1 => f[k] = f[0] \o ss[k]
        BY <4>1, <1>8
      <4> QED BY <4>2, <3>1, <1>8
    <3> QED BY <3>2, <3>3
  <2>7. ASSUME NEW k \in I PROVE k + 1 \in I
    <3> SUFFICES ASSUME (k + 1) + 1 <= N PROVE g[(k + 1) + 1] = f[(k + 1) + 1]
      OBVIOUS
    <3>1. /\ k \in Nat /\ k + 1 <= N /\ (k + 1) + 1 \in 1 .. N /\ (k + 1) + 1 # 1
          /\ ((k + 1) + 1) - 1 = k + 1
      BY <1>1
    <3>2. g[k + 1] = f[k + 1]
      BY <3>1
    <3>3. g[(k + 1) + 1] = g[k + 1] \o ss[(k + 1) + 1]
      BY <2>4, <3>1
    <3>4. f[(k + 1) + 1] = f[k + 1] \o ss[(k + 1) + 1]
      BY <1>8, <3>1
    <3> QED BY <3>2, <3>3, <3>4
  <2> HIDE DEF I
  <2>8. I = Nat
    BY <2>5, <2>6, <2>7, NatSetInduction
  <2>9. g[N] = f[N]
    <3>1. N - 1 \in I /\ (N - 1) + 1 = N
      BY <1>1, <1>10, <2>8
    <3> QED BY <1>1, <3>1 DEF I
  <2> QED BY <1>8, <2>3, <2>9 DEF N
<1> QED BY <1>9, <1>10

\* FlattenSeq has the elements of all its sequences.
LEMMA FlattenFacts ==
    ASSUME NEW T, NEW ss \in Seq(Seq(T))
    PROVE  /\ FlattenSeq(ss) \in Seq(T)
           /\ ToSet(FlattenSeq(ss)) = UNION {ToSet(ss[k]) : k \in DOMAIN ss}
<1> DEFINE N == Len(ss)
<1>1. N \in Nat /\ DOMAIN ss = 1 .. N /\ \A k \in 1 .. N : ss[k] \in Seq(T)
  OBVIOUS
<1>2. PICK f \in [0 .. N -> Seq(T)] :
         /\ f[0] = << >>
         /\ \A k \in 1 .. N : f[k] = f[k - 1] \o ss[k]
         /\ FlattenSeq(ss) = f[N]
  BY FlattenSteps
<1> HIDE DEF N
<1> DEFINE Upto(k) == UNION {ToSet(ss[j]) : j \in 1 .. k}
           I == {k \in Nat : k <= N => ToSet(f[k]) = Upto(k)}
<1>3. I \in SUBSET Nat
  OBVIOUS
<1>4. 0 \in I
  <2>1. ToSet(f[0]) = {} /\ Upto(0) = {}
    BY <1>2, FewSet
  <2> QED BY <2>1
<1>5. ASSUME NEW k \in I PROVE k + 1 \in I
  <2> SUFFICES ASSUME k + 1 <= N PROVE ToSet(f[k + 1]) = Upto(k + 1)
    OBVIOUS
  <2>1. /\ k \in Nat /\ k <= N /\ k \in 0 .. N /\ k + 1 \in 1 .. N /\ (k + 1) - 1 = k
        /\ ToSet(f[k]) = Upto(k)
    BY <1>1
  <2>2. Upto(k + 1) = Upto(k) \cup ToSet(ss[k + 1])
    <3>1. \A j : j \in 1 .. k + 1 <=> (j \in 1 .. k \/ j = k + 1)
      BY <2>1
    <3> QED BY <3>1
  <2>3. f[k] \in Seq(T) /\ ss[k + 1] \in Seq(T)
    BY <1>1, <1>2, <2>1
  <2>4. f[k + 1] = f[k] \o ss[k + 1]
    BY <1>2, <2>1
  <2>5. ToSet(f[k + 1]) = ToSet(f[k]) \cup ToSet(ss[k + 1])
    BY <2>3, <2>4, CatSet
  <2> HIDE DEF Upto
  <2> QED BY <2>1, <2>2, <2>5
<1> HIDE DEF I
<1>6. I = Nat
  BY <1>3, <1>4, <1>5, NatSetInduction
<1>7. ToSet(f[N]) = Upto(N)
  <2>1. N \in I /\ N <= N
    BY <1>1, <1>6
  <2> QED BY <2>1 DEF I
<1>8. f[N] \in Seq(T)
  BY <1>1, <1>2
<1> QED BY <1>1, <1>2, <1>7, <1>8

----------------------------------------------------------------------------
(* What the panel and the instances are *)

\* An instance's fields, and those that never change: the plan, and an agent's title.
InstRec == [title : Titles, plan : Plans \cup {0}, notified : BOOLEAN,
            status : {"new", "loading", "running", "ready", "paused"}]

\* The plan of an instance: the one being named has none.
PlanFor(x) == IF x = New THEN 0 ELSE PlanOf[x]

\* The records of the instances.
AtOK(i) ==
    /\ i \in [Insts -> InstRec]
    /\ \A x \in Insts : i[x].plan = PlanFor(x)

\* The panel's fields.
Panel == [rows : Seq(Row), sel : Nat, list : Seq(Insts), plans : SUBSET Plans,
          topic : SUBSET InTopic, dead : Seq(Plans), promoted : Seq(Plans),
          history : Seq(Plans), running : SUBSET Plans, notes : SUBSET Plans,
          folded : SUBSET (Plans \cup {0}), overrides : SUBSET Plans,
          inspected : SUBSET Plans, deadOpen : BOOLEAN, histOpen : BOOLEAN,
          query : Plans \cup {0}, shown : [Plans -> Status]]

\* The members of a record of an instance.
LEMMA AtFacts ==
    ASSUME NEW i, AtOK(i), NEW x \in Insts
    PROVE  /\ i[x] \in InstRec /\ i[x].title \in Titles /\ i[x].plan \in Plans \cup {0}
           /\ i[x].notified \in BOOLEAN /\ i[x].plan = PlanFor(x)
BY DEF AtOK, InstRec

\* The instances of a plan.
Members(m, p) == {x \in ToSet(m.list) : PlanFor(x) = p}

\* The instances of a plan are those of the list.
LEMMA OfFacts ==
    ASSUME NEW m \in Panel, NEW i, AtOK(i), NEW p
    PROVE  /\ Of(m, p, i) \in Seq(Insts)
           /\ ToSet(Of(m, p, i)) = Members(m, p)
           /\ ToSet(m.list) \subseteq Insts
<1> DEFINE S == {x \in Insts : i[x].plan = p}
<1>1. m.list \in Seq(Insts)
  BY DEF Panel
<1>2. Only(m.list, S) \in Seq(Insts) /\ ToSet(Only(m.list, S)) = ToSet(m.list) \cap S
  BY <1>1, OnlyFacts
<1>3. ToSet(m.list) \subseteq Insts
  BY <1>1, FewSet
<1>4. ToSet(m.list) \cap S = Members(m, p)
  BY <1>3 DEF Members, AtOK
<1> QED BY <1>2, <1>3, <1>4 DEF Of

\* Sorting keeps the instances.
LEMMA TitledFacts ==
    ASSUME NEW i, AtOK(i), NEW list \in Seq(Insts)
    PROVE  Titled(list, i) \in Seq(Insts) /\ ToSet(Titled(list, i)) = ToSet(list)
<1> DEFINE S(t) == {x \in Insts : i[x].title = t - 1}
           ss == [t \in 1 .. NTitles + 1 |-> Only(list, S(t))]
<1>1. \A t \in 1 .. NTitles + 1 :
         Only(list, S(t)) \in Seq(Insts) /\ ToSet(Only(list, S(t))) = ToSet(list) \cap S(t)
  BY OnlyFacts
<1>2. NTitles \in Nat
  BY NavAssumption
<1>3. Titled(list, i) = FlattenSeq(ss)
  BY DEF Titled
<1>4. ToSet(list) \subseteq Insts
  BY FewSet
<1>5. \A x \in Insts : i[x].title + 1 \in 1 .. NTitles + 1 /\ (i[x].title + 1) - 1 = i[x].title
  BY <1>2, AtFacts DEF Titles
<1>6. \A x \in Insts : x \in S(i[x].title + 1)
  BY <1>5
<1> HIDE DEF S
<1>7. ss \in Seq(Seq(Insts)) /\ DOMAIN ss = 1 .. NTitles + 1
  BY <1>1, <1>2
<1>8. \A t \in 1 .. NTitles + 1 : ToSet(ss[t]) = ToSet(list) \cap S(t)
  BY <1>1
<1> HIDE DEF ss
<1>9. /\ FlattenSeq(ss) \in Seq(Insts)
      /\ ToSet(FlattenSeq(ss)) = UNION {ToSet(ss[k]) : k \in DOMAIN ss}
  BY <1>7, FlattenFacts
<1>10. UNION {ToSet(ss[k]) : k \in DOMAIN ss} = ToSet(list)
  BY <1>4, <1>5, <1>6, <1>7, <1>8
<1> QED BY <1>3, <1>9, <1>10

\* sortInstances keeps the instances.
LEMMA SortedFacts ==
    ASSUME NEW i, AtOK(i), NEW list \in Seq(Insts)
    PROVE  Sorted(list, i) \in Seq(Insts) /\ ToSet(Sorted(list, i)) = ToSet(list)
<1> DEFINE S(k) == {x \in Insts : InstKey(i[x]) = k - 1}
           ss == [k \in 1 .. 4 |-> Titled(Only(list, S(k)), i)]
<1>1. \A k \in 1 .. 4 :
         Only(list, S(k)) \in Seq(Insts) /\ ToSet(Only(list, S(k))) = ToSet(list) \cap S(k)
  BY OnlyFacts
<1>2. \A k \in 1 .. 4 : /\ Titled(Only(list, S(k)), i) \in Seq(Insts)
                        /\ ToSet(Titled(Only(list, S(k)), i)) = ToSet(list) \cap S(k)
  BY <1>1, TitledFacts
<1>3. Sorted(list, i) = FlattenSeq(ss)
  BY DEF Sorted
<1>4. ToSet(list) \subseteq Insts
  BY FewSet
<1>5. \A x \in Insts : \E k \in 1 .. 4 : x \in S(k)
  <2> TAKE x \in Insts
  <2>1. InstKey(i[x]) \in {0, 1, 2, 3}
    BY DEF InstKey
  <2>2. \A j \in {0, 1, 2, 3} : j + 1 \in 1 .. 4 /\ (j + 1) - 1 = j
    OBVIOUS
  <2>3. InstKey(i[x]) + 1 \in 1 .. 4 /\ (InstKey(i[x]) + 1) - 1 = InstKey(i[x])
    BY <2>1, <2>2
  <2> QED BY <2>3
<1> HIDE DEF S
<1>7. ss \in Seq(Seq(Insts)) /\ DOMAIN ss = 1 .. 4
  BY <1>2
<1>8. \A t \in 1 .. 4 : ToSet(ss[t]) = ToSet(list) \cap S(t)
  BY <1>2
<1> HIDE DEF ss
<1>9. /\ FlattenSeq(ss) \in Seq(Insts)
      /\ ToSet(FlattenSeq(ss)) = UNION {ToSet(ss[k]) : k \in DOMAIN ss}
  BY <1>7, FlattenFacts
<1>10. UNION {ToSet(ss[k]) : k \in DOMAIN ss} = ToSet(list)
  BY <1>4, <1>5, <1>7, <1>8
<1> QED BY <1>3, <1>9, <1>10

----------------------------------------------------------------------------
(* The rows, as sets *)

\* The fields of rows.
LEMMA RowFacts ==
    /\ \A kind \in Kinds, p \in Plans \cup {0}, c \in BOOLEAN :
          /\ ARow(kind, p, c) \in Row
          /\ ARow(kind, p, c).kind = kind /\ ARow(kind, p, c).plan = p
          /\ ARow(kind, p, c).inst = NoInst /\ ARow(kind, p, c).title = 0
          /\ ARow(kind, p, c).collapsed = c
    /\ \A i : AtOK(i) => \A x \in Insts :
          /\ InstRow(x, i) \in Row
          /\ InstRow(x, i).kind = "inst" /\ InstRow(x, i).plan = PlanFor(x)
          /\ InstRow(x, i).inst = x /\ InstRow(x, i).title = i[x].title
<1>1. 0 \in Titles
  BY NavAssumption DEF Titles
<1>2. ASSUME NEW kind \in Kinds, NEW p \in Plans \cup {0}, NEW c \in BOOLEAN
      PROVE  /\ ARow(kind, p, c) \in Row
             /\ ARow(kind, p, c).kind = kind /\ ARow(kind, p, c).plan = p
             /\ ARow(kind, p, c).inst = NoInst /\ ARow(kind, p, c).title = 0
             /\ ARow(kind, p, c).collapsed = c
  BY <1>1 DEF ARow, Row
<1>3. ASSUME NEW i, AtOK(i), NEW x \in Insts
      PROVE  /\ InstRow(x, i) \in Row
             /\ InstRow(x, i).kind = "inst" /\ InstRow(x, i).plan = PlanFor(x)
             /\ InstRow(x, i).inst = x /\ InstRow(x, i).title = i[x].title
  <2>1. i[x].title \in Titles /\ i[x].plan \in Plans \cup {0} /\ i[x].plan = PlanFor(x)
    BY <1>3, AtFacts
  <2> QED BY <2>1 DEF InstRow, Row, Kinds
<1> QED BY <1>2, <1>3

\* The rows of a list of instances.
InstSet(S, i) == {InstRow(x, i) : x \in S}

\* The rows of a list of instances.
LEMMA RowsFacts ==
    ASSUME NEW i, AtOK(i), NEW list \in Seq(Insts)
    PROVE  Rows(list, i) \in Seq(Row) /\ ToSet(Rows(list, i)) = InstSet(ToSet(list), i)
<1> DEFINE N == Len(list)
           rows == Rows(list, i)
<1>1. N \in Nat /\ DOMAIN list = 1 .. N /\ \A k \in 1 .. N : list[k] \in Insts
  OBVIOUS
<1>2. rows = [k \in 1 .. N |-> InstRow(list[k], i)]
  BY DEF Rows
<1> HIDE DEF rows, N
<1>3. \A k \in 1 .. N : InstRow(list[k], i) \in Row
  BY <1>1, RowFacts
<1>4. rows \in Seq(Row) /\ DOMAIN rows = 1 .. N
  BY <1>1, <1>2, <1>3
<1>5. ToSet(rows) = InstSet(ToSet(list), i)
  BY <1>1, <1>2, <1>4 DEF ToSet, InstSet
<1> QED BY <1>4, <1>5 DEF rows

\* The rows of a plan.
PlanSet(m, p, i) ==
    {ARow("plan", p, Folded(m, p, i))}
    \cup InstSet({x \in Members(m, p) : ~Folded(m, p, i)}, i)

\* A plan is folded or it is not.
LEMMA FoldedBoolean ==
    ASSUME NEW m, NEW p, NEW i PROVE Folded(m, p, i) \in BOOLEAN
<1>1. CASE p \in m.overrides
  BY <1>1 DEF Folded
<1>2. CASE p \notin m.overrides
  BY <1>2 DEF Folded
<1> QED BY <1>1, <1>2

\* appendPlan gives a plan these rows.
LEMMA PlanRowsFacts ==
    ASSUME NEW m \in Panel, NEW i, AtOK(i), NEW p \in Plans
    PROVE  PlanRows(m, p, i) \in Seq(Row) /\ ToSet(PlanRows(m, p, i)) = PlanSet(m, p, i)
<1> DEFINE head == ARow("plan", p, Folded(m, p, i))
           own == Rows(Sorted(Of(m, p, i), i), i)
           rest == IF Folded(m, p, i) THEN << >> ELSE own
<1>1. head \in Row
  <2>1. Folded(m, p, i) \in BOOLEAN /\ "plan" \in Kinds
    BY FoldedBoolean DEF Kinds
  <2> QED BY <2>1, RowFacts
<1>2. own \in Seq(Row) /\ ToSet(own) = InstSet(Members(m, p), i)
  <2>1. Of(m, p, i) \in Seq(Insts) /\ ToSet(Of(m, p, i)) = Members(m, p)
    BY OfFacts
  <2>2. /\ Sorted(Of(m, p, i), i) \in Seq(Insts)
        /\ ToSet(Sorted(Of(m, p, i), i)) = Members(m, p)
    BY <2>1, SortedFacts
  <2> QED BY <2>2, RowsFacts
<1>3. PlanRows(m, p, i) = <<head>> \o rest
  BY DEF PlanRows
<1> HIDE DEF own, head
<1>4. <<head>> \in Seq(Row) /\ ToSet(<<head>>) = {head}
  BY <1>1, FewSet
<1>5. rest \in Seq(Row) /\ ToSet(rest) = IF Folded(m, p, i) THEN {} ELSE ToSet(own)
  BY <1>2, FewSet
<1> HIDE DEF rest
<1> DEFINE first == <<head>>
<1>6. first \o rest \in Seq(Row) /\ ToSet(first \o rest) = {head} \cup ToSet(rest)
  <2>1. first \in Seq(Row) /\ rest \in Seq(Row) /\ ToSet(first) = {head}
    BY <1>4, <1>5
  <2> HIDE DEF first
  <2>2. first \o rest \in Seq(Row) /\ ToSet(first \o rest) = ToSet(first) \cup ToSet(rest)
    BY ONLY <2>1, CatSet
  <2> QED BY <2>1, <2>2
<1>7. {head} \cup ToSet(rest) = PlanSet(m, p, i)
  <2>1. CASE Folded(m, p, i)
    BY <2>1, <1>5 DEF PlanSet, InstSet, head
  <2>2. CASE ~Folded(m, p, i)
    <3>1. {x \in Members(m, p) : ~Folded(m, p, i)} = Members(m, p)
      BY <2>2
    <3> QED BY <3>1, <2>2, <1>2, <1>5 DEF PlanSet, head
  <2> QED BY <2>1, <2>2
<1> QED BY <1>3, <1>6, <1>7

\* The rows of a list of plans.
PlanSets(S, m, i) == UNION {PlanSet(m, p, i) : p \in S}

\* The rows of a list of plans.
LEMMA RowsOfFacts ==
    ASSUME NEW m \in Panel, NEW i, AtOK(i), NEW list \in Seq(Plans)
    PROVE  RowsOf(list, m, i) \in Seq(Row)
           /\ ToSet(RowsOf(list, m, i)) = PlanSets(ToSet(list), m, i)
<1> DEFINE N == Len(list)
           ss == [k \in 1 .. N |-> PlanRows(m, list[k], i)]
<1>1. N \in Nat /\ DOMAIN list = 1 .. N /\ \A k \in 1 .. N : list[k] \in Plans
  OBVIOUS
<1>2. RowsOf(list, m, i) = FlattenSeq(ss)
  BY DEF RowsOf
<1> HIDE DEF N
<1>3. \A k \in 1 .. N : /\ PlanRows(m, list[k], i) \in Seq(Row)
                        /\ ToSet(PlanRows(m, list[k], i)) = PlanSet(m, list[k], i)
  BY <1>1, PlanRowsFacts
<1>4. ss \in Seq(Seq(Row)) /\ DOMAIN ss = 1 .. N
  BY <1>1, <1>3
<1>5. \A k \in 1 .. N : ToSet(ss[k]) = PlanSet(m, list[k], i)
  BY <1>3
<1> HIDE DEF ss
<1>6. /\ FlattenSeq(ss) \in Seq(Row)
      /\ ToSet(FlattenSeq(ss)) = UNION {ToSet(ss[k]) : k \in DOMAIN ss}
  BY <1>4, FlattenFacts
<1>7. ToSet(list) = {list[k] : k \in 1 .. N}
  BY <1>1 DEF ToSet
<1>8. UNION {ToSet(ss[k]) : k \in DOMAIN ss} = PlanSets(ToSet(list), m, i)
  BY <1>4, <1>5, <1>7 DEF PlanSets
<1> QED BY <1>2, <1>6, <1>8

\* A header and what follows it.
LEMMA HeadedFacts ==
    ASSUME NEW head \in Row, NEW rest \in Seq(Row)
    PROVE  <<head>> \o rest \in Seq(Row) /\ ToSet(<<head>> \o rest) = {head} \cup ToSet(rest)
<1> DEFINE first == <<head>>
<1>1. first \in Seq(Row) /\ ToSet(first) = {head}
  BY FewSet
<1> HIDE DEF first
<1>2. first \o rest \in Seq(Row) /\ ToSet(first \o rest) = ToSet(first) \cup ToSet(rest)
  BY <1>1, CatSet
<1>3. first \o rest \in Seq(Row) /\ ToSet(first \o rest) = {head} \cup ToSet(rest)
  BY <1>1, <1>2
<1> QED BY <1>3 DEF first

\* No rows.
LEMMA NoRows == << >> \in Seq(Row) /\ ToSet(<< >>) = {}
BY FewSet

\* The plans by name are the plans.
LEMMA ByNameFacts == ByName \in Seq(Plans) /\ ToSet(ByName) = Plans
<1>1. NPlans \in Nat /\ Plans = 1 .. NPlans
  BY NavAssumption DEF Plans
<1> QED BY <1>1 DEF ByName, ToSet

\* The plans of some keys.
LEMMA RankedFacts ==
    ASSUME NEW m \in Panel, NEW i, NEW keys \in SUBSET {0, 1, 2}
    PROVE  /\ Ranked(m, i, keys) \in Seq(Plans)
           /\ ToSet(Ranked(m, i, keys)) = {p \in m.plans : PlanKey(m, p, i) \in keys}
<1> DEFINE S(k) == {p \in m.plans : k - 1 \in keys /\ PlanKey(m, p, i) = k - 1}
           ss == [k \in 1 .. 3 |-> Only(ByName, S(k))]
<1>1. m.plans \subseteq Plans
  BY DEF Panel
<1>2. \A k \in 1 .. 3 :
         Only(ByName, S(k)) \in Seq(Plans) /\ ToSet(Only(ByName, S(k))) = S(k)
  <2> TAKE k \in 1 .. 3
  <2>1. S(k) \subseteq Plans
    BY <1>1
  <2> HIDE DEF S
  <2>2. /\ Only(ByName, S(k)) \in Seq(Plans)
        /\ ToSet(Only(ByName, S(k))) = ToSet(ByName) \cap S(k)
    BY ByNameFacts, OnlyFacts
  <2> QED BY <2>1, <2>2, ByNameFacts
<1>3. Ranked(m, i, keys) = FlattenSeq(ss)
  BY DEF Ranked
<1>4. \A k \in {0, 1, 2} : k + 1 \in 1 .. 3 /\ (k + 1) - 1 = k
  OBVIOUS
<1>5. UNION {S(k) : k \in 1 .. 3} = {p \in m.plans : PlanKey(m, p, i) \in keys}
  <2>1. ASSUME NEW p \in m.plans, PlanKey(m, p, i) \in keys PROVE \E k \in 1 .. 3 : p \in S(k)
    <3>1. PICK k \in 1 .. 3 : k - 1 = PlanKey(m, p, i)
      BY <2>1, <1>4
    <3> QED BY <3>1, <2>1
  <2> QED BY <2>1
<1> HIDE DEF S
<1>6. ss \in Seq(Seq(Plans)) /\ DOMAIN ss = 1 .. 3
  BY <1>2
<1>7. \A k \in 1 .. 3 : ToSet(ss[k]) = S(k)
  BY <1>2
<1> HIDE DEF ss
<1>8. /\ FlattenSeq(ss) \in Seq(Plans)
      /\ ToSet(FlattenSeq(ss)) = UNION {ToSet(ss[k]) : k \in DOMAIN ss}
  BY <1>6, FlattenFacts
<1>9. UNION {ToSet(ss[k]) : k \in DOMAIN ss} = UNION {S(k) : k \in 1 .. 3}
  BY <1>6, <1>7
<1> QED BY <1>3, <1>5, <1>8, <1>9

\* The idle plans, and the others.
Idle(m, i) == {p \in m.plans : PlanKey(m, p, i) = 2}
\* The active plans that are attended to or worked on.
Busy(m, i) == {p \in m.plans : PlanKey(m, p, i) # 2}

\* They are all the active plans.
LEMMA IdleFacts ==
    ASSUME NEW m \in Panel, NEW i
    PROVE  /\ {p \in m.plans : PlanKey(m, p, i) \in {2}} = Idle(m, i)
           /\ {p \in m.plans : PlanKey(m, p, i) \in {0, 1}} = Busy(m, i)
           /\ Idle(m, i) \cup Busy(m, i) = m.plans
           /\ m.plans \subseteq Plans /\ m.topic \subseteq Plans
<1>1. \A p : PlanKey(m, p, i) \in {0, 1, 2}
  BY DEF PlanKey
<1>2. m.plans \subseteq Plans /\ m.topic \subseteq Plans
  BY NavAssumption DEF Panel
<1> QED BY <1>1, <1>2 DEF Idle, Busy

\* The sections of the sidebar, as sets.
ImportSet == IF ImportRow THEN {ARow("import", 0, FALSE)} ELSE {}

\* The rows of the dead section.
DeadSet(m, i) ==
    IF ToSet(m.dead) = {} THEN {}
    ELSE {ARow("dead", 0, ~m.deadOpen)}
         \cup (IF m.deadOpen THEN PlanSets(ToSet(m.dead), m, i) ELSE {})

\* The rows of the agents without a plan.
SoloSet(m, i) ==
    IF Members(m, 0) = {} THEN {} ELSE {ARow("solo", 0, FALSE)} \cup InstSet(Members(m, 0), i)

\* The rows of the topic.
TopicSet(m, i) ==
    IF m.topic \cap Idle(m, i) = {} THEN {}
    ELSE {ARow("topic", 0, 0 \in m.folded)}
         \cup (IF 0 \in m.folded THEN {} ELSE PlanSets(m.topic \cap Idle(m, i), m, i))

\* The rows of the history.
HistorySet(m) ==
    IF ToSet(m.history) = {} THEN {}
    ELSE {ARow("history", 0, ~m.histOpen)}
         \cup (IF m.histOpen THEN {ARow("past", p, FALSE) : p \in ToSet(m.history)} ELSE {})

\* All the rows, as a set.
RowSet(m, i) ==
    ImportSet \cup DeadSet(m, i) \cup PlanSets(Busy(m, i), m, i) \cup SoloSet(m, i)
    \cup TopicSet(m, i) \cup PlanSets(Idle(m, i) \ m.topic, m, i) \cup HistorySet(m)

\* Their headers are rows.
LEMMA HeaderFacts ==
    ASSUME NEW kind \in Kinds, NEW c \in BOOLEAN PROVE ARow(kind, 0, c) \in Row
BY RowFacts

\* The rows of the dead section are this set.
LEMMA DeadRowsFacts ==
    ASSUME NEW m \in Panel, NEW i, AtOK(i)
    PROVE  DeadRows(m, i) \in Seq(Row) /\ ToSet(DeadRows(m, i)) = DeadSet(m, i)
<1>1. m.dead \in Seq(Plans) /\ m.deadOpen \in BOOLEAN
  BY DEF Panel
<1>2. ToSet(m.dead) = {} <=> m.dead = << >>
  BY <1>1, FewSet
<1>3. CASE m.dead = << >>
  <2>1. DeadRows(m, i) = << >>
    BY <1>3 DEF DeadRows
  <2> QED BY <2>1, <1>2, <1>3, NoRows DEF DeadSet
<1>4. CASE m.dead # << >>
  <2> DEFINE rest == IF m.deadOpen THEN RowsOf(m.dead, m, i) ELSE << >>
             head == ARow("dead", 0, ~m.deadOpen)
  <2>1. /\ rest \in Seq(Row)
        /\ ToSet(rest) = IF m.deadOpen THEN PlanSets(ToSet(m.dead), m, i) ELSE {}
    BY <1>1, RowsOfFacts, NoRows
  <2>2. head \in Row
    BY <1>1, HeaderFacts DEF Kinds
  <2>3. DeadRows(m, i) = <<head>> \o rest
    BY <1>4 DEF DeadRows
  <2>4. DeadSet(m, i) = {head} \cup ToSet(rest)
    BY <1>2, <1>4, <2>1 DEF DeadSet
  <2> HIDE DEF rest, head
  <2> QED BY <2>1, <2>2, <2>3, <2>4, HeadedFacts
<1> QED BY <1>3, <1>4

\* The rows of the agents without a plan are this set.
LEMMA SoloRowsFacts ==
    ASSUME NEW m \in Panel, NEW i, AtOK(i)
    PROVE  SoloRows(m, i) \in Seq(Row) /\ ToSet(SoloRows(m, i)) = SoloSet(m, i)
<1>1. Of(m, 0, i) \in Seq(Insts) /\ ToSet(Of(m, 0, i)) = Members(m, 0)
  BY OfFacts
<1>2. Members(m, 0) = {} <=> Of(m, 0, i) = << >>
  BY <1>1, FewSet
<1>3. CASE Of(m, 0, i) = << >>
  <2>1. SoloRows(m, i) = << >>
    BY <1>3 DEF SoloRows
  <2> QED BY <2>1, <1>2, <1>3, NoRows DEF SoloSet
<1>4. CASE Of(m, 0, i) # << >>
  <2> DEFINE rest == Rows(Sorted(Of(m, 0, i), i), i)
             head == ARow("solo", 0, FALSE)
  <2>1. rest \in Seq(Row) /\ ToSet(rest) = InstSet(Members(m, 0), i)
    <3>1. /\ Sorted(Of(m, 0, i), i) \in Seq(Insts)
          /\ ToSet(Sorted(Of(m, 0, i), i)) = Members(m, 0)
      BY <1>1, SortedFacts
    <3> QED BY <3>1, RowsFacts
  <2>2. head \in Row
    BY HeaderFacts DEF Kinds
  <2>3. SoloRows(m, i) = <<head>> \o rest
    BY <1>4 DEF SoloRows
  <2>4. SoloSet(m, i) = {head} \cup ToSet(rest)
    BY <1>2, <1>4, <2>1 DEF SoloSet
  <2> HIDE DEF rest, head
  <2> QED BY <2>1, <2>2, <2>3, <2>4, HeadedFacts
<1> QED BY <1>3, <1>4

\* The rows of the idle plans are this set.
LEMMA IdleRowsFacts ==
    ASSUME NEW m \in Panel, NEW i, AtOK(i)
    PROVE  /\ IdleRows(m, i) \in Seq(Row)
           /\ ToSet(IdleRows(m, i)) =
                 TopicSet(m, i) \cup PlanSets(Idle(m, i) \ m.topic, m, i)
<1> DEFINE idle == Ranked(m, i, {2})
           grouped == Only(ByName, m.topic \cap ToSet(idle))
           others == Only(idle, Plans \ ToSet(grouped))
<1>1. idle \in Seq(Plans) /\ ToSet(idle) = Idle(m, i)
  <2>1. {2} \in SUBSET {0, 1, 2}
    OBVIOUS
  <2>2. /\ idle \in Seq(Plans)
        /\ ToSet(idle) = {p \in m.plans : PlanKey(m, p, i) \in {2}}
    BY <2>1, RankedFacts
  <2> QED BY <2>2, IdleFacts
<1> HIDE DEF idle
<1>2. m.topic \subseteq Plans /\ Idle(m, i) \subseteq Plans
  BY IdleFacts
<1>3. grouped \in Seq(Plans) /\ ToSet(grouped) = m.topic \cap Idle(m, i)
  <2>1. grouped \in Seq(Plans) /\ ToSet(grouped) = ToSet(ByName) \cap (m.topic \cap ToSet(idle))
    BY ByNameFacts, OnlyFacts
  <2> QED BY <2>1, <1>1, <1>2, ByNameFacts
<1> HIDE DEF grouped
<1>4. others \in Seq(Plans) /\ ToSet(others) = Idle(m, i) \ m.topic
  <2>1. others \in Seq(Plans) /\ ToSet(others) = ToSet(idle) \cap (Plans \ ToSet(grouped))
    BY <1>1, OnlyFacts
  <2> QED BY <2>1, <1>1, <1>2, <1>3
<1>5. grouped = << >> <=> m.topic \cap Idle(m, i) = {}
  BY <1>3, FewSet
<1> DEFINE folded == IF 0 \in m.folded THEN << >> ELSE RowsOf(grouped, m, i)
           head == ARow("topic", 0, 0 \in m.folded)
           own == IF grouped = << >> THEN << >> ELSE <<head>> \o folded
           rest == RowsOf(others, m, i)
<1>6. IdleRows(m, i) = own \o rest
  BY DEF IdleRows, idle, grouped
<1> HIDE DEF others
<1>7. own \in Seq(Row) /\ ToSet(own) = TopicSet(m, i)
  <2>1. /\ folded \in Seq(Row)
        /\ ToSet(folded) = IF 0 \in m.folded THEN {}
                           ELSE PlanSets(m.topic \cap Idle(m, i), m, i)
    BY <1>3, RowsOfFacts, NoRows
  <2>2. head \in Row
    <3>1. (0 \in m.folded) \in BOOLEAN /\ "topic" \in Kinds
      BY DEF Kinds
    <3> QED BY <3>1, HeaderFacts
  <2>3. TopicSet(m, i) = IF grouped = << >> THEN {} ELSE {head} \cup ToSet(folded)
    BY <1>5, <2>1 DEF TopicSet
  <2> HIDE DEF folded, head
  <2>4. <<head>> \o folded \in Seq(Row) /\ ToSet(<<head>> \o folded) = {head} \cup ToSet(folded)
    BY <2>1, <2>2, HeadedFacts
  <2>5. CASE grouped = << >>
    BY <2>3, <2>5, NoRows
  <2>6. CASE grouped # << >>
    BY <2>3, <2>4, <2>6
  <2> QED BY <2>5, <2>6
<1>8. rest \in Seq(Row) /\ ToSet(rest) = PlanSets(Idle(m, i) \ m.topic, m, i)
  BY <1>4, RowsOfFacts
<1> HIDE DEF own, rest
<1> QED BY <1>6, <1>7, <1>8, CatSet

\* The rows of the history are this set.
LEMMA HistoryRowsFacts ==
    ASSUME NEW m \in Panel
    PROVE  HistoryRows(m) \in Seq(Row) /\ ToSet(HistoryRows(m)) = HistorySet(m)
<1>1. m.history \in Seq(Plans) /\ m.histOpen \in BOOLEAN
  BY DEF Panel
<1>2. ToSet(m.history) = {} <=> m.history = << >>
  BY <1>1, FewSet
<1>3. CASE m.history = << >>
  <2>1. HistoryRows(m) = << >>
    BY <1>3 DEF HistoryRows
  <2> QED BY <2>1, <1>2, <1>3, NoRows DEF HistorySet
<1>4. CASE m.history # << >>
  <2> DEFINE N == Len(m.history)
             past == [k \in 1 .. N |-> ARow("past", m.history[k], FALSE)]
             rest == IF m.histOpen THEN past ELSE << >>
             head == ARow("history", 0, ~m.histOpen)
  <2>1. past \in Seq(Row) /\ ToSet(past) = {ARow("past", p, FALSE) : p \in ToSet(m.history)}
    <3>1. N \in Nat /\ DOMAIN m.history = 1 .. N /\ \A k \in 1 .. N : m.history[k] \in Plans
      BY <1>1
    <3> HIDE DEF N
    <3>2. \A k \in 1 .. N : ARow("past", m.history[k], FALSE) \in Row
      BY <3>1, RowFacts DEF Kinds
    <3>3. past \in [1 .. N -> Row]
      BY <3>2
    <3>4. past \in Seq(Row) /\ DOMAIN past = 1 .. N
      <4>1. N \in Nat /\ past \in [1 .. N -> Row]
        BY <3>1, <3>3
      <4> HIDE DEF past
      <4> QED BY ONLY <4>1
    <3> QED BY <3>1, <3>4 DEF ToSet
  <2>2. head \in Row
    BY <1>1, HeaderFacts DEF Kinds
  <2>3. HistoryRows(m) = <<head>> \o rest
    BY <1>4 DEF HistoryRows
  <2> HIDE DEF past
  <2>4. rest \in Seq(Row) /\ ToSet(rest) = IF m.histOpen THEN ToSet(past) ELSE {}
    BY <2>1, NoRows
  <2>5. HistorySet(m) = {head} \cup ToSet(rest)
    BY <1>2, <1>4, <2>1, <2>4 DEF HistorySet
  <2> HIDE DEF rest, head
  <2> QED BY <2>2, <2>3, <2>4, <2>5, HeadedFacts
<1> QED BY <1>3, <1>4

\* All rows.
LEMMA AllRowsFacts ==
    ASSUME NEW m \in Panel, NEW i, AtOK(i)
    PROVE  AllRows(m, i) \in Seq(Row) /\ ToSet(AllRows(m, i)) = RowSet(m, i)
<1> DEFINE a == IF ImportRow THEN <<ARow("import", 0, FALSE)>> ELSE << >>
           b == DeadRows(m, i)
           c == RowsOf(Ranked(m, i, {0, 1}), m, i)
           d == SoloRows(m, i)
           e == IdleRows(m, i)
           f == HistoryRows(m)
<1>1. a \in Seq(Row) /\ ToSet(a) = ImportSet
  <2>1. ARow("import", 0, FALSE) \in Row
    BY HeaderFacts DEF Kinds
  <2> QED BY <2>1, NoRows, FewSet DEF ImportSet
<1>2. b \in Seq(Row) /\ ToSet(b) = DeadSet(m, i)
  BY DeadRowsFacts
<1>3. c \in Seq(Row) /\ ToSet(c) = PlanSets(Busy(m, i), m, i)
  <2>1. /\ Ranked(m, i, {0, 1}) \in Seq(Plans)
        /\ ToSet(Ranked(m, i, {0, 1})) = Busy(m, i)
    <3>1. {0, 1} \in SUBSET {0, 1, 2}
      OBVIOUS
    <3>2. /\ Ranked(m, i, {0, 1}) \in Seq(Plans)
          /\ ToSet(Ranked(m, i, {0, 1})) = {p \in m.plans : PlanKey(m, p, i) \in {0, 1}}
      BY <3>1, RankedFacts
    <3> QED BY <3>2, IdleFacts
  <2> QED BY <2>1, RowsOfFacts
<1>4. d \in Seq(Row) /\ ToSet(d) = SoloSet(m, i)
  BY SoloRowsFacts
<1>5. e \in Seq(Row) /\ ToSet(e) = TopicSet(m, i) \cup PlanSets(Idle(m, i) \ m.topic, m, i)
  BY IdleRowsFacts
<1>6. f \in Seq(Row) /\ ToSet(f) = HistorySet(m)
  BY HistoryRowsFacts
<1>7. AllRows(m, i) = a \o b \o c \o d \o e \o f
  BY DEF AllRows
<1> HIDE DEF a, b, c, d, e, f
<1> DEFINE x1 == a \o b
           x2 == x1 \o c
           x3 == x2 \o d
           x4 == x3 \o e
           x5 == x4 \o f
<1>8. x1 \in Seq(Row) /\ ToSet(x1) = ToSet(a) \cup ToSet(b)
  BY <1>1, <1>2, CatSet
<1>9. AllRows(m, i) = x5
  BY <1>7
<1> HIDE DEF x1
<1>10. x2 \in Seq(Row) /\ ToSet(x2) = ToSet(x1) \cup ToSet(c)
  BY <1>3, <1>8, CatSet
<1> HIDE DEF x2
<1>11. x3 \in Seq(Row) /\ ToSet(x3) = ToSet(x2) \cup ToSet(d)
  BY <1>4, <1>10, CatSet
<1> HIDE DEF x3
<1>12. x4 \in Seq(Row) /\ ToSet(x4) = ToSet(x3) \cup ToSet(e)
  <2>1. x3 \in Seq(Row) /\ e \in Seq(Row)
    BY <1>5, <1>11
  <2> QED BY ONLY <2>1, CatSet
<1> HIDE DEF x4
<1>13. x5 \in Seq(Row) /\ ToSet(x5) = ToSet(x4) \cup ToSet(f)
  BY <1>6, <1>12, CatSet
<1> HIDE DEF x5
<1>14. ToSet(x5) = RowSet(m, i)
  BY <1>1, <1>2, <1>3, <1>4, <1>5, <1>6, <1>8, <1>10, <1>11, <1>12, <1>13 DEF RowSet
<1> QED BY <1>9, <1>13, <1>14

----------------------------------------------------------------------------
(* What holds of the panel *)

\* The selection is a row.
SelOK(m) == m.sel \in 1 .. Len(m.rows) \/ (m.rows = << >> /\ m.sel = 1)

\* The panel within an operation.
Base(m) == m \in Panel /\ SelOK(m) /\ IsInjective(m.list)

\* No plan with instances is past.
Unpast(m) == \A x \in ToSet(m.list) : PlanFor(x) \notin ToSet(m.history)

\* A row that is folded.
Closed(m, kind, p) == \E r \in ToSet(m.rows) : r.kind = kind /\ r.plan = p /\ r.collapsed

\* The instances of the plans that are listed have a row or may be given one.
Shows(m, x) ==
    LET p == PlanFor(x) IN
    \/ \E r \in ToSet(m.rows) : r.inst = x
    \/ Closed(m, "plan", p)
    \/ p \in m.topic /\ Closed(m, "topic", 0)
    \/ p \in ToSet(m.dead) /\ Closed(m, "dead", 0)

\* The property: what is listed is shown, or may be.
Reaches(m) ==
    \A x \in ToSet(m.list) :
       PlanFor(x) = 0 \/ PlanFor(x) \in m.plans \cup ToSet(m.dead) => Shows(m, x)

\* What a row is for.
RowShape(r) ==
    /\ r.inst # NoInst <=> r.kind = "inst"
    /\ r.inst = NoInst /\ r.plan # 0 <=> r.kind \in {"plan", "past"}

\* The panel between operations.
Good(m) == Base(m) /\ Unpast(m) /\ Reaches(m) /\ \A r \in ToSet(m.rows) : RowShape(r)

\* The shape of the rows there are.
LEMMA PlanSetShape ==
    ASSUME NEW m \in Panel, NEW i, AtOK(i), NEW S \in SUBSET Plans,
           NEW r \in PlanSets(S, m, i)
    PROVE  RowShape(r) /\ r \in Row /\ r.kind \in {"plan", "inst"}
<1>1. PICK p \in S : r \in PlanSet(m, p, i)
  BY DEF PlanSets
<1>2. CASE r = ARow("plan", p, Folded(m, p, i))
  <2>1. "plan" \in Kinds /\ p \in Plans \cup {0} /\ Folded(m, p, i) \in BOOLEAN
    BY FoldedBoolean DEF Kinds
  <2>2. r \in Row /\ r.kind = "plan" /\ r.plan = p /\ r.inst = NoInst
    BY <1>2, <2>1, RowFacts
  <2>3. p # 0
    BY NavAssumption DEF Plans
  <2> QED BY <2>2, <2>3 DEF RowShape
<1>3. CASE r # ARow("plan", p, Folded(m, p, i))
  <2>1. PICK x \in Members(m, p) : r = InstRow(x, i)
    BY <1>1, <1>3 DEF PlanSet, InstSet
  <2>2. x \in Insts
    BY OfFacts DEF Members
  <2>3. r \in Row /\ r.kind = "inst" /\ r.inst = x
    BY <2>1, <2>2, RowFacts
  <2> QED BY <2>2, <2>3, NavAssumption DEF RowShape
<1> QED BY <1>2, <1>3

\* The rows of instances.
LEMMA InstSetShape ==
    ASSUME NEW i, AtOK(i), NEW S \in SUBSET Insts, NEW r \in InstSet(S, i)
    PROVE  RowShape(r) /\ r \in Row /\ r.kind = "inst" /\ r.inst \in S /\ r = InstRow(r.inst, i)
<1>1. PICK x \in S : r = InstRow(x, i)
  BY DEF InstSet
<1>2. r \in Row /\ r.kind = "inst" /\ r.inst = x
  BY <1>1, RowFacts
<1> QED BY <1>1, <1>2, NavAssumption DEF RowShape

\* The rows of headers.
LEMMA HeaderShape ==
    ASSUME NEW kind \in {"import", "dead", "solo", "topic", "history"}, NEW c \in BOOLEAN
    PROVE  /\ RowShape(ARow(kind, 0, c)) /\ ARow(kind, 0, c).kind = kind
           /\ ARow(kind, 0, c).plan = 0 /\ ARow(kind, 0, c).collapsed = c
<1>1. kind \in Kinds /\ 0 \in Plans \cup {0}
  BY DEF Kinds
<1>2. /\ ARow(kind, 0, c).kind = kind /\ ARow(kind, 0, c).plan = 0
      /\ ARow(kind, 0, c).inst = NoInst /\ ARow(kind, 0, c).collapsed = c
  BY <1>1, RowFacts
<1> QED BY <1>2 DEF RowShape

\* Where a rebuilt row comes from.
LEMMA RowSetCases ==
    ASSUME NEW m \in Panel, NEW i, AtOK(i), NEW r \in RowSet(m, i)
    PROVE  /\ RowShape(r)
           /\ \/ r.kind \in {"import", "dead", "topic", "history"}
              \/ r.kind = "solo" /\ Members(m, 0) # {}
              \/ r \in PlanSets(Plans, m, i)
              \/ r \in InstSet(Members(m, 0), i)
              \/ r.kind = "past" /\ r.plan \in ToSet(m.history)
<1>1. /\ m.deadOpen \in BOOLEAN /\ m.histOpen \in BOOLEAN
      /\ m.dead \in Seq(Plans) /\ m.history \in Seq(Plans)
  BY DEF Panel
<1>2. /\ ToSet(m.dead) \subseteq Plans /\ ToSet(m.history) \subseteq Plans
      /\ Busy(m, i) \subseteq Plans /\ Idle(m, i) \subseteq Plans
  BY <1>1, FewSet, IdleFacts
<1>3. ASSUME NEW S \in SUBSET Plans PROVE PlanSets(S, m, i) \subseteq PlanSets(Plans, m, i)
  BY DEF PlanSets
<1>4. CASE r \in PlanSets(Plans, m, i)
  BY <1>4, PlanSetShape
<1>5. CASE r \in ImportSet
  <2>1. r = ARow("import", 0, FALSE)
    BY <1>5 DEF ImportSet
  <2> QED BY <2>1, HeaderShape
<1>6. CASE r \in DeadSet(m, i)
  <2>1. r = ARow("dead", 0, ~m.deadOpen) \/ r \in PlanSets(ToSet(m.dead), m, i)
    BY <1>6 DEF DeadSet
  <2>2. RowShape(ARow("dead", 0, ~m.deadOpen)) /\ ARow("dead", 0, ~m.deadOpen).kind = "dead"
    BY <1>1, HeaderShape
  <2> QED BY <2>1, <2>2, <1>2, <1>3, <1>4
<1>7. CASE r \in SoloSet(m, i)
  <2>1. Members(m, 0) # {} /\ (r = ARow("solo", 0, FALSE) \/ r \in InstSet(Members(m, 0), i))
    BY <1>7 DEF SoloSet
  <2>2. RowShape(ARow("solo", 0, FALSE)) /\ ARow("solo", 0, FALSE).kind = "solo"
    BY HeaderShape
  <2>3. Members(m, 0) \in SUBSET Insts
    BY OfFacts DEF Members
  <2> QED BY <2>1, <2>2, <2>3, InstSetShape
<1>8. CASE r \in TopicSet(m, i)
  <2>1. r = ARow("topic", 0, 0 \in m.folded) \/ r \in PlanSets(m.topic \cap Idle(m, i), m, i)
    BY <1>8 DEF TopicSet
  <2>2. /\ RowShape(ARow("topic", 0, 0 \in m.folded))
        /\ ARow("topic", 0, 0 \in m.folded).kind = "topic"
    <3>1. (0 \in m.folded) \in BOOLEAN
      OBVIOUS
    <3> QED BY <3>1, HeaderShape
  <2>3. m.topic \cap Idle(m, i) \in SUBSET Plans
    BY <1>2
  <2> QED BY <2>1, <2>2, <2>3, <1>3, <1>4
<1>9. CASE r \in HistorySet(m)
  <2>1. \/ r = ARow("history", 0, ~m.histOpen)
        \/ \E p \in ToSet(m.history) : r = ARow("past", p, FALSE)
    BY <1>9 DEF HistorySet
  <2>2. /\ RowShape(ARow("history", 0, ~m.histOpen))
        /\ ARow("history", 0, ~m.histOpen).kind = "history"
    BY <1>1, HeaderShape
  <2>3. ASSUME NEW p \in ToSet(m.history), r = ARow("past", p, FALSE)
        PROVE  RowShape(r) /\ r.kind = "past" /\ r.plan \in ToSet(m.history)
    <3>1. "past" \in Kinds /\ p \in Plans \cup {0} /\ p # 0
      BY <1>2, NavAssumption DEF Kinds, Plans
    <3>2. r.kind = "past" /\ r.plan = p /\ r.inst = NoInst
      <4>0. \A kind \in Kinds, q \in Plans \cup {0}, c \in BOOLEAN :
               /\ ARow(kind, q, c).kind = kind /\ ARow(kind, q, c).plan = q
               /\ ARow(kind, q, c).inst = NoInst
        BY RowFacts
      <4>1. /\ ARow("past", p, FALSE).kind = "past" /\ ARow("past", p, FALSE).plan = p
            /\ ARow("past", p, FALSE).inst = NoInst
        BY <3>1, <4>0
      <4> QED BY <2>3, <4>1
    <3> QED BY <3>1, <3>2 DEF RowShape
  <2> QED BY <2>1, <2>2, <2>3
<1> QED BY <1>2, <1>3, <1>4, <1>5, <1>6, <1>7, <1>8, <1>9 DEF RowSet

\* A plan with its rows shows its instances.
LEMMA PlanShows ==
    ASSUME NEW m \in Panel, NEW i, AtOK(i), NEW x \in ToSet(m.list), PlanFor(x) \in Plans,
           NEW R, PlanSet(m, PlanFor(x), i) \subseteq R
    PROVE  \/ \E r \in R : r.inst = x
           \/ \E r \in R : r.kind = "plan" /\ r.plan = PlanFor(x) /\ r.collapsed
<1> DEFINE p == PlanFor(x)
<1>1. x \in Insts /\ x \in Members(m, p)
  BY OfFacts DEF Members
<1>2. CASE Folded(m, p, i)
  <2> DEFINE r == ARow("plan", p, Folded(m, p, i))
  <2>1. "plan" \in Kinds /\ p \in Plans \cup {0} /\ Folded(m, p, i) \in BOOLEAN
    BY FoldedBoolean DEF Kinds
  <2>2. r.kind = "plan" /\ r.plan = p /\ r.collapsed = Folded(m, p, i)
    BY <2>1, RowFacts
  <2>3. r \in R
    BY DEF PlanSet
  <2> HIDE DEF r
  <2> QED BY <1>2, <2>2, <2>3
<1>3. CASE ~Folded(m, p, i)
  <2>1. InstRow(x, i) \in R /\ InstRow(x, i).inst = x
    BY <1>1, <1>3, RowFacts DEF PlanSet, InstSet
  <2> QED BY <2>1
<1> QED BY <1>2, <1>3

\* A rebuilt panel has its rows from the sets.
LEMMA InReach ==
    ASSUME NEW m \in Panel, NEW i, AtOK(i), NEW x \in ToSet(m.list), PlanFor(x) \in Plans,
           PlanFor(x) \in m.plans \cup ToSet(m.dead), NEW R, R = RowSet(m, i)
    PROVE  \/ \E r \in R : r.inst = x
           \/ \E r \in R : r.kind = "plan" /\ r.plan = PlanFor(x) /\ r.collapsed
           \/ /\ PlanFor(x) \in m.topic
              /\ \E r \in R : r.kind = "topic" /\ r.plan = 0 /\ r.collapsed
           \/ /\ PlanFor(x) \in ToSet(m.dead)
              /\ \E r \in R : r.kind = "dead" /\ r.plan = 0 /\ r.collapsed
<1> DEFINE p == PlanFor(x)
<1> HIDE DEF p
<1>1. p = PlanFor(x)
  BY DEF p
<1>2. ASSUME NEW S, p \in S, PlanSets(S, m, i) \subseteq R
      PROVE  \/ \E r \in R : r.inst = x
             \/ \E r \in R : r.kind = "plan" /\ r.plan = p /\ r.collapsed
  <2>1. PlanSet(m, PlanFor(x), i) \subseteq R
    BY <1>1, <1>2 DEF PlanSets
  <2> QED BY <1>1, <2>1, PlanShows
<1>3. Idle(m, i) \cup Busy(m, i) = m.plans
  BY IdleFacts
<1>4. CASE p \in Busy(m, i)
  <2>1. PlanSets(Busy(m, i), m, i) \subseteq R
    BY DEF RowSet
  <2> QED BY <1>1, <1>2, <1>4, <2>1
<1>5. CASE p \in Idle(m, i) \ m.topic
  <2>1. PlanSets(Idle(m, i) \ m.topic, m, i) \subseteq R
    BY DEF RowSet
  <2> QED BY <1>1, <1>2, <1>5, <2>1
<1>6. CASE p \in m.topic \cap Idle(m, i)
  <2>1. TopicSet(m, i) \subseteq R
    BY DEF RowSet
  <2>2. CASE 0 \in m.folded
    <3> DEFINE r == ARow("topic", 0, 0 \in m.folded)
    <3>1. r \in R
      BY <1>6, <2>1 DEF TopicSet
    <3>2. (0 \in m.folded) \in BOOLEAN
      OBVIOUS
    <3>3. r.kind = "topic" /\ r.plan = 0 /\ r.collapsed = (0 \in m.folded)
      BY <3>2, HeaderShape
    <3> HIDE DEF r
    <3> QED BY <1>1, <1>6, <2>2, <3>1, <3>3
  <2>3. CASE 0 \notin m.folded
    <3>1. PlanSets(m.topic \cap Idle(m, i), m, i) \subseteq R
      BY <1>6, <2>1, <2>3 DEF TopicSet
    <3> QED BY <1>1, <1>2, <1>6, <3>1
  <2> QED BY <2>2, <2>3
<1>7. CASE p \in ToSet(m.dead)
  <2>1. DeadSet(m, i) \subseteq R
    BY DEF RowSet
  <2>2. m.deadOpen \in BOOLEAN
    BY DEF Panel
  <2>3. CASE m.deadOpen
    <3>1. PlanSets(ToSet(m.dead), m, i) \subseteq R
      BY <1>7, <2>1, <2>3 DEF DeadSet
    <3> QED BY <1>1, <1>2, <1>7, <3>1
  <2>4. CASE ~m.deadOpen
    <3> DEFINE r == ARow("dead", 0, ~m.deadOpen)
    <3>1. r \in R
      BY <1>7, <2>1 DEF DeadSet
    <3>2. r.kind = "dead" /\ r.plan = 0 /\ r.collapsed = ~m.deadOpen
      BY <2>2, HeaderShape
    <3> HIDE DEF r
    <3> QED BY <1>1, <1>7, <2>4, <3>1, <3>2
  <2> QED BY <2>3, <2>4
<1> QED BY <1>1, <1>3, <1>4, <1>5, <1>6, <1>7

\* The rows of the agents without a plan.
LEMMA InReachSolo ==
    ASSUME NEW m \in Panel, NEW i, AtOK(i), NEW x \in ToSet(m.list), PlanFor(x) = 0,
           NEW R, R = RowSet(m, i)
    PROVE  \E r \in R : r.inst = x
<1>1. x \in Members(m, 0) /\ x \in Insts
  BY OfFacts DEF Members
<1>2. InstRow(x, i) \in R
  BY <1>1 DEF RowSet, SoloSet, InstSet
<1>3. InstRow(x, i).inst = x
  BY <1>1, RowFacts
<1> QED BY <1>2, <1>3

\* All but the rows and the selection.
SameRest(k, m) ==
    /\ k.list = m.list /\ k.plans = m.plans /\ k.topic = m.topic /\ k.dead = m.dead
    /\ k.promoted = m.promoted /\ k.history = m.history
    /\ k.running = m.running /\ k.notes = m.notes
    /\ k.folded = m.folded /\ k.overrides = m.overrides /\ k.inspected = m.inspected
    /\ k.deadOpen = m.deadOpen /\ k.histOpen = m.histOpen
    /\ k.query = m.query /\ k.shown = m.shown

\* New rows and another selection.
WithRows(m, rows, k) == [m EXCEPT !.rows = rows, !.sel = k]

\* The record with new rows.
LEMMA RowsSet ==
    ASSUME NEW m \in Panel, NEW rows \in Seq(Row), NEW k \in Nat
    PROVE  /\ WithRows(m, rows, k) \in Panel /\ WithRows(m, rows, k).rows = rows
           /\ WithRows(m, rows, k).sel = k /\ SameRest(WithRows(m, rows, k), m)
BY DEF WithRows, Panel, SameRest

\* The record with another selection.
LEMMA SelSet ==
    ASSUME NEW m \in Panel, NEW k \in Nat
    PROVE  LET new == [m EXCEPT !.sel = k]
           IN new \in Panel /\ new.rows = m.rows /\ new.sel = k /\ SameRest(new, m)
BY DEF Panel, SameRest

\* The first element a test selects.
LEMMA ReselectFacts ==
    ASSUME NEW m \in Panel, NEW rows \in Seq(Row), SelOK(m),
           \A r \in ToSet(rows) : r.kind = "solo" => \E s \in ToSet(rows) : s.kind # "solo"
    PROVE  /\ rows = << >> => Reselect(m, rows) = 1
           /\ rows # << >> => Reselect(m, rows) \in 1 .. Len(rows)
<1> DEFINE I == {j \in 1 .. Len(rows) : Id(rows[j]) = Id(m.rows[m.sel])}
           same == IF m.rows = << >> THEN 0 ELSE IF I # {} THEN Min(I) ELSE 0
           k == Min2(m.sel, Len(rows))
<1>1. Reselect(m, rows) = IF rows = << >> THEN 1
                          ELSE IF same # 0 THEN same
                          ELSE IF rows[k].kind = "solo" /\ m.rows # << >>
                          THEN IF k < Len(rows) THEN k + 1 ELSE k - 1
                          ELSE k
  BY DEF Reselect, SelectInSeq
<1>2. same = 0 \/ same \in 1 .. Len(rows)
  <2>1. I \subseteq 1 .. Len(rows) /\ I \in SUBSET Nat
    OBVIOUS
  <2> HIDE DEF I
  <2>2. I # {} => Min(I) \in I
    BY <2>1, MinFacts
  <2> QED BY <2>1, <2>2
<1> HIDE DEF same
<1>3. ASSUME rows # << >> PROVE Reselect(m, rows) \in 1 .. Len(rows)
  <2>1. Len(rows) \in Nat /\ Len(rows) >= 1 /\ m.sel \in Nat /\ m.sel >= 1
    BY <1>3 DEF SelOK, Panel
  <2>2. k \in 1 .. Len(rows)
    BY <2>1 DEF Min2
  <2> HIDE DEF k
  <2>3. ASSUME rows[k].kind = "solo", ~(k < Len(rows)) PROVE k - 1 \in 1 .. Len(rows)
    <3>1. rows[k] \in ToSet(rows) /\ DOMAIN rows = 1 .. Len(rows)
      BY <2>2 DEF ToSet
    <3>2. PICK j \in 1 .. Len(rows) : rows[j].kind # "solo"
      BY <2>3, <3>1 DEF ToSet
    <3>3. j # k
      BY <2>3, <3>2
    <3> QED BY <2>1, <2>2, <2>3, <3>2, <3>3
  <2>4. k < Len(rows) => k + 1 \in 1 .. Len(rows)
    BY <2>1, <2>2
  <2> QED BY <1>1, <1>2, <1>3, <2>2, <2>3, <2>4
<1> QED BY <1>1, <1>3

\* A divider stands before other rows.
LEMMA SoloNotAlone ==
    ASSUME NEW m \in Panel, NEW i, AtOK(i), NEW r \in RowSet(m, i), r.kind = "solo"
    PROVE  \E s \in RowSet(m, i) : s.kind # "solo"
<1>1. Members(m, 0) # {}
  <2>1. ~(r \in PlanSets(Plans, m, i))
    <3>1. Plans \in SUBSET Plans
      OBVIOUS
    <3> QED BY <3>1, PlanSetShape
  <2>2. ~(r \in InstSet(Members(m, 0), i))
    <3>1. Members(m, 0) \in SUBSET Insts
      BY OfFacts DEF Members
    <3> QED BY <3>1, InstSetShape
  <2> QED BY <2>1, <2>2, RowSetCases
<1>2. PICK x \in Members(m, 0) : TRUE
  BY <1>1
<1>3. x \in Insts
  BY OfFacts DEF Members
<1>4. InstRow(x, i) \in SoloSet(m, i)
  BY <1>1 DEF SoloSet, InstSet
<1>5. SoloSet(m, i) \subseteq RowSet(m, i)
  BY DEF RowSet
<1>6. InstRow(x, i).kind = "inst"
  BY <1>3, RowFacts
<1> QED BY <1>4, <1>5, <1>6

\* What rebuilding the rows gives.
LEMMA RebuildFacts ==
    ASSUME NEW m \in Panel, SelOK(m), NEW i, AtOK(i)
    PROVE  /\ Rebuild(m, i) \in Panel
           /\ SameRest(Rebuild(m, i), m)
           /\ Rebuild(m, i).rows = AllRows(m, i)
           /\ ToSet(Rebuild(m, i).rows) = RowSet(m, i)
           /\ Rebuild(m, i).sel = Reselect(m, AllRows(m, i))
           /\ SelOK(Rebuild(m, i))
<1> DEFINE rows == AllRows(m, i)
<1>1. rows \in Seq(Row) /\ ToSet(rows) = RowSet(m, i)
  BY AllRowsFacts
<1>2. Rebuild(m, i) = [m EXCEPT !.rows = rows, !.sel = Reselect(m, rows)]
  BY DEF Rebuild
<1> HIDE DEF rows
<1>3. \A r \in ToSet(rows) : r.kind = "solo" => \E s \in ToSet(rows) : s.kind # "solo"
  BY <1>1, SoloNotAlone
<1>4. /\ rows = << >> => Reselect(m, rows) = 1
      /\ rows # << >> => Reselect(m, rows) \in 1 .. Len(rows)
  BY <1>1, <1>3, ReselectFacts
<1> DEFINE k == Reselect(m, rows)
<1>5. k \in Nat
  BY <1>1, <1>4
<1> HIDE DEF k
<1>6. /\ Rebuild(m, i) \in Panel /\ Rebuild(m, i).rows = rows /\ Rebuild(m, i).sel = k
      /\ SameRest(Rebuild(m, i), m)
  <2>1. Rebuild(m, i) = WithRows(m, rows, k)
    BY <1>2 DEF k, WithRows
  <2>2. rows \in Seq(Row)
    BY <1>1
  <2> QED BY ONLY <1>5, <2>1, <2>2, m \in Panel, RowsSet
<1> QED BY <1>1, <1>4, <1>6 DEF SelOK, k, rows

\* A rebuilt panel is as it must be.
LEMMA RebuildGood ==
    ASSUME NEW m, Base(m), Unpast(m), NEW i, AtOK(i)
    PROVE  Good(Rebuild(m, i)) /\ SameRest(Rebuild(m, i), m)
<1> DEFINE k == Rebuild(m, i)
<1>1. /\ k \in Panel /\ SelOK(k) /\ SameRest(k, m) /\ ToSet(k.rows) = RowSet(m, i)
      /\ m \in Panel
  BY RebuildFacts DEF Base
<1> HIDE DEF k
<1>2. Base(k) /\ Unpast(k)
  BY <1>1 DEF Base, Unpast, SameRest
<1>3. \A r \in ToSet(k.rows) : RowShape(r)
  BY <1>1, RowSetCases
<1>4. Reaches(k)
  <2> SUFFICES ASSUME NEW x \in ToSet(m.list),
                      PlanFor(x) = 0 \/ PlanFor(x) \in m.plans \cup ToSet(m.dead)
               PROVE  Shows(k, x)
    BY <1>1 DEF Reaches, SameRest
  <2> DEFINE R == RowSet(m, i)
  <2>1. ToSet(k.rows) = R /\ k.topic = m.topic /\ k.dead = m.dead
    BY <1>1 DEF SameRest
  <2>2. CASE PlanFor(x) = 0
    <3>1. \E r \in R : r.inst = x
      BY <1>1, <2>2, InReachSolo
    <3> QED BY <2>1, <3>1 DEF Shows
  <2>3. CASE PlanFor(x) # 0
    <3>1. PlanFor(x) \in Plans
      <4>1. m.plans \subseteq Plans /\ ToSet(m.dead) \subseteq Plans
        BY <1>1, FewSet DEF Panel
      <4> QED BY <4>1, <2>3
    <3>2. PlanFor(x) \in m.plans \cup ToSet(m.dead)
      BY <2>3
    <3>3. \/ \E r \in R : r.inst = x
          \/ \E r \in R : r.kind = "plan" /\ r.plan = PlanFor(x) /\ r.collapsed
          \/ /\ PlanFor(x) \in m.topic
             /\ \E r \in R : r.kind = "topic" /\ r.plan = 0 /\ r.collapsed
          \/ /\ PlanFor(x) \in ToSet(m.dead)
             /\ \E r \in R : r.kind = "dead" /\ r.plan = 0 /\ r.collapsed
      BY <1>1, <3>1, <3>2, InReach
    <3> HIDE DEF R
    <3> QED BY <2>1, <3>3 DEF Shows, Closed
  <2> QED BY <2>2, <2>3
<1>5. Good(k)
  BY <1>2, <1>3, <1>4 DEF Good
<1> QED BY <1>1, <1>5 DEF k

\* Selecting one of the rows.
LEMMA SelectedGood ==
    ASSUME NEW m, Good(m), NEW k \in 1 .. Len(m.rows)
    PROVE  Good([m EXCEPT !.sel = k])
<1> DEFINE new == [m EXCEPT !.sel = k]
<1>1. new \in Panel /\ new.rows = m.rows /\ new.sel = k /\ SameRest(new, m)
  <2>1. m \in Panel /\ k \in Nat
    BY DEF Good, Base
  <2> QED BY <2>1, SelSet
<1> HIDE DEF new
<1>2. new.list = m.list /\ new.plans = m.plans /\ new.topic = m.topic /\ new.dead = m.dead
      /\ new.history = m.history
  BY <1>1 DEF SameRest
<1>3. Base(new)
  BY <1>1, <1>2 DEF Good, Base, SelOK
<1>4. Unpast(new)
  BY <1>2 DEF Good, Unpast
<1>5. Reaches(new)
  BY <1>1, <1>2 DEF Good, Reaches, Shows, Closed
<1>6. Good(new)
  BY <1>1, <1>3, <1>4, <1>5 DEF Good
<1> QED BY <1>6 DEF new

----------------------------------------------------------------------------
(* The operations of the panel keep it as it must be *)

\* The plans and the instances of a panel, but not its rows, are changed.
SameView(k, m) == k.rows = m.rows /\ k.sel = m.sel /\ k.list = m.list

\* The rest of a record that the partition of the finished plans leaves.
SameFolds(k, m) ==
    /\ k.running = m.running /\ k.notes = m.notes /\ k.shown = m.shown
    /\ k.folded = m.folded /\ k.overrides = m.overrides

\* The partition of the finished plans.
Divided(m, plans, up, dead, past) ==
    [m EXCEPT !.plans = plans, !.promoted = up, !.dead = dead, !.history = past]

\* Its fields.
LEMMA DividedFacts ==
    ASSUME NEW m \in Panel, NEW plans \in SUBSET Plans, NEW up \in Seq(Plans),
           NEW dead \in Seq(Plans), NEW past \in Seq(Plans)
    PROVE  /\ Divided(m, plans, up, dead, past) \in Panel
           /\ Divided(m, plans, up, dead, past).history = past
           /\ SameView(Divided(m, plans, up, dead, past), m)
           /\ SameFolds(Divided(m, plans, up, dead, past), m)
BY DEF Divided, Panel, SameView, SameFolds

\* splitDeadFromHistory puts no plan with instances away.
LEMMA SplitFacts ==
    ASSUME NEW m, Base(m), NEW finished \in Seq(Plans), NEW i, AtOK(i)
    PROVE  /\ Base(Split(m, finished, i)) /\ Unpast(Split(m, finished, i))
           /\ SameView(Split(m, finished, i), m) /\ SameFolds(Split(m, finished, i), m)
<1> DEFINE works(p) == \E x \in ToSet(Of(m, p, i)) : Working(i[x])
           kept(p)  == Of(m, p, i) # << >> \/ p \in m.inspected
           up       == Only(finished, {p \in Plans : works(p)})
           plans    == (m.plans \ ToSet(m.promoted)) \cup ToSet(up)
           dead     == Only(finished, {p \in Plans : ~works(p) /\ kept(p)})
           past     == Only(finished, {p \in Plans : ~works(p) /\ ~kept(p)})
           k        == Split(m, finished, i)
<1>1. k = Divided(m, plans, up, dead, past)
  BY DEF Split, Divided
<1>2. ToSet(past) = ToSet(finished) \cap {p \in Plans : ~works(p) /\ ~kept(p)}
  BY OnlyFacts
<1>3. ASSUME NEW p \in ToSet(past) PROVE Of(m, p, i) = << >>
  BY <1>2, <1>3
<1> HIDE DEF works, kept
<1>4. up \in Seq(Plans) /\ dead \in Seq(Plans) /\ past \in Seq(Plans)
  BY OnlyFacts
<1> HIDE DEF up, dead, past
<1>5. m \in Panel /\ m.plans \in SUBSET Plans
  BY DEF Base, Panel
<1>6. plans \in SUBSET Plans
  BY <1>4, <1>5, FewSet
<1> HIDE DEF plans, k
<1>7. k \in Panel /\ k.history = past /\ SameView(k, m) /\ SameFolds(k, m)
  BY <1>1, <1>4, <1>5, <1>6, DividedFacts
<1>8. Base(k)
  BY <1>7 DEF Base, SameView, SelOK
<1>9. Unpast(k)
  <2> SUFFICES ASSUME NEW x \in ToSet(m.list), PlanFor(x) \in ToSet(past) PROVE FALSE
    BY <1>7 DEF Unpast, SameView
  <2>1. Of(m, PlanFor(x), i) = << >>
    BY <1>3
  <2>2. ToSet(Of(m, PlanFor(x), i)) = Members(m, PlanFor(x))
    BY <1>5, OfFacts
  <2>3. x \in Members(m, PlanFor(x))
    BY DEF Members
  <2> QED BY <2>1, <2>2, <2>3, FewSet
<1> QED BY <1>7, <1>8, <1>9 DEF k

\* Nor does resplitDead, for the plans it partitions again.
LEMMA ResplitFacts ==
    ASSUME NEW m, Base(m), NEW i, AtOK(i)
    PROVE  /\ Base(Resplit(m, i)) /\ Unpast(Resplit(m, i))
           /\ SameView(Resplit(m, i), m) /\ SameFolds(Resplit(m, i), m)
<1>1. m.dead \in Seq(Plans) /\ m.promoted \in Seq(Plans) /\ m.history \in Seq(Plans)
  BY DEF Base, Panel
<1>2. m.dead \o m.promoted \in Seq(Plans)
  BY <1>1, CatSet
<1> DEFINE s == m.dead \o m.promoted
<1>3. s \o m.history \in Seq(Plans)
  <2>1. s \in Seq(Plans)
    BY <1>2
  <2> HIDE DEF s
  <2> QED BY <1>1, <2>1, CatSet
<1> QED BY <1>3, SplitFacts DEF Resplit

\* The summary of the instances per plan.
Summed(m, running, notes) == [m EXCEPT !.running = running, !.notes = notes]

\* The record with what was counted, and its fields.
LEMMA SummedFacts ==
    ASSUME NEW m \in Panel, NEW running \in SUBSET Plans, NEW notes \in SUBSET Plans
    PROVE  /\ Summed(m, running, notes) \in Panel
           /\ Summed(m, running, notes).running = running
           /\ Summed(m, running, notes).notes = notes
           /\ SameView(Summed(m, running, notes), m)
           /\ Summed(m, running, notes).history = m.history
           /\ Summed(m, running, notes).plans = m.plans
           /\ Summed(m, running, notes).topic = m.topic
           /\ Summed(m, running, notes).dead = m.dead
           /\ Summed(m, running, notes).folded = m.folded
           /\ Summed(m, running, notes).overrides = m.overrides
           /\ Summed(m, running, notes).shown = m.shown
           /\ Summed(m, running, notes).deadOpen = m.deadOpen
           /\ Summed(m, running, notes).histOpen = m.histOpen
BY DEF Summed, Panel, SameView

\* The plans computePlanStatuses finds instances of that work, or that review.
Worked(m, i) ==
    {p \in Plans : \E x \in ToSet(Of(m, p, i)) :
                      x \notin Reviewers /\ i[x].status \in {"running", "ready"}}

\* The plans whose reviewers want attention.
Reviewed(m, i) ==
    {p \in Plans : \E x \in ToSet(Of(m, p, i)) :
                      /\ x \in Reviewers
                      /\ i[x].status \in {"running", "ready"} \/ i[x].notified}

\* computePlanStatuses counts these.
LEMMA RestatedIs ==
    ASSUME NEW m, NEW i
    PROVE  Restated(m, i) = Summed(m, Worked(m, i), Reviewed(m, i))
<1> DEFINE on(p, rev) == \E x \in ToSet(Of(m, p, i)) :
                        /\ x \in Reviewers <=> rev
                        /\ \/ i[x].status \in {"running", "ready"}
                           \/ rev /\ i[x].notified
<1>1. Restated(m, i) = [m EXCEPT !.running = {p \in Plans : on(p, FALSE)},
                                 !.notes   = {p \in Plans : on(p, TRUE)}]
  BY DEF Restated
<1>2. {p \in Plans : on(p, FALSE)} = Worked(m, i)
  BY DEF Worked
<1>3. {p \in Plans : on(p, TRUE)} = Reviewed(m, i)
  BY DEF Reviewed
<1> HIDE DEF on
<1> QED BY <1>1, <1>2, <1>3 DEF Summed

\* It changes nothing else.
LEMMA RestatedFacts ==
    ASSUME NEW m, Base(m), NEW i
    PROVE  /\ Base(Restated(m, i)) /\ SameView(Restated(m, i), m)
           /\ Unpast(m) => Unpast(Restated(m, i))
<1> DEFINE k == Restated(m, i)
<1>1. Worked(m, i) \in SUBSET Plans /\ Reviewed(m, i) \in SUBSET Plans /\ m \in Panel
  BY DEF Worked, Reviewed, Base
<1>2. k \in Panel /\ SameView(k, m) /\ k.history = m.history
  BY <1>1, RestatedIs, SummedFacts
<1> HIDE DEF k
<1>3. Base(k) /\ (Unpast(m) => Unpast(k)) /\ SameView(k, m)
  BY <1>2 DEF Base, SameView, SelOK, Unpast
<1> QED BY <1>3 DEF k

\* SetItems counts and rebuilds.
LEMMA RestatGood ==
    ASSUME NEW m, Base(m), Unpast(m), NEW i, AtOK(i)
    PROVE  Good(Restat(m, i)) /\ Restat(m, i).list = m.list
<1>1. Base(Restated(m, i)) /\ Unpast(Restated(m, i)) /\ Restated(m, i).list = m.list
  BY RestatedFacts DEF SameView
<1>2. /\ Good(Rebuild(Restated(m, i), i))
      /\ SameRest(Rebuild(Restated(m, i), i), Restated(m, i))
  BY <1>1, RebuildGood
<1> QED BY <1>1, <1>2 DEF Restat, SameRest

\* What the sidebar is given.
Given(m, plans, topic, shown) ==
    [m EXCEPT !.plans = plans, !.topic = topic, !.shown = shown]

\* The record with what the plan state gives, and its fields.
LEMMA GivenFacts ==
    ASSUME NEW m \in Panel, NEW plans \in SUBSET Plans, NEW topic \in SUBSET InTopic,
           NEW shown \in [Plans -> Status]
    PROVE  /\ Given(m, plans, topic, shown) \in Panel
           /\ SameView(Given(m, plans, topic, shown), m)
           /\ Given(m, plans, topic, shown).running = m.running
           /\ Given(m, plans, topic, shown).notes = m.notes
BY DEF Given, Panel, SameView

\* updateSidebarPlans changes nothing else.
LEMMA SidebarFacts ==
    ASSUME NEW m, Base(m), stored \in [Plans -> Status]
    PROVE  /\ Base(Sidebar(m)) /\ SameView(Sidebar(m), m)
           /\ Sidebar(m).running = m.running /\ Sidebar(m).notes = m.notes
<1> DEFINE topic == {p \in PlansByTopic : stored[p] # "done"}
           plans == topic \cup UngroupedPlans
           k == Sidebar(m)
<1>1. topic \in SUBSET InTopic /\ plans \in SUBSET Plans /\ m \in Panel
  BY NavAssumption DEF PlansByTopic, UngroupedPlans, Base
<1>2. k = Given(m, plans, topic, stored)
  BY DEF Sidebar, Given
<1> HIDE DEF topic, plans, k
<1>3. k \in Panel /\ SameView(k, m) /\ k.running = m.running /\ k.notes = m.notes
  BY <1>1, <1>2, GivenFacts
<1>4. Base(k)
  BY <1>3 DEF Base, SameView, SelOK
<1> QED BY <1>3, <1>4 DEF k

\* The finished plans are a list of plans.
LEMMA FinishedFacts == stored \in [Plans -> Status] => Finished \in Seq(Plans)
<1> DEFINE down == [k \in Plans |-> NPlans + 1 - k]
<1>1. NPlans \in Nat /\ Plans = 1 .. NPlans
  BY NavAssumption DEF Plans
<1>2. down \in Seq(Plans)
  BY <1>1
<1>3. Finished = Only(down, {p \in Plans : stored[p] = "done"})
  BY DEF Finished
<1> HIDE DEF down
<1> QED BY <1>2, <1>3, OnlyFacts

\* What Refreshed rebuilds.
Renewed(m, i) == Split(Sidebar(Restated(m, i)), Finished, i)

\* It is counted, given and partitioned for the instances there are.
LEMMA RenewedFacts ==
    ASSUME NEW m, Base(m), NEW i, AtOK(i), stored \in [Plans -> Status]
    PROVE  /\ Base(Renewed(m, i)) /\ Unpast(Renewed(m, i))
           /\ SameView(Renewed(m, i), m)
           /\ Renewed(m, i).running = Restated(m, i).running
           /\ Renewed(m, i).notes = Restated(m, i).notes
<1> DEFINE a == Restated(m, i)
           b == Sidebar(a)
           c == Split(b, Finished, i)
<1>1. Base(a) /\ SameView(a, m)
  BY RestatedFacts
<1>2. Renewed(m, i) = c
  BY DEF Renewed
<1> HIDE DEF a
<1>3. Base(b) /\ SameView(b, a) /\ b.running = a.running /\ b.notes = a.notes
  BY <1>1, SidebarFacts
<1> HIDE DEF b
<1>4. Base(c) /\ Unpast(c) /\ SameView(c, b) /\ SameFolds(c, b)
  BY <1>3, FinishedFacts, SplitFacts
<1> HIDE DEF c
<1>5. Base(c) /\ Unpast(c) /\ SameView(c, m) /\ c.running = a.running /\ c.notes = a.notes
  BY <1>1, <1>3, <1>4 DEF SameView, SameFolds
<1> QED BY <1>2, <1>5 DEF a

\* SetTopicsAndPlans leaves the panel as it must be.
LEMMA RefreshedGood ==
    ASSUME NEW m, Base(m), NEW i, AtOK(i), stored \in [Plans -> Status]
    PROVE  Good(Refreshed(m, i)) /\ Refreshed(m, i).list = m.list
<1>1. Refreshed(m, i) = Rebuild(Renewed(m, i), i)
  BY DEF Refreshed, Renewed
<1>2. Base(Renewed(m, i)) /\ Unpast(Renewed(m, i)) /\ Renewed(m, i).list = m.list
  BY RenewedFacts DEF SameView
<1>3. Good(Rebuild(Renewed(m, i), i)) /\ SameRest(Rebuild(Renewed(m, i), i), Renewed(m, i))
  BY <1>2, RebuildGood
<1> QED BY <1>1, <1>2, <1>3 DEF SameRest

\* Another list of instances.
Listed(m, list) == [m EXCEPT !.list = list]

\* The record with another list of instances, and its fields.
LEMMA ListedFacts ==
    ASSUME NEW m \in Panel, NEW list \in Seq(Insts)
    PROVE  /\ Listed(m, list) \in Panel /\ Listed(m, list).list = list
           /\ Listed(m, list).rows = m.rows /\ Listed(m, list).sel = m.sel
           /\ SameFolds(Listed(m, list), m)
BY DEF Listed, Panel, SameFolds

\* An instance more, at the end.
LEMMA ListedOnce ==
    ASSUME NEW T, NEW s \in Seq(T), NEW e \in T,
           IsInjective(s), e \notin ToSet(s)
    PROVE  IsInjective(Append(s, e))
<1> DEFINE N == Len(s)
           t == Append(s, e)
<1>1. /\ N \in Nat /\ DOMAIN s = 1 .. N /\ DOMAIN t = 1 .. N + 1
      /\ t[N + 1] = e
  OBVIOUS
<1>2. \A j \in 1 .. N : t[j] = s[j]
  OBVIOUS
<1>3. \A j \in 1 .. N : s[j] # e
  BY <1>1 DEF ToSet
<1>4. \A j, k \in 1 .. N : s[j] = s[k] => j = k
  BY <1>1 DEF IsInjective
<1>5. IsInjective(t)
  <2> HIDE DEF N, t
  <2>1. \A j \in 1 .. N + 1 : j \in 1 .. N \/ j = N + 1
    BY <1>1
  <2>2. \A j, k \in 1 .. N + 1 : t[j] = t[k] => j = k
    BY <1>1, <1>2, <1>3, <1>4, <2>1
  <2> QED BY <1>1, <2>2 DEF IsInjective
<1> QED BY <1>5

\* One less.
LEMMA RemoveAtFacts ==
    ASSUME NEW T, NEW s \in Seq(T), IsInjective(s), NEW d \in 1 .. Len(s)
    PROVE  /\ RemoveAt(s, d) \in Seq(T) /\ IsInjective(RemoveAt(s, d))
           /\ ToSet(RemoveAt(s, d)) = ToSet(s) \ {s[d]}
<1> DEFINE N == Len(s)
           a == SubSeq(s, 1, d - 1)
           b == SubSeq(s, d + 1, Len(s))
           t == RemoveAt(s, d)
<1>1. N \in Nat /\ d \in 1 .. N /\ DOMAIN s = 1 .. N
  OBVIOUS
<1>2. /\ a \in Seq(T) /\ Len(a) = d - 1
      /\ \A j \in 1 .. d - 1 : a[j] = s[j]
  OBVIOUS
<1>3. /\ b \in Seq(T) /\ Len(b) = N - d
      /\ \A j \in 1 .. N - d : b[j] = s[d + j]
  OBVIOUS
<1>4. t = a \o b
  BY DEF RemoveAt
<1> HIDE DEF a, b, t, N
<1>5. /\ t \in Seq(T) /\ DOMAIN t = 1 .. N - 1
      /\ \A j \in 1 .. N - 1 : t[j] = IF j < d THEN a[j] ELSE b[j - (d - 1)]
  <2> DEFINE A == d - 1
             B == N - d
  <2>1. A \in Nat /\ B \in Nat /\ A + B = N - 1 /\ Len(a) = A /\ Len(b) = B
    BY <1>1, <1>2, <1>3
  <2>3. a \in Seq(T) /\ b \in Seq(T)
    BY <1>2, <1>3
  <2>4. t \in Seq(T) /\ Len(t) = Len(a) + Len(b)
    BY ONLY <1>4, <2>3
  <2>5. DOMAIN t = 1 .. N - 1
    BY <2>1, <2>4
  <2>6. \A j \in 1 .. Len(a) + Len(b) : t[j] = IF j <= Len(a) THEN a[j] ELSE b[j - Len(a)]
    BY ONLY <1>4, <2>3
  <2>7. \A j \in 1 .. N - 1 : j <= d - 1 <=> j < d
    BY <1>1
  <2> QED BY <2>1, <2>4, <2>5, <2>6, <2>7
<1>6. \A j \in 1 .. N - 1 : t[j] = IF j < d THEN s[j] ELSE s[j + 1]
  <2>1. \A j \in 1 .. N - 1 : j < d => j \in 1 .. d - 1
    BY <1>1
  <2>2. \A j \in 1 .. N - 1 : ~(j < d) => /\ j - (d - 1) \in 1 .. N - d
                                          /\ d + (j - (d - 1)) = j + 1
    BY <1>1
  <2> QED BY <1>2, <1>3, <1>5, <2>1, <2>2
<1>7. IsInjective(t)
  <2> SUFFICES ASSUME NEW j \in 1 .. N - 1, NEW k \in 1 .. N - 1, t[j] = t[k]
               PROVE  j = k
    BY <1>5 DEF IsInjective
  <2> DEFINE p == IF j < d THEN j ELSE j + 1
             q == IF k < d THEN k ELSE k + 1
  <2>1. p \in 1 .. N /\ q \in 1 .. N /\ (p = q => j = k)
    BY <1>1
  <2>2. s[p] = s[q]
    BY <1>6
  <2> HIDE DEF p, q
  <2>3. p = q
    BY <1>1, <2>1, <2>2 DEF IsInjective
  <2> QED BY <2>1, <2>3
<1>8. ToSet(t) = ToSet(s) \ {s[d]}
  <2>1. ASSUME NEW j \in 1 .. N - 1 PROVE t[j] \in ToSet(s) /\ t[j] # s[d]
    <3> DEFINE p == IF j < d THEN j ELSE j + 1
    <3>1. p \in 1 .. N /\ p # d
      BY <1>1
    <3>2. t[j] = s[p]
      BY <1>6
    <3> HIDE DEF p
    <3> QED BY <1>1, <3>1, <3>2 DEF ToSet, IsInjective
  <2>2. ASSUME NEW p \in 1 .. N, s[p] # s[d] PROVE \E j \in 1 .. N - 1 : t[j] = s[p]
    <3> DEFINE j == IF p < d THEN p ELSE p - 1
    <3>1. p # d
      BY <2>2
    <3>2. j \in 1 .. N - 1 /\ p = IF j < d THEN j ELSE j + 1
      BY <1>1, <3>1
    <3> HIDE DEF j
    <3>3. t[j] = s[p]
      BY <1>6, <3>2
    <3> QED BY <3>2, <3>3
  <2>3. \A y \in ToSet(t) : y \in ToSet(s) \ {s[d]}
    <3>1. \A y \in ToSet(t) : \E j \in 1 .. N - 1 : y = t[j]
      BY <1>5 DEF ToSet
    <3> QED BY <2>1, <3>1
  <2>4. ASSUME NEW y \in ToSet(s), y # s[d] PROVE y \in ToSet(t)
    <3>1. PICK p \in 1 .. N : y = s[p]
      BY <1>1 DEF ToSet
    <3>2. PICK j \in 1 .. N - 1 : t[j] = s[p]
      BY <2>2, <2>4, <3>1
    <3>3. t[j] \in ToSet(t)
      BY <1>5 DEF ToSet
    <3> QED BY <3>1, <3>2, <3>3
  <2> QED BY <2>3, <2>4
<1> QED BY <1>5, <1>7, <1>8 DEF t

\* AddInstance.
LEMMA AddedGood ==
    ASSUME NEW m, Good(m), NEW i, AtOK(i), NEW x \in Insts \ ToSet(m.list)
    PROVE  /\ Good(Added(m, x, i)) /\ x \in ToSet(Added(m, x, i).list)
           /\ ToSet(Added(m, x, i).list) = ToSet(m.list) \cup {x}
           /\ Added(m, x, i).running = m.running /\ Added(m, x, i).notes = m.notes
<1> DEFINE list == Append(m.list, x)
           with == Listed(m, list)
           k == Resplit(with, i)
<1>1. m \in Panel /\ SelOK(m) /\ m.list \in Seq(Insts) /\ IsInjective(m.list)
  BY DEF Good, Base, Panel
<1>2. list \in Seq(Insts) /\ ToSet(list) = ToSet(m.list) \cup {x} /\ IsInjective(list)
  <2>1. x \in Insts /\ x \notin ToSet(m.list)
    OBVIOUS
  <2>2. list \in Seq(Insts) /\ ToSet(list) = ToSet(m.list) \cup {x}
    BY <1>1, <2>1, AppendSet
  <2>3. IsInjective(list)
    BY <1>1, <2>1, ListedOnce
  <2> QED BY <2>2, <2>3
<1>3. Added(m, x, i) = Rebuild(k, i)
  BY DEF Added, Listed
<1> HIDE DEF list
<1>4. Base(with) /\ with.list = list /\ SameFolds(with, m)
  <2>1. /\ with \in Panel /\ with.list = list /\ with.rows = m.rows /\ with.sel = m.sel
        /\ SameFolds(with, m)
    BY <1>1, <1>2, ListedFacts
  <2> HIDE DEF with
  <2> QED BY <1>1, <1>2, <2>1 DEF Base, SelOK
<1> HIDE DEF with
<1>5. Base(k) /\ Unpast(k) /\ k.list = list /\ SameFolds(k, with)
  BY <1>4, ResplitFacts DEF SameView
<1> HIDE DEF k
<1>6. Good(Rebuild(k, i)) /\ SameRest(Rebuild(k, i), k)
  BY <1>5, RebuildGood
<1> QED BY <1>2, <1>3, <1>4, <1>5, <1>6 DEF SameRest, SameFolds

\* The list without the first instance of a title.
WithoutTitle(m, title, i) ==
    Listed(m, RemoveFirstMatch(m.list, LAMBDA x : i[x].title = title))

\* An instance of the title is gone, and no other.
LEMMA WithoutTitleFacts ==
    ASSUME NEW m, Base(m), NEW i, NEW title, \E x \in ToSet(m.list) : i[x].title = title
    PROVE  \E x \in ToSet(m.list) :
              /\ i[x].title = title
              /\ Base(WithoutTitle(m, title, i))
              /\ ToSet(WithoutTitle(m, title, i).list) = ToSet(m.list) \ {x}
              /\ WithoutTitle(m, title, i).rows = m.rows
              /\ WithoutTitle(m, title, i).sel = m.sel
              /\ SameFolds(WithoutTitle(m, title, i), m)
<1> DEFINE list == RemoveFirstMatch(m.list, LAMBDA x : i[x].title = title)
           I == {j \in 1 .. Len(m.list) : i[m.list[j]].title = title}
           d == Min(I)
           k == Listed(m, list)
<1>1. m \in Panel /\ SelOK(m) /\ m.list \in Seq(Insts) /\ IsInjective(m.list)
  BY DEF Base, Panel
<1>2. DOMAIN m.list = 1 .. Len(m.list)
  BY <1>1
<1>3. I # {} /\ I \in SUBSET Nat
  BY <1>2 DEF ToSet
<1>4. list = RemoveAt(m.list, IF I # {} THEN d ELSE 0)
  BY <1>3 DEF RemoveFirstMatch, SelectInSeq
<1>5. d \in I
  <2> HIDE DEF I
  <2> QED BY <1>3, MinFacts
<1> HIDE DEF d
<1>6. d \in 1 .. Len(m.list) /\ i[m.list[d]].title = title /\ m.list[d] \in ToSet(m.list)
  BY <1>2, <1>5 DEF ToSet
<1>7. list = RemoveAt(m.list, d)
  BY <1>3, <1>4
<1> HIDE DEF list
<1>8. /\ list \in Seq(Insts) /\ IsInjective(list)
      /\ ToSet(list) = ToSet(m.list) \ {m.list[d]}
  BY <1>1, <1>6, <1>7, RemoveAtFacts
<1>9. /\ k \in Panel /\ k.list = list /\ k.rows = m.rows /\ k.sel = m.sel /\ SameFolds(k, m)
  BY <1>1, <1>8, ListedFacts
<1>10. WithoutTitle(m, title, i) = k
  BY DEF WithoutTitle, list
<1> HIDE DEF k
<1>11. Base(k)
  BY <1>1, <1>8, <1>9 DEF Base, SelOK
<1> QED BY <1>6, <1>8, <1>9, <1>10, <1>11

\* RemoveByTitle.
LEMMA RemovedGood ==
    ASSUME NEW m, Good(m), NEW i, AtOK(i), NEW title
    PROVE  /\ Good(RemovedTitle(m, title, i))
           /\ ToSet(RemovedTitle(m, title, i).list) \subseteq ToSet(m.list)
           /\ RemovedTitle(m, title, i).running = m.running
           /\ RemovedTitle(m, title, i).notes = m.notes
<1>1. CASE ~\E x \in ToSet(m.list) : i[x].title = title
  <2>1. RemovedTitle(m, title, i) = m
    BY <1>1 DEF RemovedTitle
  <2> QED BY <2>1
<1>2. CASE \E x \in ToSet(m.list) : i[x].title = title
  <2> DEFINE left == WithoutTitle(m, title, i)
             k == Resplit(left, i)
  <2>1. RemovedTitle(m, title, i) = Rebuild(k, i)
    BY <1>2 DEF RemovedTitle, WithoutTitle, Listed
  <2>2. Base(left) /\ ToSet(left.list) \subseteq ToSet(m.list) /\ SameFolds(left, m)
    BY <1>2, WithoutTitleFacts DEF Good
  <2> HIDE DEF left
  <2>3. Base(k) /\ Unpast(k) /\ k.list = left.list /\ SameFolds(k, left)
    BY <2>2, ResplitFacts DEF SameView
  <2> HIDE DEF k
  <2>4. Good(Rebuild(k, i)) /\ SameRest(Rebuild(k, i), k)
    BY <2>3, RebuildGood
  <2> QED BY <2>1, <2>2, <2>3, <2>4 DEF SameRest, SameFolds
<1> QED BY <1>1, <1>2

\* NavigationPanel.Kill.
LEMMA KillGood ==
    ASSUME NEW m, Good(m), NEW i, AtOK(i)
    PROVE  /\ Good(Kill(m, i)) /\ ToSet(Kill(m, i).list) \subseteq ToSet(m.list)
           /\ Kill(m, i).running = m.running /\ Kill(m, i).notes = m.notes
BY RemovedGood DEF Kill

\* The row of an instance.
LEMMA RowOfFacts ==
    ASSUME NEW m \in Panel, NEW x
    PROVE  /\ RowOf(m, x) # 0 => RowOf(m, x) \in 1 .. Len(m.rows)
           /\ (\E r \in ToSet(m.rows) : r.inst = x) => RowOf(m, x) # 0
<1> DEFINE I == {j \in 1 .. Len(m.rows) : m.rows[j].inst = x}
<1>1. RowOf(m, x) = IF I # {} THEN Min(I) ELSE 0
  BY DEF RowOf, SelectInSeq
<1>2. I \in SUBSET Nat /\ I \subseteq 1 .. Len(m.rows)
  OBVIOUS
<1>3. DOMAIN m.rows = 1 .. Len(m.rows)
  BY DEF Panel
<1>4. (\E r \in ToSet(m.rows) : r.inst = x) => I # {}
  BY <1>3 DEF ToSet
<1> HIDE DEF I
<1>5. I # {} => Min(I) \in I
  BY <1>2, MinFacts
<1>6. 0 \notin 1 .. Len(m.rows)
  OBVIOUS
<1> QED BY <1>1, <1>2, <1>4, <1>5, <1>6

\* Other folds.
Refolded(m, folded, overrides) == [m EXCEPT !.folded = folded, !.overrides = overrides]

\* The record with other folds, and its fields.
LEMMA RefoldedFacts ==
    ASSUME NEW m, Good(m), NEW folded \in SUBSET (Plans \cup {0}),
           NEW overrides \in SUBSET Plans
    PROVE  /\ Base(Refolded(m, folded, overrides)) /\ Unpast(Refolded(m, folded, overrides))
           /\ Refolded(m, folded, overrides).list = m.list
           /\ Refolded(m, folded, overrides).running = m.running
           /\ Refolded(m, folded, overrides).notes = m.notes
<1> DEFINE k == Refolded(m, folded, overrides)
<1>1. m \in Panel
  BY DEF Good, Base
<1>2. /\ k \in Panel /\ k.list = m.list /\ k.rows = m.rows /\ k.sel = m.sel
      /\ k.history = m.history /\ k.running = m.running /\ k.notes = m.notes
  BY <1>1 DEF Panel, Refolded
<1> HIDE DEF k
<1>3. Base(k) /\ Unpast(k)
  BY <1>2 DEF Good, Base, Unpast, SelOK
<1> QED BY <1>2, <1>3 DEF k

\* It is as it must be when it is rebuilt.
LEMMA RefoldedGood ==
    ASSUME NEW m, Good(m), NEW folded \in SUBSET (Plans \cup {0}),
           NEW overrides \in SUBSET Plans, NEW i, AtOK(i)
    PROVE  LET k == Rebuild(Refolded(m, folded, overrides), i)
           IN Good(k) /\ k.list = m.list /\ k.running = m.running /\ k.notes = m.notes
<1> DEFINE a == Refolded(m, folded, overrides)
<1>1. /\ Base(a) /\ Unpast(a) /\ a.list = m.list
      /\ a.running = m.running /\ a.notes = m.notes
  BY RefoldedFacts
<1> HIDE DEF a
<1>2. Good(Rebuild(a, i)) /\ SameRest(Rebuild(a, i), a)
  BY <1>1, RebuildGood
<1>3. Rebuild(a, i).list = m.list
      /\ Rebuild(a, i).running = m.running /\ Rebuild(a, i).notes = m.notes
  BY <1>1, <1>2 DEF SameRest
<1> QED BY <1>2, <1>3 DEF a

\* What an operation on the view leaves.
SameSums(k, m) == k.list = m.list /\ k.running = m.running /\ k.notes = m.notes

\* An operation on the view that is as it must be.
Viewed(k, m) == Good(k) /\ SameSums(k, m)

\* No operation is one.
LEMMA ViewedItself == ASSUME NEW m, Good(m) PROVE Viewed(m, m)
BY DEF Viewed, SameSums

\* To select another row is one.
LEMMA ViewedSel ==
    ASSUME NEW m, Good(m), NEW k \in 1 .. Len(m.rows)
    PROVE  Viewed([m EXCEPT !.sel = k], m)
<1>1. m \in Panel /\ k \in Nat
  BY DEF Good, Base
<1>2. SameRest([m EXCEPT !.sel = k], m)
  BY <1>1, SelSet
<1>3. Good([m EXCEPT !.sel = k])
  BY SelectedGood
<1> QED BY <1>2, <1>3 DEF Viewed, SameSums, SameRest

\* One after another is one.
LEMMA ViewedTwice ==
    ASSUME NEW a, NEW b, NEW c, Viewed(a, b), Viewed(b, c) PROVE Viewed(a, c)
BY DEF Viewed, SameSums

\* SelectInstance.
LEMMA SelectInstGood ==
    ASSUME NEW m, Good(m), NEW i, AtOK(i), NEW x \in Insts
    PROVE  Viewed(SelectInst(m, x, i), m)
<1> DEFINE open == Rebuild([m EXCEPT !.folded = @ \ {i[x].plan},
                                     !.overrides = @ \cup {i[x].plan}], i)
<1>1. SelectInst(m, x, i) = IF RowOf(m, x) # 0 THEN [m EXCEPT !.sel = RowOf(m, x)]
                            ELSE IF i[x].plan = 0 THEN m
                            ELSE IF RowOf(open, x) # 0 THEN [open EXCEPT !.sel = RowOf(open, x)]
                            ELSE open
  BY DEF SelectInst
<1>2. m \in Panel
  BY DEF Good, Base
<1>3. RowOf(m, x) # 0 => Viewed([m EXCEPT !.sel = RowOf(m, x)], m)
  BY <1>2, RowOfFacts, ViewedSel
<1>4. ASSUME i[x].plan # 0 PROVE Viewed(open, m)
  <2>1. i[x].plan \in Plans
    BY <1>4, AtFacts
  <2>2. m.folded \in SUBSET (Plans \cup {0}) /\ m.overrides \in SUBSET Plans
    BY <1>2 DEF Panel
  <2> DEFINE f == m.folded \ {i[x].plan}
             o == m.overrides \cup {i[x].plan}
  <2>3. f \in SUBSET (Plans \cup {0}) /\ o \in SUBSET Plans
    BY <2>1, <2>2
  <2>4. open = Rebuild(Refolded(m, f, o), i)
    BY DEF Refolded
  <2> HIDE DEF f, o, open
  <2> QED BY <2>3, <2>4, RefoldedGood DEF Viewed, SameSums
<1> HIDE DEF open
<1>5. ASSUME i[x].plan # 0, RowOf(open, x) # 0
      PROVE  Viewed([open EXCEPT !.sel = RowOf(open, x)], m)
  <2>1. Good(open) /\ open \in Panel
    BY <1>4, <1>5 DEF Viewed, Good, Base
  <2>2. Viewed([open EXCEPT !.sel = RowOf(open, x)], open)
    BY <1>5, <2>1, RowOfFacts, ViewedSel
  <2> QED BY <1>4, <1>5, <2>2, ViewedTwice
<1> QED BY <1>1, <1>3, <1>4, <1>5, ViewedItself

\* Up, Down.
LEMMA UpGood == ASSUME NEW m, Good(m) PROVE Viewed(Up(m), m)
<1> DEFINE above == Steps(m, 1 .. m.sel - 1)
<1>1. m.sel \in Nat /\ SelOK(m) /\ Len(m.rows) \in Nat
  BY DEF Good, Base, Panel
<1>2. above \subseteq 1 .. m.sel - 1
  BY DEF Steps
<1>3. Up(m) = IF above = {} THEN m ELSE [m EXCEPT !.sel = Max(above)]
  BY DEF Up
<1> HIDE DEF above
<1>4. ASSUME above # {} PROVE Max(above) \in 1 .. Len(m.rows)
  <2>1. above \in SUBSET (0 .. m.sel)
    BY <1>1, <1>2
  <2>2. Max(above) \in above
    BY <1>1, <1>4, <2>1, MaxFacts
  <2>3. Max(above) \in 1 .. m.sel - 1
    BY <1>2, <2>2
  <2>4. m.sel \in 1 .. Len(m.rows) \/ m.sel = 1
    BY <1>1 DEF SelOK
  <2> HIDE DEF SelOK
  <2> QED BY <1>1, <2>3, <2>4
<1> QED BY <1>3, <1>4, ViewedItself, ViewedSel

\* Down is such an operation.
LEMMA DownGood == ASSUME NEW m, Good(m) PROVE Viewed(Down(m), m)
<1> DEFINE below == Steps(m, m.sel + 1 .. Len(m.rows))
<1>1. m.sel \in Nat /\ Len(m.rows) \in Nat
  BY DEF Good, Base, Panel
<1>2. below \subseteq m.sel + 1 .. Len(m.rows)
  BY DEF Steps
<1>3. Down(m) = IF below = {} THEN m ELSE [m EXCEPT !.sel = Min(below)]
  BY DEF Down
<1> HIDE DEF below
<1>4. ASSUME below # {} PROVE Min(below) \in 1 .. Len(m.rows)
  <2>1. below \in SUBSET Nat
    BY <1>1, <1>2
  <2>2. Min(below) \in below
    BY <1>4, <2>1, MinFacts
  <2>3. Min(below) \in m.sel + 1 .. Len(m.rows)
    BY <1>2, <2>2
  <2> QED BY <1>1, <2>3
<1> QED BY <1>3, <1>4, ViewedItself, ViewedSel

\* SelectFirst.
LEMMA FirstGood == ASSUME NEW m, Good(m) PROVE Viewed(First(m), m)
<1> DEFINE k == IF m.rows[1].kind = "solo" /\ Len(m.rows) > 1 THEN 2 ELSE 1
<1>1. First(m) = IF m.rows = << >> THEN m ELSE [m EXCEPT !.sel = k]
  BY DEF First
<1>2. ASSUME m.rows # << >> PROVE k \in 1 .. Len(m.rows)
  <2>1. m.rows \in Seq(Row)
    BY DEF Good, Base, Panel
  <2>2. Len(m.rows) \in Nat /\ Len(m.rows) # 0
    BY <1>2, <2>1
  <2> QED BY <2>2
<1> HIDE DEF k
<1> QED BY <1>1, <1>2, ViewedItself, ViewedSel

\* The selected row.
LEMMA SelectedRow ==
    ASSUME NEW m, Good(m)
    PROVE  /\ m.rows # << >> =>
                 /\ m.sel \in 1 .. Len(m.rows)
                 /\ m.rows[m.sel] \in Row /\ m.rows[m.sel] \in ToSet(m.rows)
                 /\ RowShape(m.rows[m.sel])
           /\ Selected(m) \in Insts \cup {NoInst}
           /\ SelectedPlan(m) \in Plans \cup {0}
<1>1. m.rows \in Seq(Row) /\ SelOK(m) /\ \A r \in ToSet(m.rows) : RowShape(r)
  BY DEF Good, Base, Panel
<1>2. m.rows # << >> => m.sel \in 1 .. Len(m.rows)
  BY <1>1 DEF SelOK
<1>3. DOMAIN m.rows = 1 .. Len(m.rows)
  BY <1>1
<1>4. m.rows # << >> => m.rows[m.sel] \in Row /\ m.rows[m.sel] \in ToSet(m.rows)
  BY <1>1, <1>2, <1>3 DEF ToSet
<1>5. \A r \in Row : r.inst \in Insts \cup {NoInst} /\ r.plan \in Plans \cup {0}
  BY DEF Row
<1> QED BY <1>1, <1>2, <1>4, <1>5 DEF Selected, SelectedPlan

\* Sections that are opened and closed.
LEMMA OpenedGood ==
    ASSUME NEW m, Good(m), NEW i, AtOK(i)
    PROVE  /\ Viewed(Rebuild([m EXCEPT !.deadOpen = ~@], i), m)
           /\ Viewed(Rebuild([m EXCEPT !.histOpen = ~@], i), m)
<1> DEFINE a == [m EXCEPT !.deadOpen = ~@]
           b == [m EXCEPT !.histOpen = ~@]
<1>1. m \in Panel
  BY DEF Good, Base
<1>2. /\ a \in Panel /\ SameView(a, m) /\ a.history = m.history
      /\ a.running = m.running /\ a.notes = m.notes
  BY <1>1 DEF Panel, SameView
<1>3. /\ b \in Panel /\ SameView(b, m) /\ b.history = m.history
      /\ b.running = m.running /\ b.notes = m.notes
  BY <1>1 DEF Panel, SameView
<1> HIDE DEF a, b
<1>4. Base(a) /\ Unpast(a) /\ Base(b) /\ Unpast(b)
  BY <1>2, <1>3 DEF Good, Base, Unpast, SameView, SelOK
<1>5. /\ Good(Rebuild(a, i)) /\ SameRest(Rebuild(a, i), a)
      /\ Good(Rebuild(b, i)) /\ SameRest(Rebuild(b, i), b)
  BY <1>4, RebuildGood
<1>6. Viewed(Rebuild(a, i), m) /\ Viewed(Rebuild(b, i), m)
  BY <1>2, <1>3, <1>5 DEF Viewed, SameSums, SameRest, SameView
<1> QED BY <1>6 DEF a, b

\* ToggleSelectedExpand.
LEMMA ToggleGood ==
    ASSUME NEW m, Good(m), NEW i, AtOK(i)
    PROVE  Viewed(Toggle(m, i), m)
<1> DEFINE r == m.rows[m.sel]
           f == IF r.collapsed THEN m.folded \ {r.plan} ELSE m.folded \cup {r.plan}
           o == m.overrides \cup {r.plan}
           g == IF r.collapsed THEN m.folded \ {0} ELSE m.folded \cup {0}
<1>1. Toggle(m, i) =
        CASE m.rows = << >> -> m
          [] m.rows # << >> /\ r.kind = "plan" -> Rebuild(Refolded(m, f, o), i)
          [] m.rows # << >> /\ r.kind = "topic" -> Rebuild(Refolded(m, g, m.overrides), i)
          [] m.rows # << >> /\ r.kind = "dead" -> Rebuild([m EXCEPT !.deadOpen = ~@], i)
          [] m.rows # << >> /\ r.kind = "history" -> Rebuild([m EXCEPT !.histOpen = ~@], i)
          [] OTHER -> m
  <2>1. m \in Panel
    BY DEF Good, Base
  <2>2. Refolded(m, g, m.overrides) = [m EXCEPT !.folded = g]
    BY <2>1 DEF Refolded, Panel
  <2> QED BY <2>2 DEF Toggle, Refolded
<1>2. m.folded \in SUBSET (Plans \cup {0}) /\ m.overrides \in SUBSET Plans
  BY DEF Good, Base, Panel
<1>3. g \in SUBSET (Plans \cup {0})
  BY <1>2
<1>4. m.rows # << >> => r \in Row /\ RowShape(r)
  BY SelectedRow
<1> HIDE DEF r
<1>5. ASSUME m.rows # << >>, r.kind = "plan"
      PROVE  f \in SUBSET (Plans \cup {0}) /\ o \in SUBSET Plans
  <2>1. r.plan \in Plans
    BY <1>4, <1>5 DEF RowShape, Row
  <2> QED BY <1>2, <2>1
<1> HIDE DEF f, o, g
<1>6. /\ f \in SUBSET (Plans \cup {0}) /\ o \in SUBSET Plans =>
            Viewed(Rebuild(Refolded(m, f, o), i), m)
      /\ Viewed(Rebuild(Refolded(m, g, m.overrides), i), m)
  BY <1>2, <1>3, RefoldedGood DEF Viewed, SameSums
<1>7. CASE m.rows = << >>
  <2>1. Toggle(m, i) = m
    BY <1>1, <1>7
  <2> QED BY <2>1, ViewedItself
<1>8. CASE m.rows # << >> /\ r.kind = "plan"
  <2>1. Toggle(m, i) = Rebuild(Refolded(m, f, o), i)
    BY <1>1, <1>8
  <2> QED BY <2>1, <1>5, <1>6, <1>8
<1>9. CASE m.rows # << >> /\ r.kind = "topic"
  <2>1. Toggle(m, i) = Rebuild(Refolded(m, g, m.overrides), i)
    BY <1>1, <1>9
  <2> QED BY <2>1, <1>6
<1>10. CASE m.rows # << >> /\ r.kind = "dead"
  <2>1. Toggle(m, i) = Rebuild([m EXCEPT !.deadOpen = ~@], i)
    BY <1>1, <1>10
  <2> QED BY <2>1, OpenedGood
<1>11. CASE m.rows # << >> /\ r.kind = "history"
  <2>1. Toggle(m, i) = Rebuild([m EXCEPT !.histOpen = ~@], i)
    BY <1>1, <1>11
  <2> QED BY <2>1, OpenedGood
<1>12. CASE m.rows # << >> /\ r.kind \notin {"plan", "topic", "dead", "history"}
  <2>1. Toggle(m, i) = m
    BY <1>1, <1>12
  <2> QED BY <2>1, ViewedItself
<1> QED BY <1>7, <1>8, <1>9, <1>10, <1>11, <1>12

\* cycleActive.
LEMMA CycleGood ==
    ASSUME NEW m, Good(m), NEW i, AtOK(i), NEW down \in BOOLEAN
    PROVE  Viewed(Cycle(m, i, down), m)
<1> DEFINE awake(list) == Only(list, {x \in Insts : i[x].status # "paused"})
           part(r) == IF r.kind = "inst" THEN awake(<<r.inst>>)
                      ELSE IF r.kind = "plan" /\ r.collapsed THEN awake(Of(m, r.plan, i))
                      ELSE << >>
           parts == [k \in 1 .. Len(m.rows) |-> part(m.rows[k])]
           order == FlattenSeq(parts)
           I == {k \in 1 .. Len(order) : order[k] = Selected(m)}
           cur == IF I # {} THEN Min(I) ELSE 0
           from == IF cur = 0 THEN 0 ELSE cur - 1
           to == (from + (IF down THEN 1 ELSE Len(order) - 1)) % Len(order)
<1>1. Cycle(m, i, down) = IF order = << >> THEN m ELSE SelectInst(m, order[to + 1], i)
  BY DEF Cycle, SelectInSeq
<1>2. m \in Panel /\ m.rows \in Seq(Row) /\ \A r \in ToSet(m.rows) : RowShape(r)
  BY DEF Good, Base, Panel
<1>3. \A list \in Seq(Insts) : awake(list) \in Seq(Insts)
  BY OnlyFacts
<1>4. order \in Seq(Insts)
  <2>1. \A k \in 1 .. Len(m.rows) : part(m.rows[k]) \in Seq(Insts)
    <3> SUFFICES ASSUME NEW k \in 1 .. Len(m.rows) PROVE part(m.rows[k]) \in Seq(Insts)
      OBVIOUS
    <3> DEFINE r == m.rows[k]
    <3>1. r \in Row /\ RowShape(r)
      BY <1>2 DEF ToSet
    <3> HIDE DEF r
    <3>2. r.kind = "inst" => r.inst \in Insts
      BY <3>1 DEF RowShape, Row
    <3>3. r.kind = "inst" => <<r.inst>> \in Seq(Insts)
      BY <3>2, FewSet
    <3>4. Of(m, r.plan, i) \in Seq(Insts) /\ << >> \in Seq(Insts)
      BY <1>2, OfFacts, FewSet
    <3> HIDE DEF awake
    <3>5. part(r) \in Seq(Insts)
      BY <1>3, <3>3, <3>4
    <3> QED BY <3>5 DEF r
  <2> HIDE DEF part
  <2>2. parts \in Seq(Seq(Insts))
    BY <1>2, <2>1
  <2> HIDE DEF parts
  <2> QED BY <2>2, FlattenFacts
<1> HIDE DEF order
<1>5. cur = 0 \/ cur \in 1 .. Len(order)
  <2>1. I \in SUBSET Nat /\ I \subseteq 1 .. Len(order)
    OBVIOUS
  <2> HIDE DEF I
  <2>2. I # {} => Min(I) \in I
    BY <2>1, MinFacts
  <2> QED BY <2>1, <2>2
<1> HIDE DEF cur
<1>6. ASSUME order # << >> PROVE order[to + 1] \in Insts
  <2> DEFINE L == Len(order)
             sum == from + (IF down THEN 1 ELSE L - 1)
  <2>1. L \in Nat /\ L >= 1
    BY <1>4, <1>6
  <2>2. \A k \in 1 .. L : order[k] \in Insts
    BY <1>4
  <2>3. cur = 0 \/ cur \in 1 .. L
    BY <1>5
  <2>4. to = sum % L
    OBVIOUS
  <2> HIDE DEF L
  <2>5. sum \in Nat
    BY <2>1, <2>3
  <2> HIDE DEF sum, to
  <2>6. sum % L \in 0 .. L - 1
    BY <2>1, <2>5
  <2>7. to + 1 \in 1 .. L
    BY <2>1, <2>4, <2>6
  <2> QED BY <2>2, <2>7
<1> HIDE DEF to
<1>7. order # << >> => Viewed(SelectInst(m, order[to + 1], i), m)
  BY <1>6, SelectInstGood
<1> QED BY <1>1, <1>7, ViewedItself

\* FindPlanInstance.
LEMMA PlanInstanceFacts ==
    ASSUME NEW m \in Panel, NEW i, AtOK(i), NEW p
    PROVE  PlanInstance(m, p, i) \in Insts \cup {NoInst}
<1> DEFINE awake == Only(Of(m, p, i), {x \in Insts : i[x].status # "paused"})
           busy  == Only(awake, {x \in Insts : Working(i[x])})
<1>1. awake \in Seq(Insts)
  BY OfFacts, OnlyFacts
<1>2. PlanInstance(m, p, i) = IF busy # << >> THEN busy[1]
                              ELSE IF awake # << >> THEN awake[1] ELSE NoInst
  BY DEF PlanInstance
<1> HIDE DEF awake
<1>3. busy \in Seq(Insts)
  BY <1>1, OnlyFacts
<1> HIDE DEF busy
<1>4. \A s \in Seq(Insts) : s # << >> => s[1] \in Insts
  <2> TAKE s \in Seq(Insts)
  <2>1. s # << >> => Len(s) \in Nat /\ Len(s) >= 1
    OBVIOUS
  <2> QED BY <2>1
<1> QED BY <1>1, <1>2, <1>3, <1>4

\* InspectPlan.
LEMMA InspectedGood ==
    ASSUME NEW m, Good(m), NEW i, AtOK(i), NEW p \in Plans
    PROVE  Viewed(Inspected(m, p, i), m)
<1> DEFINE a == [m EXCEPT !.inspected = @ \cup {p}]
           b == Resplit(a, i)
           c == [b EXCEPT !.deadOpen = TRUE]
<1>1. m \in Panel /\ m.inspected \in SUBSET Plans
  BY DEF Good, Base, Panel
<1>2. a \in Panel /\ SameView(a, m) /\ SameFolds(a, m)
  BY <1>1 DEF Panel, SameView, SameFolds
<1>3. Inspected(m, p, i) = Rebuild(c, i)
  BY DEF Inspected
<1> HIDE DEF a
<1>4. Base(a)
  BY <1>2 DEF Good, Base, SameView, SelOK
<1>5. Base(b) /\ Unpast(b) /\ SameView(b, a) /\ SameFolds(b, a)
  BY <1>4, ResplitFacts
<1> HIDE DEF b
<1>6. /\ c \in Panel /\ SameView(c, b) /\ c.history = b.history
      /\ c.running = b.running /\ c.notes = b.notes
  <2>1. b \in Panel
    BY <1>5 DEF Base
  <2> QED BY <2>1 DEF Panel, SameView
<1> HIDE DEF c
<1>7. Base(c) /\ Unpast(c)
  BY <1>5, <1>6 DEF Base, Unpast, SameView, SelOK
<1>8. Good(Rebuild(c, i)) /\ SameRest(Rebuild(c, i), c)
  BY <1>7, RebuildGood
<1>9. Viewed(Rebuild(c, i), m)
  BY <1>2, <1>5, <1>6, <1>8 DEF Viewed, SameSums, SameRest, SameView, SameFolds
<1> QED BY <1>3, <1>9

\* Another search.
Asked(m, q) == [m EXCEPT !.query = q]

\* Another query is such an operation.
LEMMA AskedGood ==
    ASSUME NEW m, Good(m), NEW q \in Plans \cup {0}
    PROVE  Viewed(Asked(m, q), m) /\ Asked(m, q).rows = m.rows
<1> DEFINE a == Asked(m, q)
<1>1. m \in Panel
  BY DEF Good, Base
<1>2. /\ a \in Panel /\ SameView(a, m) /\ a.history = m.history /\ a.plans = m.plans
      /\ a.topic = m.topic /\ a.dead = m.dead /\ SameSums(a, m)
  BY <1>1 DEF Asked, Panel, SameView, SameSums
<1> HIDE DEF a
<1>3. Base(a) /\ Unpast(a)
  BY <1>2 DEF Good, Base, Unpast, SameView, SelOK
<1>4. Reaches(a)
  BY <1>2 DEF Good, Reaches, Shows, Closed, SameView
<1>5. Viewed(a, m) /\ a.rows = m.rows
  BY <1>2, <1>3, <1>4 DEF Good, Viewed, SameView
<1> QED BY <1>5 DEF a

\* SetSearchQuery is such an operation.
LEMMA SearchedGood ==
    ASSUME NEW m, Good(m), NEW q \in Plans \cup {0}
    PROVE  Viewed(Searched(m, q), m)
<1> DEFINE asked == Asked(m, q)
           first == Steps(asked, 1 .. Len(m.rows))
<1>1. Searched(m, q) = IF q # 0 /\ m.rows # << >> /\ ~Matches(asked, m.sel) /\ first # {}
                       THEN [asked EXCEPT !.sel = Min(first)] ELSE asked
  BY DEF Searched, Asked
<1>2. first \subseteq 1 .. Len(m.rows)
  BY DEF Steps
<1> HIDE DEF first
<1>3. Viewed(asked, m) /\ asked.rows = m.rows
  BY AskedGood
<1> HIDE DEF asked
<1>4. ASSUME first # {} PROVE Viewed([asked EXCEPT !.sel = Min(first)], m)
  <2>1. first \in SUBSET Nat
    BY <1>2
  <2>2. Min(first) \in 1 .. Len(asked.rows)
    BY <1>2, <1>3, <1>4, <2>1, MinFacts
  <2>3. Viewed([asked EXCEPT !.sel = Min(first)], asked)
    BY <1>3, <2>2, ViewedSel DEF Viewed
  <2> QED BY <1>3, <2>3, ViewedTwice
<1> QED BY <1>1, <1>3, <1>4

----------------------------------------------------------------------------
(* The instances *)

\* The statuses of instances.
Statuses == {"new", "loading", "running", "ready", "paused"}

\* An instance's record is replaced.
LEMMA AtSet ==
    ASSUME NEW i, AtOK(i), NEW x \in Insts, NEW a \in InstRec, a.plan = PlanFor(x)
    PROVE  AtOK([i EXCEPT ![x] = a])
BY DEF AtOK

\* One that is made again.
LEMMA FreshFacts ==
    ASSUME NEW x \in Insts
    PROVE  /\ Fresh(x) \in InstRec /\ Fresh(x).plan = PlanFor(x)
           /\ Fresh(x).status = "new" /\ ~Fresh(x).notified
<1>1. 0 \in Titles /\ \A y \in Agents : TitleOf[y] \in Titles /\ PlanOf[y] \in Plans \cup {0}
  BY NavAssumption DEF Titles
<1>2. x # New => x \in Agents
  BY DEF Insts
<1> QED BY <1>1, <1>2 DEF Fresh, InstRec, PlanFor

\* Another status.
LEMMA WithStatusFacts ==
    ASSUME NEW a \in InstRec, NEW s \in Statuses
    PROVE  /\ WithStatus(a, s) \in InstRec /\ WithStatus(a, s).plan = a.plan
           /\ WithStatus(a, s).title = a.title /\ WithStatus(a, s).status = s
           /\ s = "loading" => ~WithStatus(a, s).notified
<1> DEFINE b == IF Working([status |-> s]) THEN FALSE
                ELSE a.notified \/ (a.status = "running" /\ s = "ready")
<1>1. b \in BOOLEAN
  <2>1. a.notified \in BOOLEAN
    BY DEF InstRec
  <2> QED BY <2>1
<1>2. WithStatus(a, s) = [a EXCEPT !.status = s, !.notified = b]
  BY DEF WithStatus
<1>3. s = "loading" => b = FALSE
  BY DEF Working
<1> HIDE DEF b
<1> QED BY <1>1, <1>2, <1>3 DEF InstRec, Statuses

\* An instance gets another status.
LEMMA AtStatus ==
    ASSUME NEW i, AtOK(i), NEW x \in Insts, NEW s \in Statuses
    PROVE  AtOK([i EXCEPT ![x] = WithStatus(i[x], s)])
<1>1. i[x] \in InstRec /\ i[x].plan = PlanFor(x)
  BY AtFacts
<1>2. WithStatus(i[x], s) \in InstRec /\ WithStatus(i[x], s).plan = PlanFor(x)
  BY <1>1, WithStatusFacts
<1> QED BY <1>2, AtSet

\* An instance is as it was before it started.
LEMMA AtFresh ==
    ASSUME NEW i, AtOK(i), NEW x \in Insts
    PROVE  AtOK([i EXCEPT ![x] = Fresh(x)])
BY FreshFacts, AtSet

\* A notification that is seen.
Cleared(i, x) == [i EXCEPT ![x] = [i[x] EXCEPT !.notified = FALSE]]

\* A notification is cleared.
LEMMA ClearedFacts ==
    ASSUME NEW i, AtOK(i), NEW x \in Insts
    PROVE  /\ AtOK(Cleared(i, x)) /\ ~Cleared(i, x)[x].notified
           /\ \A y \in Insts : /\ Cleared(i, x)[y].title = i[y].title
                               /\ Cleared(i, x)[y].status = i[y].status
                               /\ Cleared(i, x)[y].notified => i[y].notified
<1> DEFINE a == [i[x] EXCEPT !.notified = FALSE]
           j == Cleared(i, x)
<1>1. i[x] \in InstRec /\ i[x].plan = PlanFor(x)
  BY AtFacts
<1>2. /\ a \in InstRec /\ a.plan = PlanFor(x) /\ ~a.notified
      /\ a.title = i[x].title /\ a.status = i[x].status
  BY <1>1 DEF InstRec
<1>3. j = [i EXCEPT ![x] = a]
  BY DEF Cleared
<1> HIDE DEF a, j
<1>4. AtOK(j)
  BY <1>2, <1>3, AtSet
<1>5. j[x] = a /\ \A y \in Insts : y # x => j[y] = i[y]
  BY <1>3 DEF AtOK
<1>6. \A y \in Insts : /\ j[y].title = i[y].title /\ j[y].status = i[y].status
                       /\ j[y].notified => i[y].notified
  BY <1>2, <1>5
<1> QED BY <1>2, <1>4, <1>5, <1>6 DEF j

----------------------------------------------------------------------------
(* The invariant *)

\* The bounds.
UsedOK == used \in [moves : 0 .. MaxMoves, changes : 0 .. MaxChanges]

\* The inductive invariant.
NavInv ==
    /\ stored \in [Plans -> Status]
    /\ AtOK(at)
    /\ Good(n)
    /\ seen \in Insts \cup {NoInst} /\ naming \in BOOLEAN
    /\ UsedOK

\* What is used stays within its bound.
LEMMA SpendFacts ==
    ASSUME UsedOK, NEW b \in {"moves", "changes"}, Affordable(b), used' = Spend(b)
    PROVE  UsedOK'
<1>1. MaxMoves \in Nat /\ MaxChanges \in Nat
  BY NavAssumption
<1>2. used.moves \in 0 .. MaxMoves /\ used.changes \in 0 .. MaxChanges
  BY DEF UsedOK
<1>3. CASE b = "moves"
  <2>1. used' = [used EXCEPT !.moves = @ + 1] /\ used.moves < MaxMoves
    BY <1>3 DEF Affordable, Spend
  <2>2. used.moves + 1 \in 0 .. MaxMoves
    BY <1>1, <1>2, <2>1
  <2> QED BY <2>1, <2>2 DEF UsedOK
<1>4. CASE b = "changes"
  <2>1. used' = [used EXCEPT !.changes = @ + 1] /\ used.changes < MaxChanges
    BY <1>4 DEF Affordable, Spend
  <2>2. used.changes + 1 \in 0 .. MaxChanges
    BY <1>1, <1>2, <2>1
  <2> QED BY <2>1, <2>2 DEF UsedOK
<1> QED BY <1>3, <1>4

\* instanceChanged.
LEMMA ChangedFacts ==
    ASSUME NEW m, Good(m), NEW i, AtOK(i), seen \in Insts \cup {NoInst}, Changed(m, i)
    PROVE  /\ Good(n') /\ AtOK(at') /\ seen' \in Insts \cup {NoInst}
           /\ n'.list = m.list
           /\ \/ n' = m /\ at' = i
              \/ n' = Restat(m, at') /\ seen \in Insts /\ at' = Cleared(i, seen)
<1> DEFINE x == Selected(m)
           gone == seen # NoInst /\ seen # x
           i2 == IF gone THEN [i EXCEPT ![seen].notified = FALSE] ELSE i
<1>1. /\ n' = (IF gone THEN Restat(m, i2) ELSE m)
      /\ at' = i2
      /\ seen' = (IF x # NoInst /\ i2[x].notified THEN x ELSE IF gone THEN NoInst ELSE seen)
  BY DEF Changed
<1>2. x \in Insts \cup {NoInst}
  BY SelectedRow
<1>3. seen' \in Insts \cup {NoInst}
  BY <1>1, <1>2
<1>4. CASE gone
  <2>1. seen \in Insts /\ i2 = Cleared(i, seen)
    BY <1>4 DEF Cleared
  <2> HIDE DEF i2, gone
  <2>2. AtOK(i2)
    BY <2>1, ClearedFacts
  <2>3. Base(m) /\ Unpast(m)
    BY DEF Good
  <2>4. Good(Restat(m, i2)) /\ Restat(m, i2).list = m.list
    BY <2>2, <2>3, RestatGood
  <2> QED BY <1>1, <1>3, <1>4, <2>1, <2>2, <2>4
<1>5. CASE ~gone
  BY <1>1, <1>3, <1>5
<1> QED BY <1>4, <1>5

\* The start.
LEMMA InitNavInv == Init => NavInv /\ n.list = << >>
<1> SUFFICES ASSUME Init PROVE NavInv /\ n.list = << >>
  OBVIOUS
<1> DEFINE m == [rows |-> << >>, sel |-> 1, list |-> << >>, plans |-> {},
                 topic |-> {}, dead |-> << >>, promoted |-> << >>, history |-> << >>,
                 running |-> {}, notes |-> {}, folded |-> {}, overrides |-> {},
                 inspected |-> {}, deadOpen |-> TRUE, histOpen |-> FALSE,
                 query |-> 0, shown |-> stored]
<1>1. stored \in [Plans -> Status]
  BY DEF Init, Status
<1>2. AtOK(at)
  <2>1. at = [x \in Insts |-> Fresh(x)]
    BY DEF Init
  <2> QED BY <2>1, FreshFacts DEF AtOK
<1>3. m \in Panel /\ m.rows = << >> /\ m.sel = 1 /\ m.list = << >>
  BY <1>1 DEF Panel
<1>4. n = Refreshed(m, at)
  BY DEF Init
<1> HIDE DEF m
<1>5. Base(m)
  BY <1>3 DEF Base, SelOK, IsInjective
<1>6. Good(n) /\ n.list = << >>
  BY <1>1, <1>2, <1>3, <1>4, <1>5, RefreshedGood
<1>7. seen \in Insts \cup {NoInst} /\ naming \in BOOLEAN
  BY DEF Init
<1>8. UsedOK
  BY NavAssumption DEF Init, UsedOK
<1> QED BY <1>1, <1>2, <1>6, <1>7, <1>8 DEF NavInv

----------------------------------------------------------------------------
(* The steps keep the invariant *)

\* The instances of the lists.
LEMMA ListInsts == ASSUME NEW m, Good(m) PROVE ToSet(m.list) \subseteq Insts
<1>1. m.list \in Seq(Insts)
  BY DEF Good, Base, Panel
<1> QED BY <1>1, FewSet

\* The plan state changes.
LEMMA PlanChangeInv ==
    ASSUME NavInv, NEW p \in Plans, NEW s \in Status, PlanChange(p, s) PROVE NavInv'
<1>1. UsedOK'
  BY SpendFacts DEF PlanChange, NavInv
<1>2. stored' \in [Plans -> Status] /\ UNCHANGED <<at, n, seen, naming>>
  BY DEF PlanChange, NavInv
<1> QED BY <1>1, <1>2 DEF NavInv

\* The tick refreshes the sidebar.
LEMMA RefreshInv == ASSUME NavInv, Refresh PROVE NavInv'
<1>1. Good(n')
  BY RefreshedGood DEF Refresh, NavInv, Good
<1>2. UNCHANGED <<stored, at, seen, naming, used>>
  BY DEF Refresh
<1> QED BY <1>1, <1>2 DEF NavInv, UsedOK

\* An agent works or waits.
LEMMA AgentTurnsInv ==
    ASSUME NavInv, NEW x \in Agents, AgentTurns(x) PROVE NavInv'
<1> DEFINE s == IF at[x].status = "running" THEN "ready" ELSE "running"
<1>1. x \in Insts /\ s \in Statuses
  BY DEF Insts, Statuses
<1>2. at' = [at EXCEPT ![x] = WithStatus(at[x], s)]
  BY DEF AgentTurns
<1> HIDE DEF s
<1>3. AtOK(at')
  BY <1>1, <1>2, AtStatus DEF NavInv
<1>4. UsedOK'
  BY SpendFacts DEF AgentTurns, NavInv
<1>5. UNCHANGED <<stored, n, seen, naming>>
  BY DEF AgentTurns
<1> QED BY <1>3, <1>4, <1>5 DEF NavInv

\* An agent is added.
LEMMA SpawnInv == ASSUME NavInv, NEW x \in Agents, Spawn(x) PROVE NavInv'
<1> DEFINE i == [at EXCEPT ![x] = WithStatus(Fresh(x), "loading")]
           m == Added(n, x, i)
<1>1. x \in Insts /\ x \notin ToSet(n.list)
  BY DEF Insts, Spawn
<1>2. at' = i /\ n' \in {m, SelectInst(m, x, i)}
  BY DEF Spawn
<1>3. AtOK(i)
  <2>1. Fresh(x) \in InstRec /\ Fresh(x).plan = PlanFor(x) /\ "loading" \in Statuses
    BY <1>1, FreshFacts DEF Statuses
  <2>2. /\ WithStatus(Fresh(x), "loading") \in InstRec
        /\ WithStatus(Fresh(x), "loading").plan = PlanFor(x)
    BY <2>1, WithStatusFacts
  <2> QED BY <1>1, <2>2, AtSet DEF NavInv
<1> HIDE DEF i
<1>4. Good(m)
  BY <1>1, <1>3, AddedGood DEF NavInv
<1> HIDE DEF m
<1>5. Good(SelectInst(m, x, i))
  BY <1>1, <1>3, <1>4, SelectInstGood DEF Viewed
<1>6. Good(n') /\ AtOK(at')
  BY <1>2, <1>3, <1>4, <1>5
<1>7. UsedOK'
  BY SpendFacts DEF Spawn, NavInv
<1>8. UNCHANGED <<stored, seen, naming>>
  BY DEF Spawn
<1> QED BY <1>6, <1>7, <1>8 DEF NavInv

\* An instance that is removed by its title, and what was counted.
LEMMA DroppedFacts ==
    ASSUME NEW m, Good(m), NEW i, AtOK(i), NEW title
    PROVE  /\ Good(Restat(RemovedTitle(m, title, i), i))
           /\ Restat(RemovedTitle(m, title, i), i).list = RemovedTitle(m, title, i).list
<1>1. Good(RemovedTitle(m, title, i))
  BY RemovedGood
<1> QED BY <1>1, RestatGood DEF Good

\* An instance has started, or could not.
LEMMA StartDoneInv == ASSUME NavInv, NEW x \in Insts, StartDone(x) PROVE NavInv'
<1> DEFINE i == [at EXCEPT ![x] = WithStatus(at[x], "running")]
<1>1. \/ Changed(Restat(n, i), i)
      \/ /\ n' = Restat(RemovedTitle(n, at[x].title, at), at)
         /\ at' = [at EXCEPT ![x] = Fresh(x)]
         /\ UNCHANGED seen
  BY DEF StartDone
<1>2. AtOK(i)
  <2>1. "running" \in Statuses
    BY DEF Statuses
  <2> QED BY <2>1, AtStatus DEF NavInv
<1> HIDE DEF i
<1>3. CASE Changed(Restat(n, i), i)
  <2>1. Good(Restat(n, i))
    BY <1>2, RestatGood DEF NavInv, Good
  <2>2. Good(n') /\ AtOK(at') /\ seen' \in Insts \cup {NoInst}
    BY <1>2, <1>3, <2>1, ChangedFacts DEF NavInv
  <2>3. UNCHANGED <<stored, naming, used>>
    BY DEF StartDone
  <2> QED BY <2>2, <2>3 DEF NavInv, UsedOK
<1>4. CASE /\ n' = Restat(RemovedTitle(n, at[x].title, at), at)
           /\ at' = [at EXCEPT ![x] = Fresh(x)]
           /\ UNCHANGED seen
  <2>1. Good(n') /\ AtOK(at')
    BY <1>4, DroppedFacts, AtFresh DEF NavInv
  <2>2. UNCHANGED <<stored, naming, used>>
    BY DEF StartDone
  <2> QED BY <1>4, <2>1, <2>2 DEF NavInv, UsedOK
<1> QED BY <1>1, <1>3, <1>4

\* An agent is removed by its title.
LEMMA ReplacedInv == ASSUME NavInv, NEW x \in Agents, Replaced(x) PROVE NavInv'
<1>1. x \in Insts
  BY DEF Insts
<1>2. Good(n') /\ AtOK(at')
  BY <1>1, DroppedFacts, AtFresh DEF NavInv, Replaced
<1>3. UsedOK'
  BY SpendFacts DEF Replaced, NavInv
<1>4. UNCHANGED <<stored, seen, naming>>
  BY DEF Replaced
<1> QED BY <1>2, <1>3, <1>4 DEF NavInv

\* A key that moves the selection, and one that changes rows.
LEMMA MoveInv == ASSUME NavInv, NEW m, Good(m), Move(m) PROVE NavInv'
<1>1. Good(n') /\ AtOK(at') /\ seen' \in Insts \cup {NoInst}
  BY ChangedFacts DEF Move, NavInv
<1>2. UsedOK'
  BY SpendFacts DEF Move, Key, NavInv
<1>3. UNCHANGED <<stored, naming>>
  BY DEF Move, Key
<1> QED BY <1>1, <1>2, <1>3 DEF NavInv

\* A key that changes rows.
LEMMA ReshapeInv == ASSUME NavInv, NEW m, Good(m), Reshape(m) PROVE NavInv'
<1>1. UsedOK'
  BY SpendFacts DEF Reshape, Key, NavInv
<1>2. n' = m /\ UNCHANGED <<stored, naming, at, seen>>
  BY DEF Reshape, Key
<1> QED BY <1>1, <1>2 DEF NavInv

\* The arrow up.
LEMMA MoveUpInv == ASSUME NavInv, MoveUp PROVE NavInv'
<1>1. Good(Up(n))
  BY UpGood DEF NavInv, Viewed
<1> QED BY <1>1, MoveInv DEF MoveUp

\* The arrow down.
LEMMA MoveDownInv == ASSUME NavInv, MoveDown PROVE NavInv'
<1>1. Good(Down(n))
  BY DownGood DEF NavInv, Viewed
<1> QED BY <1>1, MoveInv DEF MoveDown

\* The keys that cycle through the instances.
LEMMA CycleActiveInv == ASSUME NavInv, CycleActive PROVE NavInv'
<1>1. PICK down \in BOOLEAN : Move(Cycle(n, at, down))
  BY DEF CycleActive
<1>2. Good(Cycle(n, at, down))
  BY CycleGood DEF NavInv, Viewed
<1> QED BY <1>1, <1>2, MoveInv

\* A click.
LEMMA ClickItemInv == ASSUME NavInv, ClickItem PROVE NavInv'
<1>1. PICK k \in DOMAIN n.rows : Move([n EXCEPT !.sel = k])
  BY DEF ClickItem
<1>2. k \in 1 .. Len(n.rows)
  BY DEF NavInv, Good, Base, Panel
<1>3. Good([n EXCEPT !.sel = k])
  BY <1>2, SelectedGood DEF NavInv
<1> QED BY <1>1, <1>3, MoveInv

\* A row is folded or unfolded.
LEMMA ToggleExpandInv == ASSUME NavInv, ToggleExpand PROVE NavInv'
<1>1. Good(Toggle(n, at))
  BY ToggleGood DEF NavInv, Viewed
<1> QED BY <1>1, ReshapeInv DEF ToggleExpand

\* A finished plan is taken from the history.
LEMMA InspectPlanInv == ASSUME NavInv, InspectPlan PROVE NavInv'
<1>1. n.rows # << >> /\ n.rows[n.sel].kind = "past"
      /\ Reshape(Inspected(n, SelectedPlan(n), at))
  BY DEF InspectPlan
<1>2. SelectedPlan(n) \in Plans
  <2>1. n.rows[n.sel] \in Row /\ RowShape(n.rows[n.sel])
    BY <1>1, SelectedRow DEF NavInv
  <2>2. n.rows[n.sel].plan \in Plans
    BY <1>1, <2>1 DEF RowShape, Row
  <2> QED BY <1>1, <2>2 DEF SelectedPlan
<1>3. Good(Inspected(n, SelectedPlan(n), at))
  BY <1>2, InspectedGood DEF NavInv, Viewed
<1> QED BY <1>1, <1>3, ReshapeInv

\* The instance of a plan is selected.
LEMMA TalkInv == ASSUME NavInv, Talk PROVE NavInv'
<1> DEFINE x == PlanInstance(n, SelectedPlan(n), at)
<1>1. x # NoInst /\ Reshape(SelectInst(n, x, at))
  BY DEF Talk
<1>2. x \in Insts
  BY <1>1, PlanInstanceFacts DEF NavInv, Good, Base
<1> HIDE DEF x
<1>3. Good(SelectInst(n, x, at))
  BY <1>2, SelectInstGood DEF NavInv, Viewed
<1> QED BY <1>1, <1>3, ReshapeInv

\* The search.
LEMMA SearchInv == ASSUME NavInv, NEW q \in Plans \cup {0}, Search(q) PROVE NavInv'
<1>1. Good(Asked(n, 0))
  BY AskedGood DEF NavInv, Viewed
<1>2. ASSUME NEW m, Good(m) PROVE Good(Searched(m, q))
  BY <1>2, SearchedGood DEF Viewed
<1>3. Good(n) /\ Good(First(n))
  BY FirstGood DEF NavInv, Viewed
<1>4. /\ n' = (IF q = 0 THEN Asked(n, 0)
               ELSE Searched(IF n.query = 0 THEN First(n) ELSE n, q))
      /\ Key /\ UNCHANGED <<at, seen>>
  BY DEF Search, Asked
<1> DEFINE m == IF n.query = 0 THEN First(n) ELSE n
<1>5. Good(m)
  BY <1>3
<1>6. n' = IF q = 0 THEN Asked(n, 0) ELSE Searched(m, q)
  BY <1>4
<1> HIDE DEF m
<1>7. Good(n')
  BY <1>1, <1>2, <1>5, <1>6
<1>8. UsedOK'
  BY <1>4, SpendFacts DEF Key, NavInv
<1>9. UNCHANGED <<stored, naming, at, seen>>
  BY <1>4 DEF Key
<1> QED BY <1>7, <1>8, <1>9 DEF NavInv

\* The selected instance is killed.
LEMMA KillSelectedInv == ASSUME NavInv, KillSelected PROVE NavInv'
<1>1. Good(Kill(n, at))
  BY KillGood DEF NavInv
<1>2. Good(Restat(Kill(n, at), at))
  BY <1>1, RestatGood DEF NavInv, Good
<1> QED BY <1>2, MoveInv DEF KillSelected

\* The selected instance is paused.
LEMMA PauseSelectedInv == ASSUME NavInv, PauseSelected PROVE NavInv'
<1> DEFINE x == Selected(n)
           i == [at EXCEPT ![x] = WithStatus(at[x], "paused")]
<1>1. x # NoInst /\ Key /\ Changed(Restat(n, i), i)
  BY DEF PauseSelected
<1>2. x \in Insts
  BY <1>1, SelectedRow DEF NavInv
<1> HIDE DEF x
<1>3. AtOK(i)
  <2>1. "paused" \in Statuses
    BY DEF Statuses
  <2> QED BY <1>2, <2>1, AtStatus DEF NavInv
<1> HIDE DEF i
<1>4. Good(Restat(n, i))
  BY <1>3, RestatGood DEF NavInv, Good
<1>5. Good(n') /\ AtOK(at') /\ seen' \in Insts \cup {NoInst}
  BY <1>1, <1>3, <1>4, ChangedFacts DEF NavInv
<1>6. UsedOK'
  BY <1>1, SpendFacts DEF Key, NavInv
<1>7. UNCHANGED <<stored, naming>>
  BY <1>1 DEF Key
<1> QED BY <1>5, <1>6, <1>7 DEF NavInv

\* The new instance is added and selected.
LEMMA BeginNamingInv == ASSUME NavInv, BeginNaming PROVE NavInv'
<1>1. New \in Insts /\ New \notin ToSet(n.list)
  BY DEF Insts, BeginNaming
<1>2. AtOK(at')
  BY <1>1, AtFresh DEF BeginNaming, NavInv
<1>3. Good(Added(n, New, at'))
  BY <1>1, <1>2, AddedGood DEF NavInv
<1>4. Good(n')
  BY <1>1, <1>2, <1>3, SelectInstGood DEF Viewed, BeginNaming
<1>5. UsedOK'
  BY SpendFacts DEF BeginNaming, NavInv
<1>6. UNCHANGED <<stored, seen>> /\ naming' = TRUE
  BY DEF BeginNaming
<1> QED BY <1>2, <1>4, <1>5, <1>6 DEF NavInv

\* An instance with another title.
LEMMA AtTitle ==
    ASSUME NEW i, AtOK(i), NEW t \in Titles
    PROVE  AtOK([i EXCEPT ![New] = [i[New] EXCEPT !.title = t]])
<1>1. New \in Insts
  BY DEF Insts
<1>2. i[New] \in InstRec /\ i[New].plan = PlanFor(New)
  BY <1>1, AtFacts
<1>3. /\ [i[New] EXCEPT !.title = t] \in InstRec
      /\ [i[New] EXCEPT !.title = t].plan = PlanFor(New)
  BY <1>2 DEF InstRec
<1> QED BY <1>1, <1>3, AtSet

\* A title is typed.
LEMMA TypeTitleInv == ASSUME NavInv, NEW t \in Titles, TypeTitle(t) PROVE NavInv'
<1>1. at' = [at EXCEPT ![New] = [at[New] EXCEPT !.title = t]]
  BY DEF TypeTitle
<1>2. AtOK(at')
  BY <1>1, AtTitle DEF NavInv
<1>3. UsedOK'
  BY SpendFacts DEF TypeTitle, NavInv
<1>4. UNCHANGED <<stored, n, seen, naming>>
  BY DEF TypeTitle
<1> QED BY <1>2, <1>3, <1>4 DEF NavInv

\* The title is submitted.
LEMMA SubmitTitleInv == ASSUME NavInv, SubmitTitle PROVE NavInv'
<1>1. at' = [at EXCEPT ![New] = WithStatus(at[New], "loading")]
  BY DEF SubmitTitle
<1>2. New \in Insts /\ "loading" \in Statuses
  BY DEF Insts, Statuses
<1>3. AtOK(at')
  BY <1>1, <1>2, AtStatus DEF NavInv
<1>4. UNCHANGED <<stored, n, seen, used>> /\ naming' = FALSE
  BY DEF SubmitTitle
<1> QED BY <1>3, <1>4 DEF NavInv, UsedOK

\* The naming is cancelled.
LEMMA CancelNamingInv == ASSUME NavInv, CancelNaming PROVE NavInv'
<1>1. Good(Kill(n, at))
  BY KillGood DEF NavInv
<1>2. Good(n') /\ AtOK(at') /\ seen' \in Insts \cup {NoInst}
  BY <1>1, ChangedFacts DEF NavInv, CancelNaming
<1>3. UNCHANGED <<stored, used>> /\ naming' = FALSE
  BY DEF CancelNaming
<1> QED BY <1>2, <1>3 DEF NavInv, UsedOK

\* Every step.
LEMMA NextNavInv == ASSUME NavInv, [Next]_vars PROVE NavInv'
<1>1. CASE UNCHANGED vars
  BY <1>1 DEF vars, NavInv, UsedOK
<1>2. CASE \E p \in Plans, s \in Status : PlanChange(p, s)
  BY <1>2, PlanChangeInv
<1>3. CASE Refresh
  BY <1>3, RefreshInv
<1>4. CASE \E x \in Agents : AgentTurns(x) \/ Spawn(x) \/ Replaced(x)
  BY <1>4, AgentTurnsInv, SpawnInv, ReplacedInv
<1>5. CASE \E x \in Insts : StartDone(x)
  BY <1>5, StartDoneInv
<1>6. CASE MoveUp \/ MoveDown \/ CycleActive \/ ClickItem \/ ToggleExpand \/ InspectPlan
  BY <1>6, MoveUpInv, MoveDownInv, CycleActiveInv, ClickItemInv, ToggleExpandInv,
     InspectPlanInv
<1>7. CASE Talk \/ KillSelected \/ PauseSelected
  BY <1>7, TalkInv, KillSelectedInv, PauseSelectedInv
<1>8. CASE \E q \in Plans \cup {0} : Search(q)
  BY <1>8, SearchInv
<1>9. CASE BeginNaming \/ SubmitTitle \/ CancelNaming
  BY <1>9, BeginNamingInv, SubmitTitleInv, CancelNamingInv
<1>10. CASE \E t \in Titles : TypeTitle(t)
  BY <1>10, TypeTitleInv
<1> QED BY <1>1, <1>2, <1>3, <1>4, <1>5, <1>6, <1>7, <1>8, <1>9, <1>10 DEF Next

\* The invariant holds.
LEMMA NavInvariant == Spec => []NavInv
BY InitNavInv, NextNavInv, PTL DEF Spec

\* The types, the indices among them: what is selected is a row there is, after every
\* rebuild (rebuildRows), and an instance is listed once.
THEOREM TypeCorrect == Spec => []TypeOK
<1>1. NavInv => TypeOK
  <2> SUFFICES ASSUME NavInv PROVE TypeOK
    OBVIOUS
  <2>1. n \in Panel /\ SelOK(n) /\ IsInjective(n.list)
    BY DEF NavInv, Good, Base
  <2>2. /\ n.rows \in Seq(Row) /\ n.list \in Seq(Insts)
        /\ n.plans \subseteq Plans /\ n.topic \subseteq InTopic
        /\ n.dead \in Seq(Plans) /\ n.promoted \in Seq(Plans) /\ n.history \in Seq(Plans)
        /\ n.running \subseteq Plans /\ n.notes \subseteq Plans
        /\ n.folded \subseteq Plans \cup {0} /\ n.overrides \subseteq Plans
        /\ n.query \in Plans \cup {0}
    BY <2>1 DEF Panel
  <2>3. \A i \in Insts : at[i] \in InstRec
    BY AtFacts DEF NavInv
  <2>4. used.moves \in 0 .. MaxMoves /\ used.changes \in 0 .. MaxChanges
    BY DEF NavInv, UsedOK
  <2> QED BY <2>1, <2>2, <2>3, <2>4 DEF TypeOK, NavInv, SelOK, InstRec
<1> QED BY <1>1, NavInvariant, PTL

\* Every agent of a listed plan has a row or may be given one by unfolding, and no plan
\* with agents is put away in the history (splitDeadFromHistory, AddInstance).
THEOREM AgentsReachableTheorem == Spec => []AgentsReachable
<1>1. NavInv => AgentsReachable
  <2> SUFFICES ASSUME NavInv, NEW x \in ToSet(n.list)
               PROVE  LET p == at[x].plan
                          folded(kind, q) == \E r \in ToSet(n.rows) :
                                                r.kind = kind /\ r.plan = q /\ r.collapsed
                      IN /\ p = 0 \/ p \in n.plans \cup ToSet(n.dead) =>
                               \/ RowOf(n, x) # 0
                               \/ folded("plan", p)
                               \/ p \in n.topic /\ folded("topic", 0)
                               \/ p \in ToSet(n.dead) /\ folded("dead", 0)
                         /\ p \notin ToSet(n.history)
    BY DEF AgentsReachable
  <2>1. Good(n) /\ n \in Panel /\ AtOK(at) /\ x \in Insts
    BY ListInsts DEF NavInv, Good, Base
  <2>2. at[x].plan = PlanFor(x)
    BY <2>1, AtFacts
  <2>3. PlanFor(x) \notin ToSet(n.history)
    BY <2>1 DEF Good, Unpast
  <2>4. PlanFor(x) = 0 \/ PlanFor(x) \in n.plans \cup ToSet(n.dead) => Shows(n, x)
    BY <2>1 DEF Good, Reaches
  <2>5. (\E r \in ToSet(n.rows) : r.inst = x) => RowOf(n, x) # 0
    BY <2>1, RowOfFacts
  <2> QED BY <2>2, <2>3, <2>4, <2>5 DEF Shows, Closed
<1> QED BY <1>1, NavInvariant, PTL

----------------------------------------------------------------------------
(* The selection across rebuilds *)

\* A row for what another one is for: the property's same.
Like(old, r) ==
    IF old.inst # NoInst THEN r.inst = old.inst
    ELSE old.plan # 0 /\ r.inst = NoInst /\ r.plan = old.plan

\* The plans that have rows.
Vis(m, p, i) ==
    \/ p \in Busy(m, i)
    \/ p \in Idle(m, i) /\ (p \notin m.topic \/ 0 \notin m.folded)
    \/ p \in ToSet(m.dead) /\ m.deadOpen

\* They have them all.
LEMMA VisRows ==
    ASSUME NEW m \in Panel, NEW i, NEW p, Vis(m, p, i)
    PROVE  PlanSet(m, p, i) \subseteq RowSet(m, i)
<1>1. ASSUME NEW S, p \in S PROVE PlanSet(m, p, i) \subseteq PlanSets(S, m, i)
  BY <1>1 DEF PlanSets
<1>2. CASE p \in Busy(m, i)
  <2>1. PlanSets(Busy(m, i), m, i) \subseteq RowSet(m, i)
    BY DEF RowSet
  <2> QED BY <1>1, <1>2, <2>1
<1>3. CASE p \in Idle(m, i) /\ p \notin m.topic
  <2>1. PlanSets(Idle(m, i) \ m.topic, m, i) \subseteq RowSet(m, i)
    BY DEF RowSet
  <2> QED BY <1>1, <1>3, <2>1
<1>4. CASE p \in Idle(m, i) /\ p \in m.topic /\ 0 \notin m.folded
  <2>1. TopicSet(m, i) \subseteq RowSet(m, i)
    BY DEF RowSet
  <2>2. PlanSets(m.topic \cap Idle(m, i), m, i) \subseteq TopicSet(m, i)
    BY <1>4 DEF TopicSet
  <2> QED BY <1>1, <1>4, <2>1, <2>2
<1>5. CASE p \in ToSet(m.dead) /\ m.deadOpen
  <2>1. DeadSet(m, i) \subseteq RowSet(m, i)
    BY DEF RowSet
  <2>2. PlanSets(ToSet(m.dead), m, i) \subseteq DeadSet(m, i)
    BY <1>5 DEF DeadSet
  <2> QED BY <1>1, <1>5, <2>1, <2>2
<1> QED BY <1>2, <1>3, <1>4, <1>5 DEF Vis

\* The rows that are for something, and why they are there.
LEMMA RowWhy ==
    ASSUME NEW m \in Panel, NEW i, AtOK(i), NEW r \in RowSet(m, i)
    PROVE  \/ r.inst = NoInst /\ r.plan = 0
           \/ \E p \in Plans : Vis(m, p, i) /\ r \in PlanSet(m, p, i)
           \/ r \in InstSet(Members(m, 0), i)
           \/ r \in HistorySet(m)
<1>1. m.deadOpen \in BOOLEAN /\ m.histOpen \in BOOLEAN /\ m.dead \in Seq(Plans)
  BY DEF Panel
<1>2. /\ ToSet(m.dead) \subseteq Plans
      /\ Busy(m, i) \subseteq Plans /\ Idle(m, i) \subseteq Plans
  BY <1>1, FewSet, IdleFacts
<1>3. ASSUME NEW S \in SUBSET Plans, r \in PlanSets(S, m, i), \A p \in S : Vis(m, p, i)
      PROVE  \E p \in Plans : Vis(m, p, i) /\ r \in PlanSet(m, p, i)
  BY <1>3 DEF PlanSets
<1>4. ASSUME NEW kind \in Kinds, NEW c \in BOOLEAN, r = ARow(kind, 0, c)
      PROVE  r.inst = NoInst /\ r.plan = 0
  BY <1>4, RowFacts
<1>5. CASE r \in ImportSet
  <2>1. r = ARow("import", 0, FALSE) /\ "import" \in Kinds
    BY <1>5 DEF ImportSet, Kinds
  <2> QED BY <1>4, <2>1
<1>6. CASE r \in DeadSet(m, i)
  <2> DEFINE c == ~m.deadOpen
  <2>1. \/ r = ARow("dead", 0, c)
        \/ m.deadOpen /\ r \in PlanSets(ToSet(m.dead), m, i)
    BY <1>6 DEF DeadSet
  <2>2. c \in BOOLEAN /\ "dead" \in Kinds
    BY DEF Kinds
  <2>3. m.deadOpen => \A p \in ToSet(m.dead) : Vis(m, p, i)
    BY DEF Vis
  <2> HIDE DEF c
  <2> QED BY <1>2, <1>3, <1>4, <2>1, <2>2, <2>3
<1>7. CASE r \in PlanSets(Busy(m, i), m, i)
  BY <1>2, <1>3, <1>7 DEF Vis
<1>8. CASE r \in SoloSet(m, i)
  <2>1. r = ARow("solo", 0, FALSE) \/ r \in InstSet(Members(m, 0), i)
    BY <1>8 DEF SoloSet
  <2>2. "solo" \in Kinds
    BY DEF Kinds
  <2> QED BY <1>4, <2>1, <2>2
<1>9. CASE r \in TopicSet(m, i)
  <2> DEFINE c == 0 \in m.folded
  <2>1. \/ r = ARow("topic", 0, c)
        \/ 0 \notin m.folded /\ r \in PlanSets(m.topic \cap Idle(m, i), m, i)
    BY <1>9 DEF TopicSet
  <2>2. c \in BOOLEAN /\ "topic" \in Kinds
    BY DEF Kinds
  <2>3. 0 \notin m.folded => \A p \in m.topic \cap Idle(m, i) : Vis(m, p, i)
    BY DEF Vis
  <2>4. m.topic \cap Idle(m, i) \in SUBSET Plans
    BY <1>2
  <2> HIDE DEF c
  <2> QED BY <1>3, <1>4, <2>1, <2>2, <2>3, <2>4
<1>10. CASE r \in PlanSets(Idle(m, i) \ m.topic, m, i)
  <2>1. \A p \in Idle(m, i) \ m.topic : Vis(m, p, i)
    BY DEF Vis
  <2>2. Idle(m, i) \ m.topic \in SUBSET Plans
    BY <1>2
  <2> QED BY <1>3, <1>10, <2>1, <2>2
<1>11. CASE r \in HistorySet(m)
  BY <1>11
<1> QED BY <1>5, <1>6, <1>7, <1>8, <1>9, <1>10, <1>11 DEF RowSet

\* Instances that are no more active than they were.
Calmer(j, i) ==
    \A x \in Insts : /\ Working(j[x]) => Working(i[x])
                     /\ j[x].notified => i[x].notified

\* A panel that differs from another in what was counted, and counts less.
Counts(b, a) ==
    /\ b.list = a.list /\ b.plans = a.plans /\ b.topic = a.topic /\ b.dead = a.dead
    /\ b.history = a.history /\ b.folded = a.folded /\ b.overrides = a.overrides
    /\ b.shown = a.shown /\ b.deadOpen = a.deadOpen /\ b.histOpen = a.histOpen
    /\ b.running \subseteq a.running /\ b.notes \subseteq a.notes

\* A plan is then no more attended to, nor less folded.
LEMMA CalmerPlan ==
    ASSUME NEW a \in Panel, NEW b \in Panel, NEW i, NEW j, AtOK(i), AtOK(j),
           Counts(b, a), Calmer(j, i), NEW p
    PROVE  /\ HasRunning(b, p, j) => HasRunning(a, p, i)
           /\ HasNote(b, p, j) => HasNote(a, p, i)
           /\ ~Folded(b, p, j) => ~Folded(a, p, i)
           /\ PlanKey(a, p, i) = 2 => PlanKey(b, p, j) = 2
           /\ Members(b, p) = Members(a, p)
<1>1. Members(b, p) = Members(a, p)
  BY DEF Members, Counts
<1>2. ToSet(Of(b, p, j)) = Members(a, p) /\ ToSet(Of(a, p, i)) = Members(a, p)
  BY <1>1, OfFacts
<1>3. Members(a, p) \subseteq Insts
  BY OfFacts DEF Members
<1>4. HasRunning(b, p, j) => HasRunning(a, p, i)
  BY <1>2, <1>3 DEF HasRunning, Counts, Calmer
<1>5. HasNote(b, p, j) => HasNote(a, p, i)
  BY <1>2, <1>3 DEF HasNote, Counts, Calmer
<1>6. ~Folded(b, p, j) => ~Folded(a, p, i)
  BY <1>4, <1>5 DEF Folded, Counts
<1>7. PlanKey(a, p, i) = 2 => PlanKey(b, p, j) = 2
  BY <1>4, <1>5 DEF PlanKey, Counts
<1> QED BY <1>1, <1>4, <1>5, <1>6, <1>7

\* What has a row when less is counted has one when more is.
LEMMA CalmerRows ==
    ASSUME NEW a \in Panel, NEW b \in Panel, NEW i, NEW j, AtOK(i), AtOK(j),
           Counts(b, a), Calmer(j, i), NEW old,
           NEW r \in RowSet(b, j), Like(old, r)
    PROVE  \E q \in RowSet(a, i) : Like(old, q)
<1>1. \A q : q.inst = r.inst /\ q.plan = r.plan => Like(old, q)
  BY DEF Like
<1>2. ~(r.inst = NoInst /\ r.plan = 0)
  BY DEF Like
<1>3. CASE \E p \in Plans : Vis(b, p, j) /\ r \in PlanSet(b, p, j)
  <2>1. PICK p \in Plans : Vis(b, p, j) /\ r \in PlanSet(b, p, j)
    BY <1>3
  <2>2. /\ ~Folded(b, p, j) => ~Folded(a, p, i)
        /\ PlanKey(a, p, i) = 2 => PlanKey(b, p, j) = 2
        /\ Members(b, p) = Members(a, p)
    BY CalmerPlan
  <2>3. Vis(a, p, i)
    <3>1. p \in Busy(b, j) => p \in Busy(a, i)
      BY <2>2 DEF Busy, Counts
    <3>2. p \in Idle(b, j) => p \in Idle(a, i) \/ p \in Busy(a, i)
      BY DEF Idle, Busy, Counts
    <3> QED BY <2>1, <3>1, <3>2 DEF Vis, Counts
  <2>4. PlanSet(a, p, i) \subseteq RowSet(a, i)
    BY <2>3, VisRows
  <2>5. CASE r = ARow("plan", p, Folded(b, p, j))
    <3> DEFINE q == ARow("plan", p, Folded(a, p, i))
    <3>1. /\ "plan" \in Kinds /\ p \in Plans \cup {0}
          /\ Folded(a, p, i) \in BOOLEAN /\ Folded(b, p, j) \in BOOLEAN
      BY FoldedBoolean DEF Kinds
    <3>2. q.inst = NoInst /\ q.plan = p /\ r.inst = NoInst /\ r.plan = p
      BY <2>5, <3>1, RowFacts
    <3>3. q \in RowSet(a, i)
      BY <2>4 DEF PlanSet
    <3> HIDE DEF q
    <3> QED BY <1>1, <3>2, <3>3
  <2>6. CASE r # ARow("plan", p, Folded(b, p, j))
    <3>1. PICK x \in Members(a, p) : ~Folded(a, p, i) /\ r = InstRow(x, j)
      BY <2>1, <2>2, <2>6 DEF PlanSet, InstSet
    <3>2. x \in Insts
      BY OfFacts DEF Members
    <3>3. /\ InstRow(x, i).inst = x /\ InstRow(x, i).plan = PlanFor(x)
          /\ r.inst = x /\ r.plan = PlanFor(x)
      BY <3>1, <3>2, RowFacts
    <3>4. InstRow(x, i) \in RowSet(a, i)
      BY <2>4, <3>1 DEF PlanSet, InstSet
    <3> QED BY <1>1, <3>3, <3>4
  <2> QED BY <2>5, <2>6
<1>4. CASE r \in InstSet(Members(b, 0), j)
  <2>1. PICK x \in Members(a, 0) : r = InstRow(x, j)
    BY <1>4 DEF InstSet, Members, Counts
  <2>2. x \in Insts
    BY OfFacts DEF Members
  <2>3. /\ InstRow(x, i).inst = x /\ InstRow(x, i).plan = PlanFor(x)
        /\ r.inst = x /\ r.plan = PlanFor(x)
    BY <2>1, <2>2, RowFacts
  <2>4. InstRow(x, i) \in RowSet(a, i)
    BY <2>1 DEF RowSet, SoloSet, InstSet
  <2> QED BY <1>1, <2>3, <2>4
<1>5. CASE r \in HistorySet(b)
  <2>1. r \in HistorySet(a)
    BY <1>5 DEF HistorySet, Counts
  <2>2. r \in RowSet(a, i)
    BY <2>1 DEF RowSet
  <2> QED BY <2>2
<1> QED BY <1>2, <1>3, <1>4, <1>5, RowWhy

\* The titles are of one instance each.
Distinct(i) == \A x, y \in Insts : i[x].title = i[y].title => x = y

\* A row's title, when it is built.
LEMMA RowTitle ==
    ASSUME NEW m \in Panel, NEW i, AtOK(i), NEW r \in RowSet(m, i), r.kind = "inst"
    PROVE  r.inst \in Insts /\ r.title = i[r.inst].title
<1>1. ASSUME NEW S \in SUBSET Insts, r \in InstSet(S, i)
      PROVE  r.inst \in Insts /\ r.title = i[r.inst].title
  <2>1. PICK x \in S : r = InstRow(x, i)
    BY <1>1 DEF InstSet
  <2>2. x \in Insts
    BY <2>1
  <2> QED BY <2>1, <2>2, RowFacts
<1>2. Members(m, 0) \in SUBSET Insts /\ \A p : Members(m, p) \in SUBSET Insts
  BY OfFacts DEF Members
<1>3. ASSUME r \in PlanSets(Plans, m, i)
      PROVE  r.inst \in Insts /\ r.title = i[r.inst].title
  <2>1. PICK p \in Plans : r \in PlanSet(m, p, i)
    BY <1>3 DEF PlanSets
  <2> DEFINE S == {x \in Members(m, p) : ~Folded(m, p, i)}
  <2>2. S \in SUBSET Insts
    BY <1>2
  <2>3. r # ARow("plan", p, Folded(m, p, i))
    <3>1. "plan" \in Kinds /\ p \in Plans \cup {0} /\ Folded(m, p, i) \in BOOLEAN
      BY FoldedBoolean DEF Kinds
    <3>2. ARow("plan", p, Folded(m, p, i)).kind = "plan"
      BY <3>1, RowFacts
    <3> QED BY <3>2
  <2>4. r \in InstSet(S, i)
    BY <2>1, <2>3 DEF PlanSet
  <2> HIDE DEF S
  <2> QED BY <1>1, <2>2, <2>4
<1> QED BY <1>1, <1>2, <1>3, RowSetCases

\* What was selected is selected among rebuilt rows when it has one of them.
LEMMA RebuildKeeps ==
    ASSUME NEW m, Base(m), \A r \in ToSet(m.rows) : RowShape(r), m.rows # << >>,
           NEW i, AtOK(i), Distinct(i), NEW old, old = m.rows[m.sel],
           old.inst # NoInst => old.title = i[old.inst].title,
           \E r \in RowSet(m, i) : Like(old, r),
           NEW k, k = Rebuild(m, i)
    PROVE  /\ k.rows # << >> /\ Like(old, k.rows[k.sel])
           /\ k.rows[k.sel].inst # NoInst =>
                 k.rows[k.sel].title = i[k.rows[k.sel].inst].title
<1>1. m \in Panel /\ SelOK(m)
  BY DEF Base
<1> DEFINE rows == AllRows(m, i)
           I == {j \in 1 .. Len(rows) : Id(rows[j]) = Id(m.rows[m.sel])}
<1>2. k.rows = rows /\ k.sel = Reselect(m, rows)
  BY <1>1, RebuildFacts
<1>3. rows \in Seq(Row) /\ ToSet(rows) = RowSet(m, i)
  BY <1>1, AllRowsFacts
<1>4. old \in Row /\ RowShape(old)
  <2>1. m.sel \in 1 .. Len(m.rows) /\ m.rows \in Seq(Row)
    BY <1>1 DEF SelOK, Panel
  <2>2. DOMAIN m.rows = 1 .. Len(m.rows)
    BY <2>1
  <2>3. old \in ToSet(m.rows)
    BY <2>1, <2>2 DEF ToSet
  <2> QED BY <2>1, <2>3
<1>5. Reselect(m, rows) = IF rows = << >> THEN 1
                          ELSE IF (IF I # {} THEN Min(I) ELSE 0) # 0
                          THEN IF I # {} THEN Min(I) ELSE 0
                          ELSE Reselect(m, rows)
  BY DEF Reselect, SelectInSeq
<1> HIDE DEF rows
<1>6. DOMAIN rows = 1 .. Len(rows) /\ \A j \in 1 .. Len(rows) : rows[j] \in RowSet(m, i)
  BY <1>3 DEF ToSet
<1>7. \A r \in RowSet(m, i) : /\ RowShape(r) /\ r \in Row
                              /\ r.kind = "inst" => /\ r.inst \in Insts
                                                    /\ r.title = i[r.inst].title
  <2>1. \A r \in RowSet(m, i) : r \in Row
    BY <1>3, FewSet
  <2> QED BY <1>1, <2>1, RowSetCases, RowTitle
<1>8. ASSUME NEW r \in RowSet(m, i), Like(old, r) PROVE Id(r) = Id(old)
  <2>1. RowShape(r) /\ (r.kind = "inst" => r.title = i[r.inst].title)
    BY <1>7
  <2>2. CASE old.inst # NoInst
    <3>1. old.kind = "inst" /\ r.kind = "inst" /\ r.inst = old.inst
      BY <1>4, <1>8, <2>1, <2>2 DEF Like, RowShape
    <3> QED BY <2>1, <2>2, <3>1 DEF Id
  <2>3. CASE old.inst = NoInst
    <3>1. old.kind \in {"plan", "past"} /\ r.kind \in {"plan", "past"} /\ r.plan = old.plan
      BY <1>4, <1>8, <2>1, <2>3 DEF Like, RowShape
    <3> QED BY <3>1 DEF Id
  <2> QED BY <2>2, <2>3
<1>9. I # {}
  <2>1. PICK r \in RowSet(m, i) : Like(old, r)
    OBVIOUS
  <2>2. PICK j \in 1 .. Len(rows) : rows[j] = r
    BY <1>3, <1>6 DEF ToSet
  <2> QED BY <1>8, <2>1, <2>2
<1> DEFINE d == Min(I)
<1>10. d \in I
  <2>1. I \in SUBSET Nat
    OBVIOUS
  <2> HIDE DEF I
  <2> QED BY <1>9, <2>1, MinFacts
<1>11. d \in 1 .. Len(rows) /\ Id(rows[d]) = Id(old)
  BY <1>10
<1>12. rows # << >> /\ Reselect(m, rows) = d
  <2>1. d # 0 /\ rows # << >>
    BY <1>3, <1>11
  <2> HIDE DEF I
  <2> QED BY <1>5, <1>9, <2>1
<1> HIDE DEF d, I
<1> DEFINE s == rows[d]
<1>13. s = k.rows[k.sel] /\ k.rows # << >>
  BY <1>2, <1>12
<1>14. s \in RowSet(m, i) /\ RowShape(s) /\ Id(s) = Id(old)
       /\ (s.kind = "inst" => s.inst \in Insts /\ s.title = i[s.inst].title)
  BY <1>6, <1>7, <1>11
<1> HIDE DEF s
<1>15. Like(old, s)
  <2>1. PICK r \in RowSet(m, i) : Like(old, r)
    OBVIOUS
  <2>2. CASE old.inst # NoInst
    <3>1. old.kind = "inst" /\ old.inst \in Insts /\ old.title = i[old.inst].title
      BY <1>4, <2>2 DEF RowShape, Row
    <3>2. Id(s) = <<"inst", old.title>>
      BY <1>14, <3>1 DEF Id
    <3>3. s.kind = "inst" /\ s.title = old.title
      BY <3>2 DEF Id
    <3>4. s.inst = old.inst
      BY <1>14, <3>1, <3>3 DEF Distinct
    <3> QED BY <2>2, <3>4 DEF Like
  <2>3. CASE old.inst = NoInst
    <3>1. old.plan # 0 /\ old.kind \in {"plan", "past"}
      BY <1>4, <2>1, <2>3 DEF Like, RowShape
    <3>2. Id(s) = <<"plan", old.plan>>
      BY <1>14, <3>1 DEF Id
    <3>3. s.kind \in {"plan", "past"} /\ s.plan = old.plan
      <4>1. CASE s.kind \in {"plan", "past"}
        BY <3>2, <4>1 DEF Id
      <4>2. CASE s.kind \notin {"plan", "past"}
        BY <3>2, <4>2 DEF Id
      <4> QED BY <4>1, <4>2
    <3>4. s.inst = NoInst
      BY <1>14, <3>3 DEF RowShape
    <3> QED BY <2>3, <3>1, <3>3, <3>4 DEF Like
  <2> QED BY <2>2, <2>3
<1>16. s.inst # NoInst => s.title = i[s.inst].title
  BY <1>14 DEF RowShape
<1> QED BY <1>13, <1>15, <1>16

\* What was counted covers what there is to count.
Covered(m, i) ==
    \A x \in ToSet(m.list) : PlanFor(x) \in Plans =>
       /\ x \notin Reviewers /\ i[x].status \in {"running", "ready"}
          => PlanFor(x) \in m.running
       /\ x \in Reviewers /\ (i[x].status \in {"running", "ready"} \/ i[x].notified)
          => PlanFor(x) \in m.notes

\* It covers it after a count.
LEMMA CoveredFacts ==
    ASSUME NEW m \in Panel, NEW i, AtOK(i)
    PROVE  /\ Covered(m, i) => Worked(m, i) \subseteq m.running /\ Reviewed(m, i) \subseteq m.notes
           /\ Covered(Restated(m, i), i)
<1>1. \A p : ToSet(Of(m, p, i)) = Members(m, p)
  BY OfFacts
<1>2. Worked(m, i) = {p \in Plans : \E x \in Members(m, p) :
                         x \notin Reviewers /\ i[x].status \in {"running", "ready"}}
  BY <1>1 DEF Worked
<1>3. Reviewed(m, i) = {p \in Plans : \E x \in Members(m, p) :
                         /\ x \in Reviewers
                         /\ i[x].status \in {"running", "ready"} \/ i[x].notified}
  BY <1>1 DEF Reviewed
<1>4. Covered(m, i) => Worked(m, i) \subseteq m.running /\ Reviewed(m, i) \subseteq m.notes
  BY <1>2, <1>3 DEF Covered, Members
<1>5. Covered(Restated(m, i), i)
  <2> DEFINE k == Restated(m, i)
  <2>1. k.list = m.list /\ k.running = Worked(m, i) /\ k.notes = Reviewed(m, i)
    <3>1. Worked(m, i) \in SUBSET Plans /\ Reviewed(m, i) \in SUBSET Plans
      BY DEF Worked, Reviewed
    <3> QED BY <3>1, RestatedIs, SummedFacts DEF SameView
  <2> HIDE DEF k
  <2>2. Covered(k, i)
    BY <1>2, <1>3, <2>1 DEF Covered, Members
  <2> QED BY <2>2 DEF k
<1> QED BY <1>4, <1>5

\* And then it does for calmer instances that are as far.
AsFar(j, i) == \A x \in Insts : j[x].status = i[x].status /\ j[x].title = i[x].title
                                /\ (j[x].notified => i[x].notified)

\* Such instances keep what was said of the others.
LEMMA AsFarFacts ==
    ASSUME NEW i, NEW j, AsFar(j, i)
    PROVE  /\ Calmer(j, i)
           /\ Distinct(i) => Distinct(j)
           /\ \A m \in Panel : Covered(m, i) => Covered(m, j)
<1>1. Calmer(j, i)
  BY DEF AsFar, Calmer, Working
<1>2. Distinct(i) => Distinct(j)
  BY DEF AsFar, Distinct
<1>3. ASSUME NEW m \in Panel, Covered(m, i) PROVE Covered(m, j)
  <2>1. ToSet(m.list) \subseteq Insts
    <3>1. m.list \in Seq(Insts)
      BY DEF Panel
    <3> QED BY <3>1, FewSet
  <2> QED BY <1>3, <2>1 DEF AsFar, Covered
<1> QED BY <1>1, <1>2, <1>3

\* Selected once more: the panel is counted and rebuilt after it was rebuilt.
LEMMA RestatKeeps ==
    ASSUME NEW m, Base(m), Unpast(m), \A r \in ToSet(m.rows) : RowShape(r), m.rows # << >>,
           NEW i, AtOK(i), Distinct(i), NEW old, old = m.rows[m.sel],
           old.inst # NoInst => old.title = i[old.inst].title,
           NEW j, AtOK(j), AsFar(j, i), Covered(m, i),
           NEW k, k = Restat(Rebuild(m, i), j),
           \E r \in ToSet(k.rows) : Like(old, r)
    PROVE  k.rows # << >> /\ Like(old, k.rows[k.sel])
<1> DEFINE a == Rebuild(m, i)
           b == Restated(a, j)
<1>1. m \in Panel /\ SelOK(m)
  BY DEF Base
<1>2. Good(a) /\ SameRest(a, m)
  BY RebuildGood
<1>3. a \in Panel /\ Base(a) /\ \A r \in ToSet(a.rows) : RowShape(r)
  BY <1>2 DEF Good, Base
<1>4. ToSet(a.rows) = RowSet(m, i)
  BY <1>1, RebuildFacts
<1>5. k = Rebuild(b, j)
  BY DEF Restat
<1>6. Covered(a, j)
  <2>1. Covered(m, j)
    BY <1>1, AsFarFacts
  <2> QED BY <1>2, <2>1 DEF Covered, SameRest
<1>7. /\ b \in Panel /\ SelOK(b) /\ Base(b) /\ b.rows = a.rows /\ b.sel = a.sel
      /\ Counts(b, m)
  <2>1. Worked(a, j) \in SUBSET Plans /\ Reviewed(a, j) \in SUBSET Plans
    BY DEF Worked, Reviewed
  <2>2. b = Summed(a, Worked(a, j), Reviewed(a, j))
    BY RestatedIs
  <2>3. Worked(a, j) \subseteq a.running /\ Reviewed(a, j) \subseteq a.notes
    BY <1>3, <1>6, CoveredFacts
  <2>4. Base(b) /\ SameView(b, a)
    BY <1>3, RestatedFacts
  <2> HIDE DEF a, b
  <2>5. Counts(b, a)
    BY <1>3, <2>1, <2>2, <2>3, SummedFacts DEF Counts, SameView
  <2>6. Counts(b, m)
    BY <1>2, <2>5 DEF Counts, SameRest
  <2> QED BY <2>4, <2>6 DEF Base, SameView
<1> HIDE DEF b
<1>8. ToSet(k.rows) = RowSet(b, j)
  BY <1>5, <1>7, RebuildFacts
<1>9. PICK r \in RowSet(b, j) : Like(old, r)
  BY <1>8
<1>10. \E q \in RowSet(m, i) : Like(old, q)
  BY <1>1, <1>7, <1>9, AsFarFacts, CalmerRows
<1> DEFINE mid == a.rows[a.sel]
<1> HIDE DEF a
<1>11. /\ a.rows # << >> /\ Like(old, mid)
       /\ mid.inst # NoInst => mid.title = i[mid.inst].title
  BY <1>10, RebuildKeeps DEF a
<1>12. mid \in Row
  BY <1>2, <1>11, SelectedRow
<1> HIDE DEF mid
<1>13. mid.inst # NoInst => mid.title = j[mid.inst].title
  BY <1>11, <1>12 DEF AsFar, Row
<1>14. ASSUME NEW q PROVE Like(old, q) <=> Like(mid, q)
  BY <1>11 DEF Like
<1>15. Like(mid, r)
  BY <1>9, <1>14
<1>16. Distinct(j)
  BY AsFarFacts
<1>17. mid = b.rows[b.sel] /\ b.rows # << >> /\ \A q \in ToSet(b.rows) : RowShape(q)
  BY <1>3, <1>7, <1>11 DEF mid
<1>18. k.rows # << >> /\ Like(mid, k.rows[k.sel])
  BY <1>5, <1>7, <1>9, <1>13, <1>15, <1>16, <1>17, RebuildKeeps
<1> QED BY <1>14, <1>18

----------------------------------------------------------------------------
(* The second invariant: titles, and what was counted *)

\* Two agents have not one title: it is made from the plan and the role.
UniqueTitles == \A x, y \in Agents : TitleOf[x] = TitleOf[y] => x = y

\* Agents have the titles they are given, and the instance being named another.
TitlesOK(i) ==
    \A x \in Agents : i[x].title = TitleOf[x] /\ i[New].title # TitleOf[x]

\* What was counted stays as much as there is to count.
CountInv == NavInv /\ TitlesOK(at) /\ Covered(n, at)

\* So no two instances have one title.
LEMMA TitlesDistinct ==
    ASSUME UniqueTitles, NEW i, TitlesOK(i) PROVE Distinct(i)
BY DEF UniqueTitles, TitlesOK, Distinct, Insts

\* Records that have the titles they had.
SameTitles(j, i) == \A x \in Insts : j[x].title = i[x].title

\* They are as good.
LEMMA TitlesKept ==
    ASSUME NEW i, NEW j, SameTitles(j, i), TitlesOK(i)
    PROVE  TitlesOK(j)
BY DEF SameTitles, TitlesOK, Insts

\* Another status is not another title.
LEMMA StatusTitles ==
    ASSUME NEW i, AtOK(i), NEW x \in Insts, NEW s \in Statuses
    PROVE  SameTitles([i EXCEPT ![x] = WithStatus(i[x], s)], i)
<1>1. i[x] \in InstRec
  BY AtFacts
<1>2. WithStatus(i[x], s).title = i[x].title
  BY <1>1, WithStatusFacts
<1> DEFINE a == WithStatus(i[x], s)
<1>3. a.title = i[x].title
  BY <1>2
<1> HIDE DEF a
<1>4. SameTitles([i EXCEPT ![x] = a], i)
  BY <1>3 DEF SameTitles, AtOK
<1> QED BY <1>4 DEF a

\* An agent, and the instance being named, start with the titles they are given.
LEMMA FreshTitles ==
    ASSUME NEW i, AtOK(i), TitlesOK(i), NEW x \in Insts, NEW a,
           a.title = Fresh(x).title
    PROVE  TitlesOK([i EXCEPT ![x] = a])
<1>1. Fresh(x).title = IF x = New THEN 0 ELSE TitleOf[x]
  BY DEF Fresh
<1>2. \A y \in Agents : TitleOf[y] # 0 /\ y # New
  BY NavAssumption
<1>3. DOMAIN i = Insts
  BY DEF AtOK
<1> QED BY <1>1, <1>2, <1>3 DEF TitlesOK, Insts

\* Instances that change without there being more to count.
LEMMA CoveredKept ==
    ASSUME NEW m, NEW k, NEW i, NEW j, Covered(m, i),
           k.running = m.running, k.notes = m.notes,
           \A y \in ToSet(k.list) : PlanFor(y) \in Plans =>
              \/ j[y].status \notin {"running", "ready"} /\ ~j[y].notified
              \/ y \in ToSet(m.list) /\ (j[y] = i[y] \/ i[y].status \in {"running", "ready"})
    PROVE  Covered(k, j)
BY DEF Covered

\* A panel that counts what another does.
LEMMA CoveredViewed ==
    ASSUME NEW m, NEW k, NEW i, Covered(m, i), SameSums(k, m)
    PROVE  Covered(k, i)
BY DEF Covered, SameSums

\* A panel with fewer instances counts as much.
LEMMA CoveredLess ==
    ASSUME NEW m, NEW k, NEW i, Covered(m, i), ToSet(k.list) \subseteq ToSet(m.list),
           k.running = m.running, k.notes = m.notes
    PROVE  Covered(k, i)
BY DEF Covered

\* After a count.
LEMMA RestatCovered ==
    ASSUME NEW m, Base(m), NEW i, AtOK(i)
    PROVE  Covered(Restat(m, i), i)
<1>1. m \in Panel
  BY DEF Base
<1>2. Covered(Restated(m, i), i)
  BY <1>1, CoveredFacts
<1>3. Restated(m, i) \in Panel /\ SelOK(Restated(m, i))
  BY RestatedFacts DEF Base
<1>4. SameRest(Rebuild(Restated(m, i), i), Restated(m, i))
  BY <1>3, RebuildFacts
<1>5. SameSums(Rebuild(Restated(m, i), i), Restated(m, i))
  BY <1>4 DEF SameRest, SameSums
<1> QED BY <1>2, <1>5, CoveredViewed DEF Restat

\* A notification that is cleared is neither status nor title.
LEMMA ClearedAsFar ==
    ASSUME NEW i, AtOK(i), NEW x \in Insts
    PROVE  AsFar(Cleared(i, x), i) /\ SameTitles(Cleared(i, x), i)
BY ClearedFacts DEF AsFar, SameTitles

\* instanceChanged keeps it.
LEMMA ChangedCounts ==
    ASSUME NEW m, Good(m), NEW i, AtOK(i), seen \in Insts \cup {NoInst}, Changed(m, i),
           TitlesOK(i), Covered(m, i)
    PROVE  TitlesOK(at') /\ Covered(n', at')
<1>1. CASE n' = m /\ at' = i
  BY <1>1
<1>2. CASE n' = Restat(m, at') /\ seen \in Insts /\ at' = Cleared(i, seen)
  <2>1. TitlesOK(at')
    BY <1>2, ClearedAsFar, TitlesKept
  <2>2. AtOK(at')
    BY ChangedFacts
  <2>3. Base(m)
    BY DEF Good
  <2>4. Covered(Restat(m, at'), at')
    BY <2>2, <2>3, RestatCovered
  <2> QED BY <1>2, <2>1, <2>4
<1> QED BY <1>1, <1>2, ChangedFacts

----------------------------------------------------------------------------
(* The steps keep the second invariant *)

\* What the second invariant adds to the first.
Counting == TitlesOK(at) /\ Covered(n, at)

\* At first there is nothing to count.
LEMMA InitCounting == Init => CountInv
<1> SUFFICES ASSUME Init PROVE CountInv
  OBVIOUS
<1>1. NavInv /\ n.list = << >>
  BY InitNavInv
<1>2. ToSet(n.list) = {}
  BY <1>1, FewSet
<1>3. Covered(n, at)
  BY <1>2 DEF Covered
<1>4. at = [x \in Insts |-> Fresh(x)]
  BY DEF Init
<1>5. \A x \in Agents : x \in Insts /\ x # New /\ New \in Insts /\ TitleOf[x] # 0
  BY NavAssumption DEF Insts
<1>6. TitlesOK(at)
  BY <1>4, <1>5 DEF TitlesOK, Fresh
<1> QED BY <1>1, <1>3, <1>6 DEF CountInv

\* A refresh counts.
LEMMA RefreshCounting == ASSUME CountInv, Refresh PROVE Counting'
<1> DEFINE k == Renewed(n, at)
<1>1. NavInv /\ Base(n) /\ n \in Panel /\ AtOK(at) /\ stored \in [Plans -> Status]
  BY DEF CountInv, NavInv, Good, Base
<1>2. n' = Rebuild(k, at) /\ at' = at
  BY DEF Refresh, Refreshed, Renewed
<1>3. /\ Base(k) /\ SameView(k, n)
      /\ k.running = Restated(n, at).running /\ k.notes = Restated(n, at).notes
  BY <1>1, RenewedFacts
<1>4. SameView(Restated(n, at), n)
  BY <1>1, RestatedFacts
<1>5. SameSums(k, Restated(n, at))
  BY <1>3, <1>4 DEF SameSums, SameView
<1> HIDE DEF k
<1>6. Covered(k, at)
  BY <1>1, <1>5, CoveredFacts, CoveredViewed
<1>7. SameSums(Rebuild(k, at), k)
  BY <1>1, <1>3, RebuildFacts DEF Base, SameRest, SameSums
<1>8. Covered(Rebuild(k, at), at)
  BY <1>6, <1>7, CoveredViewed
<1> QED BY <1>2, <1>8 DEF Counting, CountInv

\* An agent that works or waits was counted as either.
LEMMA AgentTurnsCounting ==
    ASSUME CountInv, NEW x \in Agents, AgentTurns(x) PROVE Counting'
<1> DEFINE s == IF at[x].status = "running" THEN "ready" ELSE "running"
<1>1. x \in Insts /\ s \in Statuses /\ AtOK(at)
  BY DEF Insts, Statuses, CountInv, NavInv
<1>2. /\ at' = [at EXCEPT ![x] = WithStatus(at[x], s)] /\ n' = n
      /\ x \in ToSet(n.list) /\ at[x].status \in {"running", "ready"}
  BY DEF AgentTurns
<1> HIDE DEF s
<1>3. TitlesOK(at')
  BY <1>1, <1>2, StatusTitles, TitlesKept DEF CountInv
<1>4. \A y \in ToSet(n.list) : at'[y] = at[y] \/ at[y].status \in {"running", "ready"}
  <2>1. ToSet(n.list) \subseteq Insts
    BY ListInsts DEF CountInv, NavInv
  <2> QED BY <1>1, <1>2, <2>1 DEF AtOK
<1>5. Covered(n, at')
  BY <1>4, CoveredKept DEF CountInv
<1> QED BY <1>2, <1>3, <1>5 DEF Counting

\* An agent that loads is not counted yet.
LEMMA SpawnCounting == ASSUME CountInv, NEW x \in Agents, Spawn(x) PROVE Counting'
<1> DEFINE a == WithStatus(Fresh(x), "loading")
           i == [at EXCEPT ![x] = a]
           m == Added(n, x, i)
<1>1. x \in Insts /\ x \notin ToSet(n.list) /\ AtOK(at) /\ Good(n)
  BY DEF Insts, Spawn, CountInv, NavInv
<1>2. at' = i /\ n' \in {m, SelectInst(m, x, i)}
  BY DEF Spawn
<1>3. /\ a \in InstRec /\ a.plan = PlanFor(x) /\ a.title = Fresh(x).title
      /\ a.status = "loading" /\ ~a.notified
  <2>1. Fresh(x) \in InstRec /\ Fresh(x).plan = PlanFor(x) /\ "loading" \in Statuses
    BY <1>1, FreshFacts DEF Statuses
  <2> QED BY <2>1, WithStatusFacts
<1> HIDE DEF a
<1>4. AtOK(i) /\ i[x] = a
  <2>1. AtOK(i)
    BY <1>1, <1>3, AtSet
  <2> QED BY <1>1, <2>1 DEF AtOK
<1>5. TitlesOK(i)
  BY <1>1, <1>3, FreshTitles DEF CountInv
<1>6. \A y \in ToSet(n.list) : i[y] = at[y]
  <2>1. ToSet(n.list) \subseteq Insts
    BY <1>1, ListInsts
  <2> QED BY <1>1, <2>1 DEF AtOK
<1> HIDE DEF i
<1>7. /\ Good(m) /\ ToSet(m.list) = ToSet(n.list) \cup {x}
      /\ m.running = n.running /\ m.notes = n.notes
  BY <1>1, <1>4, AddedGood
<1> HIDE DEF m
<1>8. Covered(m, i)
  <2>1. \A y \in ToSet(m.list) :
           \/ i[y].status \notin {"running", "ready"} /\ ~i[y].notified
           \/ y \in ToSet(n.list) /\ i[y] = at[y]
    BY <1>3, <1>4, <1>6, <1>7
  <2>2. Covered(n, at)
    BY DEF CountInv
  <2> QED BY <1>7, <2>1, <2>2, CoveredKept
<1>9. Covered(SelectInst(m, x, i), i)
  BY <1>1, <1>4, <1>7, <1>8, SelectInstGood, CoveredViewed DEF Viewed
<1> QED BY <1>2, <1>5, <1>8, <1>9 DEF Counting

\* An instance that is put back as it was before it started.
LEMMA FreshCounting ==
    ASSUME CountInv, NEW m, Base(m), NEW x \in Insts,
           n' = Restat(m, at), at' = [at EXCEPT ![x] = Fresh(x)]
    PROVE  Counting'
<1>1. AtOK(at) /\ TitlesOK(at)
  BY DEF CountInv, NavInv
<1>2. TitlesOK(at')
  BY <1>1, FreshTitles
<1>3. Covered(n', at)
  BY <1>1, RestatCovered
<1>4. AtOK(at') /\ at'[x] = Fresh(x) /\ \A y \in Insts : y # x => at'[y] = at[y]
  BY <1>1, AtFresh DEF AtOK
<1>5. Fresh(x).status \notin {"running", "ready"} /\ ~Fresh(x).notified
  BY FreshFacts
<1>6. ToSet(n'.list) \subseteq Insts
  <2>1. m.list \in Seq(Insts) /\ SelOK(m) /\ m \in Panel
    BY DEF Base, Panel
  <2>2. SameView(Restated(m, at), m) /\ Base(Restated(m, at))
    BY RestatedFacts
  <2>3. n'.list = Restated(m, at).list
    BY <1>1, <2>2, RebuildFacts DEF Restat, Base, SameRest
  <2> QED BY <2>1, <2>2, <2>3, FewSet DEF SameView
<1>7. \A y \in ToSet(n'.list) :
         \/ at'[y].status \notin {"running", "ready"} /\ ~at'[y].notified
         \/ at'[y] = at[y]
  BY <1>4, <1>5, <1>6
<1>8. Covered(n', at')
  BY <1>3, <1>7 DEF Covered
<1> QED BY <1>2, <1>8 DEF Counting

\* An agent that is removed is counted no more.
LEMMA ReplacedCounting ==
    ASSUME CountInv, NEW x \in Agents, Replaced(x) PROVE Counting'
<1>1. x \in Insts
  BY DEF Insts
<1>2. Base(RemovedTitle(n, at[x].title, at))
  BY RemovedGood DEF CountInv, NavInv, Good
<1>3. /\ n' = Restat(RemovedTitle(n, at[x].title, at), at)
      /\ at' = [at EXCEPT ![x] = Fresh(x)]
  BY DEF Replaced
<1> QED BY <1>1, <1>2, <1>3, FreshCounting

\* An instance gets another status, and the panel is counted again.
LEMMA StatusCounting ==
    ASSUME CountInv, NEW x \in Insts, NEW s \in Statuses,
           NEW i, i = [at EXCEPT ![x] = WithStatus(at[x], s)],
           Changed(Restat(n, i), i)
    PROVE  Counting'
<1>1. AtOK(at) /\ TitlesOK(at) /\ Good(n) /\ seen \in Insts \cup {NoInst}
  BY DEF CountInv, NavInv
<1>2. AtOK(i) /\ TitlesOK(i)
  BY <1>1, AtStatus, StatusTitles, TitlesKept
<1>3. Good(Restat(n, i)) /\ Covered(Restat(n, i), i)
  BY <1>1, <1>2, RestatGood, RestatCovered DEF Good
<1> QED BY <1>1, <1>2, <1>3, ChangedCounts DEF Counting

\* An instance that has started is counted at once.
LEMMA StartDoneCounting ==
    ASSUME CountInv, NEW x \in Insts, StartDone(x) PROVE Counting'
<1> DEFINE i == [at EXCEPT ![x] = WithStatus(at[x], "running")]
<1>1. \/ Changed(Restat(n, i), i)
      \/ /\ n' = Restat(RemovedTitle(n, at[x].title, at), at)
         /\ at' = [at EXCEPT ![x] = Fresh(x)]
  BY DEF StartDone
<1>2. "running" \in Statuses /\ Base(RemovedTitle(n, at[x].title, at))
  BY RemovedGood DEF Statuses, CountInv, NavInv, Good
<1>3. CASE Changed(Restat(n, i), i)
  BY <1>2, <1>3, StatusCounting
<1>4. CASE /\ n' = Restat(RemovedTitle(n, at[x].title, at), at)
           /\ at' = [at EXCEPT ![x] = Fresh(x)]
  BY <1>2, <1>4, FreshCounting
<1> QED BY <1>1, <1>3, <1>4

\* A key that moves the selection.
LEMMA MoveCounting ==
    ASSUME CountInv, NEW m, Good(m), Covered(m, at), Changed(m, at) PROVE Counting'
BY ChangedCounts DEF CountInv, NavInv, Counting

\* An operation on the view.
LEMMA ViewCounting ==
    ASSUME CountInv, NEW m, Viewed(m, n), Changed(m, at) \/ (n' = m /\ at' = at)
    PROVE  Counting'
<1>1. Good(m) /\ Covered(m, at) /\ TitlesOK(at)
  BY CoveredViewed DEF CountInv, Viewed
<1> QED BY <1>1, MoveCounting DEF Counting

\* The keys that move the selection.
LEMMA MovesCounting ==
    ASSUME CountInv, MoveUp \/ MoveDown \/ CycleActive \/ ClickItem PROVE Counting'
<1>1. Good(n) /\ AtOK(at)
  BY DEF CountInv, NavInv
<1>2. CASE MoveUp
  BY <1>1, <1>2, UpGood, ViewCounting DEF MoveUp, Move
<1>3. CASE MoveDown
  BY <1>1, <1>3, DownGood, ViewCounting DEF MoveDown, Move
<1>4. CASE CycleActive
  BY <1>1, <1>4, CycleGood, ViewCounting DEF CycleActive, Move
<1>5. CASE ClickItem
  <2>1. PICK k \in DOMAIN n.rows : Move([n EXCEPT !.sel = k])
    BY <1>5 DEF ClickItem
  <2>2. k \in 1 .. Len(n.rows)
    BY <1>1 DEF Good, Base, Panel
  <2>3. Viewed([n EXCEPT !.sel = k], n)
    BY <1>1, <2>2, ViewedSel
  <2> QED BY <2>1, <2>3, ViewCounting DEF Move
<1> QED BY <1>2, <1>3, <1>4, <1>5

\* The keys that change rows.
LEMMA ShapesCounting ==
    ASSUME CountInv, ToggleExpand \/ InspectPlan \/ Talk PROVE Counting'
<1>1. Good(n) /\ AtOK(at) /\ n \in Panel
  BY DEF CountInv, NavInv, Good, Base
<1>2. CASE ToggleExpand
  BY <1>1, <1>2, ToggleGood, ViewCounting DEF ToggleExpand, Reshape
<1>3. CASE InspectPlan
  <2>1. n.rows[n.sel].plan \in Plans /\ n.rows # << >>
    BY <1>1, <1>3, SelectedRow DEF RowShape, Row, InspectPlan
  <2>2. SelectedPlan(n) \in Plans
    BY <2>1 DEF SelectedPlan
  <2>3. Viewed(Inspected(n, SelectedPlan(n), at), n)
    BY <1>1, <2>2, InspectedGood
  <2> QED BY <1>3, <2>3, ViewCounting DEF InspectPlan, Reshape
<1>4. CASE Talk
  <2> DEFINE x == PlanInstance(n, SelectedPlan(n), at)
  <2>1. x # NoInst /\ n' = SelectInst(n, x, at) /\ at' = at
    BY <1>4 DEF Talk, Reshape
  <2>2. x \in Insts
    BY <1>1, <2>1, PlanInstanceFacts
  <2> HIDE DEF x
  <2>3. Viewed(SelectInst(n, x, at), n)
    BY <1>1, <2>2, SelectInstGood
  <2> QED BY <2>1, <2>3, ViewCounting
<1> QED BY <1>2, <1>3, <1>4

\* The search.
LEMMA SearchCounting ==
    ASSUME CountInv, NEW q \in Plans \cup {0}, Search(q) PROVE Counting'
<1>1. Good(n) /\ 0 \in Plans \cup {0}
  BY DEF CountInv, NavInv
<1>2. Viewed(Asked(n, 0), n) /\ Viewed(First(n), n) /\ Viewed(n, n)
  BY <1>1, AskedGood, FirstGood, ViewedItself
<1> DEFINE m == IF n.query = 0 THEN First(n) ELSE n
<1>3. Viewed(m, n)
  BY <1>2
<1>4. n' = (IF q = 0 THEN Asked(n, 0) ELSE Searched(m, q)) /\ at' = at
  BY DEF Search, Asked
<1> HIDE DEF m
<1>5. Viewed(Searched(m, q), n)
  BY <1>3, SearchedGood, ViewedTwice DEF Viewed
<1> QED BY <1>2, <1>4, <1>5, ViewCounting

\* What is killed is counted no more.
LEMMA KillsCounting == ASSUME CountInv, KillSelected \/ CancelNaming PROVE Counting'
<1>1. Good(n) /\ AtOK(at) /\ Covered(n, at)
  BY DEF CountInv, NavInv
<1> DEFINE m == Kill(n, at)
<1>2. /\ Good(m) /\ ToSet(m.list) \subseteq ToSet(n.list)
      /\ m.running = n.running /\ m.notes = n.notes
  BY <1>1, KillGood
<1>3. Changed(Restat(m, at), at) \/ Changed(m, at)
  BY DEF KillSelected, CancelNaming, Move
<1> HIDE DEF m
<1>4. Covered(m, at)
  BY <1>1, <1>2, CoveredLess
<1>5. Good(Restat(m, at)) /\ Covered(Restat(m, at), at)
  BY <1>1, <1>2, RestatGood, RestatCovered DEF Good
<1> QED BY <1>2, <1>3, <1>4, <1>5, MoveCounting

\* What is paused is counted no more.
LEMMA PauseSelectedCounting == ASSUME CountInv, PauseSelected PROVE Counting'
<1> DEFINE x == Selected(n)
<1>1. /\ x # NoInst
      /\ Changed(Restat(n, [at EXCEPT ![x] = WithStatus(at[x], "paused")]),
                 [at EXCEPT ![x] = WithStatus(at[x], "paused")])
  BY DEF PauseSelected
<1>2. x \in Insts /\ "paused" \in Statuses
  BY <1>1, SelectedRow DEF CountInv, NavInv, Statuses
<1> HIDE DEF x
<1> QED BY <1>1, <1>2, StatusCounting

\* The instance being named is of no plan.
LEMMA NamingCovered ==
    ASSUME CountInv, NEW k, NEW j,
           k.running = n.running, k.notes = n.notes,
           ToSet(k.list) \subseteq ToSet(n.list) \cup {New},
           \A y \in Insts : y # New => j[y] = at[y]
    PROVE  Covered(k, j)
<1>1. PlanFor(New) \notin Plans
  BY NavAssumption DEF PlanFor, Plans
<1>2. ToSet(n.list) \subseteq Insts /\ Covered(n, at)
  BY ListInsts DEF CountInv, NavInv
<1>3. \A y \in ToSet(k.list) : PlanFor(y) \in Plans => y \in ToSet(n.list) /\ j[y] = at[y]
  BY <1>1, <1>2
<1> QED BY <1>2, <1>3, CoveredKept

\* The new instance counts for no plan.
LEMMA BeginNamingCounting == ASSUME CountInv, BeginNaming PROVE Counting'
<1>1. New \in Insts /\ New \notin ToSet(n.list) /\ Good(n) /\ AtOK(at) /\ TitlesOK(at)
  BY DEF Insts, BeginNaming, CountInv, NavInv
<1>2. /\ at' = [at EXCEPT ![New] = Fresh(New)]
      /\ n' = SelectInst(Added(n, New, at'), New, at')
  BY DEF BeginNaming
<1>3. AtOK(at') /\ TitlesOK(at')
  BY <1>1, <1>2, AtFresh, FreshTitles
<1> DEFINE m == Added(n, New, at')
<1>4. /\ Good(m) /\ ToSet(m.list) = ToSet(n.list) \cup {New}
      /\ m.running = n.running /\ m.notes = n.notes
  BY <1>1, <1>3, AddedGood
<1>5. n' = SelectInst(m, New, at')
  BY <1>2
<1> HIDE DEF m
<1>6. SameSums(n', m)
  BY <1>1, <1>3, <1>4, <1>5, SelectInstGood DEF Viewed
<1>7. \A y \in Insts : y # New => at'[y] = at[y]
  BY <1>1, <1>2 DEF AtOK
<1>8. Covered(m, at')
  BY <1>4, <1>7, NamingCovered
<1>9. Covered(n', at')
  BY <1>6, <1>8, CoveredViewed
<1> QED BY <1>3, <1>9 DEF Counting

\* It gets a title that no instance has.
LEMMA TypeTitleCounting ==
    ASSUME CountInv, NEW t \in Titles, TypeTitle(t) PROVE Counting'
<1>1. New \in Insts /\ AtOK(at) /\ TitlesOK(at)
  BY DEF Insts, CountInv, NavInv
<1>2. /\ at' = [at EXCEPT ![New] = [at[New] EXCEPT !.title = t]] /\ n' = n
      /\ \A x \in Insts : t # at[x].title
  BY DEF TypeTitle
<1>3. \A y \in Insts : y # New => at'[y] = at[y]
  BY <1>1, <1>2 DEF AtOK
<1>4. at'[New].title = t
  <2>1. at[New] \in InstRec
    BY <1>1, AtFacts
  <2>2. [at[New] EXCEPT !.title = t].title = t
    BY <2>1 DEF InstRec
  <2> QED BY <1>1, <1>2, <2>2 DEF AtOK
<1>5. \A x \in Agents : x \in Insts /\ x # New
  BY NavAssumption DEF Insts
<1>6. TitlesOK(at')
  BY <1>1, <1>2, <1>3, <1>4, <1>5 DEF TitlesOK
<1>7. Covered(n, at')
  BY <1>3, NamingCovered
<1> QED BY <1>2, <1>6, <1>7 DEF Counting

\* It keeps it.
LEMMA SubmitTitleCounting == ASSUME CountInv, SubmitTitle PROVE Counting'
<1>1. New \in Insts /\ AtOK(at) /\ TitlesOK(at) /\ "loading" \in Statuses
  BY DEF Insts, CountInv, NavInv, Statuses
<1>2. at' = [at EXCEPT ![New] = WithStatus(at[New], "loading")] /\ n' = n
  BY DEF SubmitTitle
<1>3. TitlesOK(at')
  BY <1>1, <1>2, StatusTitles, TitlesKept
<1>4. \A y \in Insts : y # New => at'[y] = at[y]
  BY <1>1, <1>2 DEF AtOK
<1>5. Covered(n, at')
  BY <1>4, NamingCovered
<1> QED BY <1>2, <1>3, <1>5 DEF Counting

\* Every step.
LEMMA NextCounting == ASSUME CountInv, [Next]_vars PROVE CountInv'
<1> SUFFICES Counting'
  BY NextNavInv DEF CountInv, Counting
<1>1. CASE UNCHANGED vars
  BY <1>1 DEF vars, CountInv, Counting
<1>2. CASE \E p \in Plans, s \in Status : PlanChange(p, s)
  BY <1>2 DEF PlanChange, CountInv, Counting
<1>3. CASE Refresh
  BY <1>3, RefreshCounting
<1>4. CASE \E x \in Agents : AgentTurns(x) \/ Spawn(x) \/ Replaced(x)
  BY <1>4, AgentTurnsCounting, SpawnCounting, ReplacedCounting
<1>5. CASE \E x \in Insts : StartDone(x)
  BY <1>5, StartDoneCounting
<1>6. CASE MoveUp \/ MoveDown \/ CycleActive \/ ClickItem
  BY <1>6, MovesCounting
<1>7. CASE ToggleExpand \/ InspectPlan \/ Talk
  BY <1>7, ShapesCounting
<1>8. CASE KillSelected \/ CancelNaming
  BY <1>8, KillsCounting
<1>9. CASE PauseSelected \/ BeginNaming \/ SubmitTitle
  BY <1>9, PauseSelectedCounting, BeginNamingCounting, SubmitTitleCounting
<1>10. CASE \E q \in Plans \cup {0} : Search(q)
  BY <1>10, SearchCounting
<1>11. CASE \E t \in Titles : TypeTitle(t)
  BY <1>11, TypeTitleCounting
<1> QED BY <1>1, <1>2, <1>3, <1>4, <1>5, <1>6, <1>7, <1>8, <1>9, <1>10, <1>11 DEF Next

\* The second invariant holds.
LEMMA CountInvariant == Spec => []CountInv
BY InitCounting, NextCounting, PTL DEF Spec

----------------------------------------------------------------------------
(* The selection stays *)

\* What is selected, of a row with its instance's title, is selected afterwards if it
\* has a row then.
Kept(a, i, b) ==
    LET old == a.rows[a.sel] IN
    /\ a.rows # << >>
    /\ old.inst # NoInst => old.title = i[old.inst].title
    /\ \E r \in ToSet(b.rows) : Like(old, r)
    => Like(old, b.rows[b.sel])

\* A panel that does not change.
LEMMA KeptItself == ASSUME NEW a, NEW i PROVE Kept(a, i, a)
BY DEF Kept, Like

\* The row that is selected, within an operation.
LEMMA SelectedTitle ==
    ASSUME NEW a, Good(a), a.rows # << >>, NEW i, NEW j, SameTitles(j, i),
           NEW old, old = a.rows[a.sel], old.inst # NoInst => old.title = i[old.inst].title
    PROVE  old.inst # NoInst => old.title = j[old.inst].title
<1>1. old \in Row
  BY SelectedRow
<1>2. old.inst \in Insts \cup {NoInst}
  BY <1>1 DEF Row
<1> QED BY <1>2 DEF SameTitles

\* The panel is rebuilt once.
LEMMA OnceKept ==
    ASSUME NEW a, Good(a), NEW m, Base(m), m.rows = a.rows, m.sel = a.sel,
           NEW i, AtOK(i), Distinct(i), NEW i0, SameTitles(i, i0),
           NEW b, b = Rebuild(m, i)
    PROVE  Kept(a, i0, b)
<1> DEFINE old == a.rows[a.sel]
<1> SUFFICES ASSUME a.rows # << >>, old.inst # NoInst => old.title = i0[old.inst].title,
                    \E r \in ToSet(b.rows) : Like(old, r)
             PROVE  Like(old, b.rows[b.sel])
  BY DEF Kept
<1>1. old.inst # NoInst => old.title = i[old.inst].title
  BY SelectedTitle
<1>2. ToSet(b.rows) = RowSet(m, i)
  BY RebuildFacts DEF Base
<1>3. \A r \in ToSet(m.rows) : RowShape(r)
  BY DEF Good
<1>4. old = m.rows[m.sel]
  OBVIOUS
<1> HIDE DEF old
<1> QED BY <1>1, <1>2, <1>3, <1>4, RebuildKeeps

\* The panel is rebuilt, counted and rebuilt.
LEMMA TwiceKept ==
    ASSUME NEW a, Good(a), NEW m, Base(m), Unpast(m), m.rows = a.rows, m.sel = a.sel,
           NEW i, AtOK(i), Distinct(i), NEW i0, SameTitles(i, i0), Covered(m, i),
           NEW j, AtOK(j), AsFar(j, i), NEW b, b = Restat(Rebuild(m, i), j)
    PROVE  Kept(a, i0, b)
<1> DEFINE old == a.rows[a.sel]
<1> SUFFICES ASSUME a.rows # << >>, old.inst # NoInst => old.title = i0[old.inst].title,
                    \E r \in ToSet(b.rows) : Like(old, r)
             PROVE  Like(old, b.rows[b.sel])
  BY DEF Kept
<1>1. old.inst # NoInst => old.title = i[old.inst].title
  BY SelectedTitle
<1>2. \A r \in ToSet(m.rows) : RowShape(r)
  BY DEF Good
<1>3. old = m.rows[m.sel]
  OBVIOUS
<1> HIDE DEF old
<1> QED BY <1>1, <1>2, <1>3, RestatKeeps

\* Records are as far as they are.
LEMMA SameItself ==
    ASSUME NEW i, AtOK(i) PROVE SameTitles(i, i) /\ AsFar(i, i)
BY DEF SameTitles, AsFar

\* What is left when an instance is removed by its title.
LEMMA RemovedIs ==
    ASSUME NEW m, Good(m), NEW i, AtOK(i), NEW title, Covered(m, i)
    PROVE  \/ RemovedTitle(m, title, i) = m
           \/ \E k : /\ RemovedTitle(m, title, i) = Rebuild(k, i)
                     /\ Base(k) /\ Unpast(k) /\ k.rows = m.rows /\ k.sel = m.sel
                     /\ Covered(k, i)
<1>1. CASE ~\E x \in ToSet(m.list) : i[x].title = title
  BY <1>1 DEF RemovedTitle
<1>2. CASE \E x \in ToSet(m.list) : i[x].title = title
  <2> DEFINE left == WithoutTitle(m, title, i)
             k == Resplit(left, i)
  <2>1. RemovedTitle(m, title, i) = Rebuild(k, i)
    BY <1>2 DEF RemovedTitle, WithoutTitle, Listed
  <2>2. /\ Base(left) /\ ToSet(left.list) \subseteq ToSet(m.list) /\ SameFolds(left, m)
        /\ left.rows = m.rows /\ left.sel = m.sel
    BY <1>2, WithoutTitleFacts DEF Good
  <2> HIDE DEF left
  <2>3. Base(k) /\ Unpast(k) /\ SameView(k, left) /\ SameFolds(k, left)
    BY <2>2, ResplitFacts
  <2> HIDE DEF k
  <2>4. /\ ToSet(k.list) \subseteq ToSet(m.list) /\ k.rows = m.rows /\ k.sel = m.sel
        /\ k.running = m.running /\ k.notes = m.notes
    BY <2>2, <2>3 DEF SameView, SameFolds
  <2>5. Covered(k, i)
    BY <2>4, CoveredLess
  <2> QED BY <2>1, <2>3, <2>4, <2>5
<1> QED BY <1>1, <1>2

\* Whatever is removed, the panel is then counted for instances that are as far.
LEMMA DroppedKept ==
    ASSUME UniqueTitles, CountInv, NEW title, NEW j, AtOK(j), AsFar(j, at),
           NEW b, b = Restat(RemovedTitle(n, title, at), j)
    PROVE  Kept(n, at, b)
<1>1. Good(n) /\ Base(n) /\ AtOK(at) /\ TitlesOK(at) /\ Covered(n, at)
  BY DEF CountInv, NavInv, Good
<1>2. Distinct(at) /\ Distinct(j) /\ SameTitles(j, at) /\ SameTitles(at, at)
  BY <1>1, TitlesDistinct, AsFarFacts DEF AsFar, SameTitles
<1>3. CASE RemovedTitle(n, title, at) = n
  <2>1. b = Rebuild(Restated(n, j), j)
    BY <1>3 DEF Restat
  <2>2. /\ Base(Restated(n, j)) /\ Restated(n, j).rows = n.rows
        /\ Restated(n, j).sel = n.sel
    BY <1>1, RestatedFacts DEF SameView
  <2> QED BY <1>1, <1>2, <2>1, <2>2, OnceKept
<1>4. ASSUME NEW k, RemovedTitle(n, title, at) = Rebuild(k, at),
             Base(k), Unpast(k), k.rows = n.rows, k.sel = n.sel, Covered(k, at)
      PROVE  Kept(n, at, b)
  BY <1>1, <1>2, <1>4, TwiceKept
<1> QED BY <1>1, <1>3, <1>4, RemovedIs

\* The tick rebuilds once.
LEMMA RefreshKept == ASSUME UniqueTitles, CountInv, Refresh PROVE Kept(n, at, n')
<1>1. Good(n) /\ Base(n) /\ AtOK(at) /\ TitlesOK(at) /\ stored \in [Plans -> Status]
  BY DEF CountInv, NavInv, Good
<1>2. Distinct(at) /\ SameTitles(at, at)
  BY <1>1, TitlesDistinct, SameItself
<1>3. n' = Rebuild(Renewed(n, at), at)
  BY DEF Refresh, Refreshed, Renewed
<1>4. /\ Base(Renewed(n, at)) /\ Renewed(n, at).rows = n.rows
      /\ Renewed(n, at).sel = n.sel
  BY <1>1, RenewedFacts DEF SameView
<1> QED BY <1>1, <1>2, <1>3, <1>4, OnceKept

\* What has started is counted, and a notification may be cleared after it.
LEMMA StartDoneKept ==
    ASSUME UniqueTitles, CountInv, NEW x \in Insts, StartDone(x) PROVE Kept(n, at, n')
<1> DEFINE i == [at EXCEPT ![x] = WithStatus(at[x], "running")]
<1>1. \/ Changed(Restat(n, i), i)
      \/ n' = Restat(RemovedTitle(n, at[x].title, at), at)
  BY DEF StartDone
<1>2. Good(n) /\ Base(n) /\ Unpast(n) /\ AtOK(at) /\ TitlesOK(at) /\ n \in Panel
      /\ seen \in Insts \cup {NoInst}
  BY DEF CountInv, NavInv, Good, Base
<1>3. CASE n' = Restat(RemovedTitle(n, at[x].title, at), at)
  BY <1>2, <1>3, DroppedKept, SameItself
<1>4. CASE Changed(Restat(n, i), i)
  <2>1. AtOK(i) /\ SameTitles(i, at)
    <3>1. "running" \in Statuses
      BY DEF Statuses
    <3> QED BY <1>2, <3>1, AtStatus, StatusTitles
  <2> HIDE DEF i
  <2>2. Distinct(i)
    BY <1>2, <2>1, TitlesKept, TitlesDistinct
  <2> DEFINE k == Restated(n, i)
  <2>3. Base(k) /\ Unpast(k) /\ k.rows = n.rows /\ k.sel = n.sel /\ Covered(k, i)
    BY <1>2, <2>1, RestatedFacts, CoveredFacts DEF SameView
  <2>4. Restat(n, i) = Rebuild(k, i)
    BY DEF Restat
  <2> HIDE DEF k
  <2>5. Good(Restat(n, i))
    BY <1>2, <2>1, RestatGood
  <2>6. \/ n' = Restat(n, i)
        \/ n' = Restat(Restat(n, i), at') /\ seen \in Insts /\ at' = Cleared(i, seen)
    BY <1>2, <1>4, <2>1, <2>5, ChangedFacts
  <2>7. CASE n' = Restat(n, i)
    BY <1>2, <2>1, <2>2, <2>3, <2>4, <2>7, OnceKept
  <2>8. CASE n' = Restat(Restat(n, i), at') /\ seen \in Insts /\ at' = Cleared(i, seen)
    <3>1. AtOK(at') /\ AsFar(at', i)
      BY <2>1, <2>8, ClearedFacts, ClearedAsFar
    <3>2. n' = Restat(Rebuild(k, i), at')
      BY <2>4, <2>8
    <3> QED BY <1>2, <2>1, <2>2, <2>3, <3>1, <3>2, TwiceKept
  <2> QED BY <2>6, <2>7, <2>8
<1> QED BY <1>1, <1>3, <1>4

\* The instance being named goes, and a notification may be cleared after it.
LEMMA CancelNamingKept ==
    ASSUME UniqueTitles, CountInv, CancelNaming PROVE Kept(n, at, n')
<1>1. Good(n) /\ AtOK(at) /\ TitlesOK(at) /\ Covered(n, at)
      /\ seen \in Insts \cup {NoInst}
  BY DEF CountInv, NavInv
<1>2. PICK title : Kill(n, at) = n \/ Kill(n, at) = RemovedTitle(n, title, at)
  BY DEF Kill
<1> DEFINE m == Kill(n, at)
<1>3. Good(m) /\ Changed(m, at)
  BY <1>1, KillGood DEF CancelNaming
<1>4. Distinct(at) /\ SameTitles(at, at)
  BY <1>1, TitlesDistinct, SameItself
<1>5. \/ m = n
      \/ \E k : /\ m = Rebuild(k, at)
                /\ Base(k) /\ Unpast(k) /\ k.rows = n.rows /\ k.sel = n.sel
                /\ Covered(k, at)
  BY <1>1, <1>2, RemovedIs
<1> HIDE DEF m
<1>6. CASE n' = m
  <2>1. ASSUME NEW k, m = Rebuild(k, at), Base(k), k.rows = n.rows, k.sel = n.sel
        PROVE  Kept(n, at, n')
    BY <1>1, <1>4, <1>6, <2>1, OnceKept
  <2> QED BY <1>5, <1>6, <2>1, KeptItself
<1>7. CASE n' = Restat(m, at') /\ seen \in Insts /\ at' = Cleared(at, seen)
  <2>1. AtOK(at') /\ AsFar(at', at) /\ SameTitles(at', at)
    BY <1>1, <1>7, ClearedFacts, ClearedAsFar
  <2>2. Distinct(at')
    BY <1>4, <2>1, AsFarFacts
  <2>3. CASE m = n
    <3>1. n' = Rebuild(Restated(n, at'), at')
      BY <1>7, <2>3 DEF Restat
    <3>2. /\ Base(Restated(n, at')) /\ Restated(n, at').rows = n.rows
          /\ Restated(n, at').sel = n.sel
      BY <1>1, <2>1, RestatedFacts DEF SameView, Good
    <3> QED BY <1>1, <2>1, <2>2, <3>1, <3>2, OnceKept
  <2>4. ASSUME NEW k, m = Rebuild(k, at), Base(k), Unpast(k), k.rows = n.rows,
               k.sel = n.sel, Covered(k, at)
        PROVE  Kept(n, at, n')
    BY <1>1, <1>4, <1>7, <2>1, <2>4, TwiceKept
  <2> QED BY <1>5, <2>3, <2>4
<1> QED BY <1>1, <1>3, <1>6, <1>7, ChangedFacts

\* A step that the user takes is counted.
LEMMA Spent ==
    ASSUME UsedOK, used' = Spend("moves") PROVE used'.moves # used.moves
<1>1. used' = [used EXCEPT !.moves = used.moves + 1]
  BY DEF Spend
<1>2. used.moves \in 0 .. MaxMoves
  BY DEF UsedOK
<1>3. used.moves \in Int
  BY <1>2
<1>4. used'.moves = used.moves + 1
  BY <1>1 DEF UsedOK
<1>5. \A k \in Int : k + 1 # k
  OBVIOUS
<1> QED BY <1>3, <1>4, <1>5

\* The steps that are not the user's, and give no new instance a row.
LEMMA StepKept ==
    ASSUME UniqueTitles, CountInv, [Next]_vars,
           used'.moves = used.moves, ToSet(n'.list) \subseteq ToSet(n.list)
    PROVE  Kept(n, at, n')
<1>1. UsedOK /\ Good(n) /\ AtOK(at)
  BY DEF CountInv, NavInv
<1>2. ASSUME n' = n PROVE Kept(n, at, n')
  BY <1>2, KeptItself
<1>3. CASE UNCHANGED vars
  BY <1>2, <1>3 DEF vars
<1>4. CASE \E p \in Plans, s \in Status : PlanChange(p, s)
  BY <1>2, <1>4 DEF PlanChange
<1>5. CASE Refresh
  BY <1>5, RefreshKept
<1>6. CASE \E x \in Agents : AgentTurns(x)
  BY <1>2, <1>6 DEF AgentTurns
<1>7. CASE \E x \in Agents : Spawn(x)
  <2>1. PICK x \in Agents : Spawn(x)
    BY <1>7
  <2> DEFINE i == [at EXCEPT ![x] = WithStatus(Fresh(x), "loading")]
             m == Added(n, x, i)
  <2>2. x \in Insts /\ x \notin ToSet(n.list) /\ n' \in {m, SelectInst(m, x, i)}
    BY <2>1 DEF Insts, Spawn
  <2>3. AtOK(i)
    <3> DEFINE a == WithStatus(Fresh(x), "loading")
    <3>1. Fresh(x) \in InstRec /\ Fresh(x).plan = PlanFor(x) /\ "loading" \in Statuses
      BY <2>2, FreshFacts DEF Statuses
    <3>2. a \in InstRec /\ a.plan = PlanFor(x)
      BY <3>1, WithStatusFacts
    <3> HIDE DEF a
    <3>3. AtOK([at EXCEPT ![x] = a])
      BY <1>1, <2>2, <3>2, AtSet
    <3> QED BY <3>3 DEF a
  <2> HIDE DEF i
  <2>4. Good(m) /\ x \in ToSet(m.list)
    BY <1>1, <2>2, <2>3, AddedGood
  <2> HIDE DEF m
  <2>5. SelectInst(m, x, i).list = m.list
    BY <2>2, <2>3, <2>4, SelectInstGood DEF Viewed, SameSums
  <2> QED BY <2>2, <2>4, <2>5
<1>8. CASE \E x \in Agents : Replaced(x)
  <2>1. PICK x \in Agents : Replaced(x)
    BY <1>8
  <2>2. n' = Restat(RemovedTitle(n, at[x].title, at), at)
    BY <2>1 DEF Replaced
  <2> QED BY <1>1, <2>2, DroppedKept, SameItself
<1>9. CASE \E x \in Insts : StartDone(x)
  BY <1>9, StartDoneKept
<1>10. CASE MoveUp \/ MoveDown \/ CycleActive \/ ClickItem \/ KillSelected
  <2>1. used' = Spend("moves")
    BY <1>10 DEF MoveUp, MoveDown, CycleActive, ClickItem, KillSelected, Move, Key
  <2> QED BY <1>1, <2>1, Spent
<1>11. CASE ToggleExpand \/ InspectPlan \/ Talk
  <2>1. used' = Spend("moves")
    BY <1>11 DEF ToggleExpand, InspectPlan, Talk, Reshape, Key
  <2> QED BY <1>1, <2>1, Spent
<1>12. CASE \/ PauseSelected \/ BeginNaming
            \/ \E q \in Plans \cup {0} : Search(q)
            \/ \E t \in Titles : TypeTitle(t)
  <2>1. used' = Spend("moves")
    BY <1>12 DEF PauseSelected, BeginNaming, Search, TypeTitle, Key
  <2> QED BY <1>1, <2>1, Spent
<1>13. CASE SubmitTitle
  BY <1>2, <1>13 DEF SubmitTitle
<1>14. CASE CancelNaming
  BY <1>14, CancelNamingKept
<1> QED BY <1>3, <1>4, <1>5, <1>6, <1>7, <1>8, <1>9, <1>10, <1>11, <1>12, <1>13, <1>14
        DEF Next

\* The property of a step.
Stays ==
    used'.moves = used.moves /\ ToSet(n'.list) \subseteq ToSet(n.list) /\ n.rows # << >> =>
       LET old == n.rows[n.sel]
           current == old.inst # NoInst => old.title = at[old.inst].title
           same(r) == IF old.inst # NoInst THEN r.inst = old.inst
                      ELSE old.plan # 0 /\ r.inst = NoInst /\ r.plan = old.plan
       IN current /\ (\E r \in ToSet(n'.rows) : same(r)) => same(n'.rows[n'.sel])

\* What the user has selected stays selected while it has a row, whatever ticks and
\* agents do to the rows (rebuildRows, SetItems, RemoveByTitle), when no two agents
\* have one title.
THEOREM SelectionStaysTheorem == ASSUME UniqueTitles PROVE Spec => SelectionStays
<1>1. CountInv /\ [Next]_vars => [Stays]_vars
  <2> SUFFICES ASSUME CountInv, [Next]_vars,
                      used'.moves = used.moves, ToSet(n'.list) \subseteq ToSet(n.list)
               PROVE  Stays
    BY DEF Stays
  <2>1. Kept(n, at, n')
    BY StepKept
  <2> QED BY <2>1 DEF Kept, Like, Stays
<1>2. SelectionStays <=> [][Stays]_vars
  BY PTL DEF SelectionStays, Stays
<1> QED BY <1>1, <1>2, CountInvariant, PTL DEF Spec

=============================================================================
