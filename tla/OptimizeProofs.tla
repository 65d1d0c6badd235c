----------------------------- MODULE OptimizeProofs -----------------------------
(***************************************************************************)
(* Theorems about Optimize, for any columns, rows, queries and calls.      *)
(***************************************************************************)
EXTENDS Optimize, QueueFacts, FunctionTheorems

--------------------------------------------------------------------------------
(* The choices made from the statistics *)

LEMMA ConstantsType ==
    /\ Columns \subseteq Nat /\ Columns # {} /\ IsFiniteSet(Columns)
    /\ \A r \in Rows : r \in [Columns -> Nat]
    /\ IsFiniteSet(GroupSets) /\ GroupSets # {} /\ {} \notin GroupSets
    /\ \A g \in GroupSets : g \subseteq Columns
    /\ Deleted \notin Rows
  <1>1. Columns \subseteq Nat /\ Columns # {} /\ IsFiniteSet(Columns) /\ Rows \subseteq [Columns -> Nat]
    BY OptimizeAssumption DEF OptimizeAssumption
  <1>2. IsFiniteSet(SUBSET Columns)
    BY <1>1, FS_SUBSET
  <1>3. IsFiniteSet(GroupSets)
    BY <1>2, FS_Subset DEF GroupSets
  <1>4. Columns \in GroupSets
    BY <1>1 DEF GroupSets
  <1>5. Deleted \notin Rows
    <2>1. DOMAIN Deleted = {}
      BY DEF Deleted
    <2> QED BY <1>1, <2>1
  <1> QED BY <1>1, <1>3, <1>4, <1>5 DEF GroupSets

LEMMA Places ==
    ASSUME NEW n \in Nat
    PROVE  IsFiniteSet(1 .. n) /\ Cardinality(1 .. n) = n
  <1>1. IsFiniteSet(1 .. n)
    BY FS_Interval
  <1>2. Cardinality(1 .. n) = IF 1 > n THEN 0 ELSE n - 1 + 1
    BY FS_Interval
  <1>3. (IF 1 > n THEN 0 ELSE n - 1 + 1) = n
    OBVIOUS
  <1> QED BY <1>1, <1>2, <1>3

\* A finite set of numbers holds its minimum and its maximum.
LEMMA MinMax ==
    ASSUME NEW T \in SUBSET Nat, IsFiniteSet(T), T # {}
    PROVE  /\ Min(T) \in T /\ \A x \in T : Min(T) <= x
           /\ Max(T) \in T /\ \A x \in T : Max(T) >= x
  BY Extremes DEF Min, Max

\* The sort key has one column or two.
LEMMA OrdersAre ==
    ASSUME NEW key \in Orders
    PROVE  /\ Len(key) \in {1, 2} /\ DOMAIN key = 1 .. Len(key) /\ key \in Seq(Columns)
           /\ \A n \in 1 .. Len(key) : key[n] \in Columns
  <1>1. PICK n \in 1 .. 2 : key \in [1 .. n -> Columns]
    BY DEF Orders
  <1>2. n \in {1, 2}
    BY <1>1
  <1>3. key \in Seq(Columns) /\ Len(key) = n
    BY <1>1, <1>2
  <1> QED BY <1>1, <1>2, <1>3

\* A prefix of a ranking of columns is a key.
LEMMA OrderByType ==
    ASSUME NEW s \in Statistics
    PROVE  OrderBy(s) \in Orders \union {<<>>}
  <1> DEFINE Weight(c) == 2 * s.usage[c].filters + s.usage[c].groups
             used == {c \in Columns : Weight(c) > 0}
             before == {p \in used \X used : Weight(p[1]) > Weight(p[2])
                                               \/ (Weight(p[1]) = Weight(p[2]) /\ p[1] < p[2])}
             ranked == Ranked(used, before)
             n == Min({2, Len(ranked)})
  <1>1. \A c \in Columns : Weight(c) \in Nat /\ c \in Nat
    BY ConstantsType DEF Statistics
  <1>2. IsFiniteSet(used)
    BY ConstantsType, FS_Subset
  <1>3. \A c, d \in used : <<c, d>> \in before <=>
              Weight(c) > Weight(d) \/ (Weight(c) = Weight(d) /\ c < d)
    OBVIOUS
  <1>4. used \subseteq Columns
    OBVIOUS
  <1>5. OrderBy(s) = SubSeq(ranked, 1, n)
    BY DEF OrderBy
  <1> HIDE DEF Weight, before, used
  <1>6. TotalOn(before, used)
    BY <1>1, <1>3, <1>4 DEF TotalOn
  <1>7. /\ Cardinality(used) \in Nat
        /\ ranked \in Bijection(1 .. Cardinality(used), used)
    BY <1>2, <1>6, RankedFacts
  <1>8. /\ ranked \in [1 .. Cardinality(used) -> used]
        /\ \A i, j \in 1 .. Cardinality(used) : ranked[i] = ranked[j] => i = j
    BY <1>7 DEF Bijection, Injection, IsInjective
  <1> HIDE DEF ranked
  <1>9. Len(ranked) = Cardinality(used) /\ ranked \in Seq(Columns)
    BY <1>4, <1>7, <1>8
  <1>10. n = IF Cardinality(used) <= 2 THEN Cardinality(used) ELSE 2
    <2> DEFINE two == {2, Cardinality(used)}
    <2>1. two \in SUBSET Nat /\ two # {}
      BY <1>7
    <2>2. IsFiniteSet(two)
      <3>1. two = {Cardinality(used)} \union {2}
        OBVIOUS
      <3>2. IsFiniteSet({Cardinality(used)})
        BY FS_Singleton
      <3> QED BY <3>1, <3>2, FS_AddElement
    <2>3. Min(two) \in two /\ \A x \in two : Min(two) <= x
      BY <2>1, <2>2, MinMax
    <2> QED BY <1>7, <1>9, <2>3
  <1> HIDE DEF n
  <1>11. n \in 0 .. 2 /\ n <= Cardinality(used)
    BY <1>7, <1>10
  <1> DEFINE key == SubSeq(ranked, 1, n)
  <1>12. CASE n = 0
    BY <1>5, <1>12
  <1>13. CASE n # 0
    <2>1. n \in 1 .. 2
      BY <1>11, <1>13
    <2>2. key \in [1 .. n -> Columns] /\ \A i \in 1 .. n : key[i] = ranked[i]
      <3>1. key \in Seq(Columns) /\ Len(key) = n /\ \A i \in 1 .. n : key[i] = ranked[i]
        BY <1>7, <1>9, <1>11, <2>1
      <3> HIDE DEF key
      <3> QED BY <2>1, <3>1
    <2>3. \A i, j \in 1 .. n : key[i] = key[j] => i = j
      BY <1>7, <1>8, <1>11, <2>1, <2>2
    <2> HIDE DEF key
    <2>4. key \in Orders
      BY <2>1, <2>2, <2>3 DEF Orders, IsInjective
    <2> QED BY <1>5, <2>4 DEF key
  <1> QED BY <1>12, <1>13

\* Whose names come first is decided at the first column that only one has.
LEMMA BeforeAt ==
    ASSUME NEW g \in SUBSET Columns, NEW h \in SUBSET Columns, g # h
    PROVE  \E m \in Nat :
              /\ m \in (g \ h) \union (h \ g)
              /\ \A c \in Nat : c < m => (c \in g <=> c \in h)
              /\ Before(g, h) <=> IF m \in g THEN \E c \in h : c > m ELSE ~\E c \in g : c > m
              /\ Before(h, g) <=> IF m \in h THEN \E c \in g : c > m ELSE ~\E c \in h : c > m
  <1> DEFINE T == (g \ h) \union (h \ g)
             m == Min(T)
  <1>1. T \in SUBSET Nat /\ T # {} /\ T \subseteq Columns /\ IsFiniteSet(Columns)
    BY ConstantsType
  <1>2. IsFiniteSet(T)
    BY <1>1, FS_Subset
  <1>3. m \in T /\ \A x \in T : m <= x
    BY <1>1, <1>2, MinMax
  <1>4. T = (h \ g) \union (g \ h)
    OBVIOUS
  <1>5. /\ Before(g, h) <=> IF m \in g THEN \E c \in h : c > m ELSE ~\E c \in g : c > m
        /\ Before(h, g) <=> IF m \in h THEN \E c \in g : c > m ELSE ~\E c \in h : c > m
    BY <1>4 DEF Before
  <1> HIDE DEF m
  <1>6. \A c \in Nat : c < m => c \notin T
    BY <1>1, <1>3
  <1> QED BY <1>1, <1>3, <1>5, <1>6

LEMMA BeforeTotal ==
    ASSUME NEW g \in SUBSET Columns, NEW h \in SUBSET Columns, g # h
    PROVE  (Before(g, h) \/ Before(h, g)) /\ ~(Before(g, h) /\ Before(h, g))
  BY BeforeAt

LEMMA BeforeTransitive ==
    ASSUME NEW g \in SUBSET Columns, NEW h \in SUBSET Columns, NEW k \in SUBSET Columns,
           g # h, h # k, g # k, Before(g, h), Before(h, k)
    PROVE  Before(g, k)
  <1>0. g \subseteq Nat /\ h \subseteq Nat /\ k \subseteq Nat
    BY ConstantsType
  <1>1. PICK m \in Nat :
              /\ m \in (g \ h) \union (h \ g)
              /\ \A c \in Nat : c < m => (c \in g <=> c \in h)
              /\ Before(g, h) <=> IF m \in g THEN \E c \in h : c > m ELSE ~\E c \in g : c > m
              /\ Before(h, g) <=> IF m \in h THEN \E c \in g : c > m ELSE ~\E c \in h : c > m
    BY BeforeAt
  <1>2. PICK n \in Nat :
              /\ n \in (h \ k) \union (k \ h)
              /\ \A c \in Nat : c < n => (c \in h <=> c \in k)
              /\ Before(h, k) <=> IF n \in h THEN \E c \in k : c > n ELSE ~\E c \in h : c > n
              /\ Before(k, h) <=> IF n \in k THEN \E c \in h : c > n ELSE ~\E c \in k : c > n
    BY BeforeAt
  <1>3. PICK l \in Nat :
              /\ l \in (g \ k) \union (k \ g)
              /\ \A c \in Nat : c < l => (c \in g <=> c \in k)
              /\ Before(g, k) <=> IF l \in g THEN \E c \in k : c > l ELSE ~\E c \in g : c > l
              /\ Before(k, g) <=> IF l \in k THEN \E c \in g : c > l ELSE ~\E c \in k : c > l
    BY BeforeAt
  <1>4. CASE m = n
    BY <1>0, <1>1, <1>2, <1>3, <1>4
  <1>5. CASE m < n
    <2>1. l = m
      BY <1>0, <1>1, <1>2, <1>3, <1>5
    <2> QED BY <1>0, <1>1, <1>2, <1>3, <1>5, <2>1
  <1>6. CASE n < m
    <2>1. l = n
      BY <1>0, <1>1, <1>2, <1>3, <1>6
    <2> QED BY <1>0, <1>1, <1>2, <1>3, <1>6, <2>1
  <1> QED BY <1>4, <1>5, <1>6

LEMMA HottestType ==
    ASSUME NEW s \in Statistics
    PROVE  Hottest(s) \in GroupSets
  <1> DEFINE before == {p \in GroupSets \X GroupSets :
                            s.sets[p[1]] > s.sets[p[2]]
                              \/ (s.sets[p[1]] = s.sets[p[2]] /\ Before(p[1], p[2]))}
             ranked == Ranked(GroupSets, before)
  <1>1. \A g \in GroupSets : s.sets[g] \in Nat /\ g \in SUBSET Columns
    BY ConstantsType DEF Statistics
  <1>2. \A g, h \in GroupSets : <<g, h>> \in before <=>
              s.sets[g] > s.sets[h] \/ (s.sets[g] = s.sets[h] /\ Before(g, h))
    OBVIOUS
  <1>3. Hottest(s) = ranked[1]
    BY DEF Hottest
  <1> HIDE DEF before
  <1>4. ASSUME NEW g \in GroupSets, NEW h \in GroupSets, g # h
        PROVE  /\ <<g, h>> \in before \/ <<h, g>> \in before
               /\ <<g, h>> \in before => <<h, g>> \notin before
    BY <1>1, <1>2, <1>4, BeforeTotal
  <1>5. ASSUME NEW g \in GroupSets, NEW h \in GroupSets, NEW k \in GroupSets, g # h, h # k, g # k,
               <<g, h>> \in before, <<h, k>> \in before
        PROVE  <<g, k>> \in before
    <2>1. s.sets[g] \in Nat /\ s.sets[h] \in Nat /\ s.sets[k] \in Nat
      BY <1>1
    <2>2. Before(g, h) /\ Before(h, k) => Before(g, k)
      BY <1>1, <1>5, BeforeTransitive
    <2> QED BY <1>2, <1>5, <2>1, <2>2
  <1>6. TotalOn(before, GroupSets)
    BY <1>4, <1>5 DEF TotalOn
  <1>7. /\ Cardinality(GroupSets) \in Nat
        /\ ranked \in Bijection(1 .. Cardinality(GroupSets), GroupSets)
    BY <1>6, ConstantsType, RankedFacts
  <1>8. Cardinality(GroupSets) # 0
    BY ConstantsType, FS_EmptySet
  <1> HIDE DEF ranked
  <1>9. ranked[1] \in GroupSets
    BY <1>7, <1>8 DEF Bijection, Surjection
  <1> QED BY <1>3, <1>9

--------------------------------------------------------------------------------
(* Sorting *)

\* A key has at most two columns.
LEMMA LessIs ==
    ASSUME NEW key \in Orders, NEW r, NEW s
    PROVE  Less(key, r, s) <=>
               \/ r[key[1]] < s[key[1]]
               \/ Len(key) = 2 /\ r[key[1]] = s[key[1]] /\ r[key[2]] < s[key[2]]
  <1>1. Len(key) \in {1, 2} /\ DOMAIN key = 1 .. Len(key)
    BY OrdersAre
  <1>2. CASE Len(key) = 1
    <2>1. DOMAIN key = {1} /\ 1 .. 1 - 1 = {}
      BY <1>1, <1>2
    <2> QED BY <1>2, <2>1 DEF Less
  <1>3. CASE Len(key) = 2
    <2>1. DOMAIN key = {1, 2} /\ 1 .. 1 - 1 = {} /\ 1 .. 2 - 1 = {1}
      BY <1>1, <1>3
    <2> QED BY <1>3, <2>1 DEF Less
  <1> QED BY <1>1, <1>2, <1>3

LEMMA LessOrder ==
    ASSUME NEW key \in Orders, NEW r \in Rows, NEW s \in Rows, NEW t \in Rows
    PROVE  /\ ~Less(key, r, r)
           /\ Less(key, r, s) => ~Less(key, s, r)
           /\ Less(key, r, s) /\ Less(key, s, t) => Less(key, r, t)
           /\ ~Less(key, r, s) /\ ~Less(key, s, t) => ~Less(key, r, t)
  <1>1. Len(key) \in {1, 2} /\ \A n \in 1 .. Len(key) : key[n] \in Columns
    BY OrdersAre
  <1>2. \A n \in 1 .. Len(key) : r[key[n]] \in Nat /\ s[key[n]] \in Nat /\ t[key[n]] \in Nat
    BY <1>1, ConstantsType
  <1>3. /\ r[key[1]] \in Nat /\ s[key[1]] \in Nat /\ t[key[1]] \in Nat
        /\ Len(key) = 2 => r[key[2]] \in Nat /\ s[key[2]] \in Nat /\ t[key[2]] \in Nat
    BY <1>1, <1>2
  <1> QED BY <1>3, LessIs

\* A sorted table has the rows of the table, in the order of the key.
LEMMA SortedFacts ==
    ASSUME NEW key \in Orders, NEW rs \in Seq(Rows)
    PROVE  /\ OrderedBy(key, rs) \in Seq(Rows) /\ Len(OrderedBy(key, rs)) = Len(rs)
           /\ IsOrdered(key, OrderedBy(key, rs))
           /\ \E q \in Bijection(1 .. Len(rs), 1 .. Len(rs)) :
                  \A n \in 1 .. Len(rs) : OrderedBy(key, rs)[n] = rs[q[n]]
  <1> DEFINE D == 1 .. Len(rs)
             Sooner(i, j) == Less(key, rs[i], rs[j]) \/ (~Less(key, rs[j], rs[i]) /\ i < j)
             before == {p \in D \X D : Sooner(p[1], p[2])}
             ranked == Ranked(D, before)
             ts == OrderedBy(key, rs)
  <1>1. /\ DOMAIN rs = D /\ Len(rs) \in Nat /\ \A i \in D : rs[i] \in Rows /\ i \in Nat
        /\ IsFiniteSet(D) /\ Cardinality(D) = Len(rs)
    <2>1. DOMAIN rs = D /\ Len(rs) \in Nat /\ \A i \in D : rs[i] \in Rows /\ i \in Nat
      OBVIOUS
    <2>2. IsFiniteSet(D) /\ Cardinality(D) = Len(rs)
      BY <2>1, Places
    <2> QED BY <2>1, <2>2
  <1>2. ts = [n \in D |-> rs[ranked[n]]]
    BY <1>1 DEF OrderedBy
  <1>3. \A i, j \in D : <<i, j>> \in before <=> Sooner(i, j)
    OBVIOUS
  <1> HIDE DEF before
  <1>4. TotalOn(before, D)
    <2>1. ASSUME NEW i \in D, NEW j \in D, i # j
          PROVE  /\ Sooner(i, j) \/ Sooner(j, i)
                 /\ Sooner(i, j) => ~Sooner(j, i)
      BY <1>1, <2>1, LessOrder
    <2>2. ASSUME NEW i \in D, NEW j \in D, NEW k \in D, Sooner(i, j), Sooner(j, k)
          PROVE  Sooner(i, k)
      <3>1. /\ rs[i] \in Rows /\ rs[j] \in Rows /\ rs[k] \in Rows
            /\ i \in Nat /\ j \in Nat /\ k \in Nat
        BY <1>1
      <3>2. CASE Less(key, rs[i], rs[j]) /\ Less(key, rs[j], rs[k])
        BY <3>1, <3>2, LessOrder
      <3>3. CASE Less(key, rs[i], rs[j]) /\ ~Less(key, rs[k], rs[j])
        <4>1. ~Less(key, rs[i], rs[k]) => ~Less(key, rs[i], rs[j])
          BY <3>1, <3>3, LessOrder
        <4> QED BY <3>3, <4>1
      <3>4. CASE ~Less(key, rs[j], rs[i]) /\ Less(key, rs[j], rs[k])
        <4>1. ~Less(key, rs[i], rs[k]) => ~Less(key, rs[j], rs[k])
          BY <3>1, <3>4, LessOrder
        <4> QED BY <3>4, <4>1
      <3>5. CASE ~Less(key, rs[j], rs[i]) /\ ~Less(key, rs[k], rs[j]) /\ i < j /\ j < k
        <4>1. ~Less(key, rs[k], rs[i])
          BY <3>1, <3>5, LessOrder
        <4> QED BY <3>1, <3>5, <4>1
      <3> QED BY <2>2, <3>2, <3>3, <3>4, <3>5
    <2> HIDE DEF Sooner
    <2> QED BY <1>3, <2>1, <2>2 DEF TotalOn
  <1>5. /\ ranked \in Bijection(D, D)
        /\ \A m, n \in D : m < n => Sooner(ranked[m], ranked[n])
    <2>1. /\ ranked \in Bijection(D, D)
          /\ \A m, n \in D : m < n => <<ranked[m], ranked[n]>> \in before
      BY <1>1, <1>4, RankedFacts
    <2>2. \A n \in D : ranked[n] \in D
      BY <2>1 DEF Bijection, Surjection
    <2> HIDE DEF ranked, Sooner
    <2> QED BY <1>3, <2>1, <2>2
  <1>6. \A n \in D : ranked[n] \in D
    BY <1>5 DEF Bijection, Surjection
  <1> HIDE DEF ranked, ts
  <1>7. ts \in Seq(Rows) /\ Len(ts) = Len(rs) /\ \A n \in D : ts[n] = rs[ranked[n]] /\ ts[n] \in Rows
    BY <1>1, <1>2, <1>6
  <1>8. IsOrdered(key, ts)
    <2> SUFFICES ASSUME NEW i \in D, NEW j \in D, i < j PROVE ~Less(key, ts[j], ts[i])
      BY <1>7 DEF IsOrdered
    <2>1. Sooner(ranked[i], ranked[j])
      BY <1>5
    <2>2. /\ ts[i] = rs[ranked[i]] /\ ts[j] = rs[ranked[j]]
          /\ ts[i] \in Rows /\ ts[j] \in Rows
      BY <1>7
    <2> QED BY <2>1, <2>2, LessOrder
  <1> QED BY <1>5, <1>7, <1>8 DEF ts

\* What is taken from some live places and sorted.
LEMMA TakenFacts ==
    ASSUME NEW key \in Orders, NEW rs \in Seq(Rows \union {Deleted}), NEW P \in SUBSET LivePlaces(rs)
    PROVE  /\ IsFiniteSet(P) /\ Cardinality(P) \in Nat
           /\ OrderedBy(key, Selection(rs, P)) \in Seq(Rows)
           /\ Len(OrderedBy(key, Selection(rs, P))) = Cardinality(P)
           /\ IsOrdered(key, OrderedBy(key, Selection(rs, P)))
           /\ \E q \in Bijection(1 .. Cardinality(P), P) :
                  \A n \in 1 .. Cardinality(P) : OrderedBy(key, Selection(rs, P))[n] = rs[q[n]]
  <1> DEFINE C == Cardinality(P)
             sel == Selection(rs, P)
             ts == OrderedBy(key, sel)
             nth == [n \in 1 .. C |-> Nth(P, n)]
  <1>1. P \in SUBSET DOMAIN rs /\ \A i \in P : rs[i] \in Rows
    BY DEF LivePlaces
  <1>2. /\ IsFiniteSet(P) /\ C \in Nat
        /\ DOMAIN sel = 1 .. C /\ Len(sel) = C /\ sel \in Seq(Rows \union {Deleted})
        /\ \A n \in 1 .. C : nth[n] \in P /\ sel[n] = rs[nth[n]]
        /\ \A i \in P : \E n \in 1 .. C : nth[n] = i
    BY <1>1, SelectionFacts
  <1> HIDE DEF nth, sel
  <1>3. nth \in Surjection(1 .. C, P)
    <2>1. nth = [n \in 1 .. C |-> Nth(P, n)]
      BY DEF nth
    <2>2. nth \in [1 .. C -> P]
      BY <1>2, <2>1
    <2> QED BY <1>2, <2>2 DEF Surjection
  <1>4. nth \in Bijection(1 .. C, P)
    <2>1. IsFiniteSet(1 .. C) /\ Cardinality(1 .. C) = C
      BY <1>2, Places
    <2>2. nth \in Injection(1 .. C, P)
      BY <1>3, <2>1, FS_Surjection
    <2> QED BY <1>3, <2>2 DEF Bijection
  <1>5. sel \in Seq(Rows)
    <2>1. \A n \in 1 .. C : sel[n] \in Rows
      BY <1>1, <1>2
    <2> QED BY <1>2, <2>1
  <1>6. /\ ts \in Seq(Rows) /\ Len(ts) = C /\ IsOrdered(key, ts)
        /\ \E q \in Bijection(1 .. C, 1 .. C) : \A n \in 1 .. C : ts[n] = sel[q[n]]
    BY <1>2, <1>5, SortedFacts
  <1>7. PICK q \in Bijection(1 .. C, 1 .. C) : \A n \in 1 .. C : ts[n] = sel[q[n]]
    BY <1>6
  <1> DEFINE f == [n \in 1 .. C |-> nth[q[n]]]
  <1>8. f \in Bijection(1 .. C, P)
    BY <1>4, <1>7, Fun_BijTransitive
  <1>9. \A n \in 1 .. C : ts[n] = rs[f[n]]
    <2>1. \A n \in 1 .. C : q[n] \in 1 .. C
      BY <1>7 DEF Bijection, Surjection
    <2> QED BY <1>2, <1>7, <2>1
  <1> HIDE DEF f, ts
  <1> QED BY <1>2, <1>6, <1>8, <1>9 DEF ts, sel

\* The live places of rs hold the rows of those of ts.
SameRows(rs, ts) ==
    \E f \in Bijection(LivePlaces(rs), LivePlaces(ts)) : \A i \in LivePlaces(rs) : ts[f[i]] = rs[i]

\* The places that hold a row of R.
Holders(rs, R) == {i \in LivePlaces(rs) : rs[i] \in R}

\* As many places hold a row of R.
LEMMA SameRowsCount ==
    ASSUME NEW rs \in Seq(Rows \union {Deleted}), NEW ts \in Seq(Rows \union {Deleted}), SameRows(rs, ts),
           NEW R
    PROVE  /\ Cardinality(Holders(rs, R)) = Cardinality(Holders(ts, R))
           /\ {rs[i] : i \in LivePlaces(rs)} = {ts[i] : i \in LivePlaces(ts)}
  <1> DEFINE S == Holders(rs, R)
             T == Holders(ts, R)
  <1>1. PICK f \in Bijection(LivePlaces(rs), LivePlaces(ts)) : \A i \in LivePlaces(rs) : ts[f[i]] = rs[i]
    BY DEF SameRows
  <1>2. /\ \A i \in LivePlaces(rs) : f[i] \in LivePlaces(ts)
        /\ \A i, j \in LivePlaces(rs) : f[i] = f[j] => i = j
        /\ \A j \in LivePlaces(ts) : \E i \in LivePlaces(rs) : f[i] = j
    BY DEF Bijection, Injection, Surjection, IsInjective
  <1>3. IsFiniteSet(S)
    <2>1. IsFiniteSet(DOMAIN rs)
      <3>1. DOMAIN rs = 1 .. Len(rs) /\ Len(rs) \in Nat
        OBVIOUS
      <3> QED BY <3>1, Places
    <2>2. S \subseteq DOMAIN rs
      BY DEF LivePlaces, Holders
    <2> QED BY <2>1, <2>2, FS_Subset
  <1> DEFINE g == [i \in S |-> f[i]]
  <1>4. g \in [S -> T]
    BY <1>1, <1>2 DEF Holders
  <1>5. (\A i, j \in S : g[i] = g[j] => i = j) /\ (\A j \in T : \E i \in S : g[i] = j)
    BY <1>1, <1>2 DEF Holders
  <1> HIDE DEF g, S, T
  <1>6. g \in Bijection(S, T)
    BY <1>4, <1>5 DEF Bijection, Injection, Surjection, IsInjective
  <1>7. Cardinality(S) = Cardinality(T)
    BY <1>3, <1>6, FS_Bijection DEF ExistsBijection
  <1>8. {rs[i] : i \in LivePlaces(rs)} = {ts[i] : i \in LivePlaces(ts)}
    BY <1>1, <1>2
  <1> QED BY <1>7, <1>8 DEF S, T

--------------------------------------------------------------------------------
(* Types *)

LEMMA LiveFacts ==
    ASSUME NEW rs \in Seq(Rows \union {Deleted})
    PROVE  /\ LivePlaces(rs) \subseteq 1 .. Len(rs) /\ IsFiniteSet(LivePlaces(rs))
           /\ DOMAIN rs = 1 .. Len(rs) /\ Len(rs) \in Nat
           /\ Cardinality(LivePlaces(rs)) \in 0 .. Len(rs)
           /\ \A i \in LivePlaces(rs) : rs[i] \in Rows
  <1>1. DOMAIN rs = 1 .. Len(rs) /\ Len(rs) \in Nat
    OBVIOUS
  <1>2. LivePlaces(rs) \subseteq 1 .. Len(rs) /\ \A i \in LivePlaces(rs) : rs[i] \in Rows
    BY <1>1 DEF LivePlaces
  <1>3. IsFiniteSet(1 .. Len(rs)) /\ Cardinality(1 .. Len(rs)) = Len(rs)
    BY <1>1, Places
  <1>4. /\ IsFiniteSet(LivePlaces(rs))
        /\ Cardinality(LivePlaces(rs)) <= Cardinality(1 .. Len(rs))
    BY <1>2, <1>3, FS_Subset
  <1>5. Cardinality(LivePlaces(rs)) \in Nat
    BY <1>4, FS_CardinalityType
  <1> QED BY <1>1, <1>2, <1>3, <1>4, <1>5

\* What a call holds depends on what it is at.
LEMMA HeldAt ==
    ASSUME NEW l \in Holding
    PROVE  /\ l.at \in {"idle", "last", "shape", "begin", "record", "transaction",
                        "copy", "register", "replace", "insert", "merge"}
           /\ l.at \in {"last", "shape"} =>
                 l \in [at : {"last", "shape"}, key : Orders, last : Nat]
           /\ l.at \in {"begin", "record"} =>
                 l \in [at : {"begin", "record"}, key : Orders, last : Nat, count : Nat, mode : Modes]
           /\ l.at = "transaction" =>
                 l \in [at : {"transaction"}, key : Orders, last : Nat, count : Nat, mode : Modes,
                        snap : Seq(Rows \union {Deleted}), inserted : [Rows -> Nat], moved : BOOLEAN]
           /\ l.at \in {"copy", "register"} =>
                 l \in [at : {"copy", "register"}, group : GroupSets, gone : SUBSET Nat]
           /\ l.at \in {"replace", "insert", "merge"} => l \in [at : {"replace", "insert", "merge"}, stats : Statistics]
  <1>1. CASE l = Idle
    BY <1>1 DEF Idle
  <1>2. CASE l \in [at : {"last", "shape"}, key : Orders, last : Nat]
    <2>1. l.at \in {"last", "shape"}
      BY <1>2
    <2> QED BY <1>2, <2>1
  <1>3. CASE l \in [at : {"begin", "record"}, key : Orders, last : Nat, count : Nat, mode : Modes]
    <2>1. l.at \in {"begin", "record"}
      BY <1>3
    <2> QED BY <1>3, <2>1
  <1>4. CASE l \in [at : {"transaction"}, key : Orders, last : Nat, count : Nat, mode : Modes,
                    snap : Seq(Rows \union {Deleted}), inserted : [Rows -> Nat], moved : BOOLEAN]
    <2>1. l.at = "transaction"
      BY <1>4
    <2> QED BY <1>4, <2>1
  <1>5. CASE l \in [at : {"copy", "register"}, group : GroupSets, gone : SUBSET Nat]
    <2>1. l.at \in {"copy", "register"}
      BY <1>5
    <2> QED BY <1>5, <2>1
  <1>6. CASE l \in [at : {"replace", "insert", "merge"}, stats : Statistics]
    <2>1. l.at \in {"replace", "insert", "merge"}
      BY <1>6
    <2> QED BY <1>6, <2>1
  <1> QED BY <1>1, <1>2, <1>3, <1>4, <1>5, <1>6 DEF Holding

LEMMA StatisticsType ==
    /\ ZeroStats \in Statistics
    /\ \A q \in [filters : SUBSET Columns, groups : SUBSET Columns] : OfColumns(q) \in Statistics
    /\ \A g \in GroupSets : OfSet(g) \in Statistics
    /\ \A s, t \in Statistics : Add(s, t) \in Statistics
    /\ NoStats \notin Statistics
  <1>1. ZeroStats \in Statistics
    BY DEF ZeroStats, Statistics
  <1>2. ASSUME NEW q \in [filters : SUBSET Columns, groups : SUBSET Columns]
        PROVE  OfColumns(q) \in Statistics
    BY DEF OfColumns, One, ZeroStats, Statistics
  <1>3. ASSUME NEW s \in Statistics, NEW t \in Statistics
        PROVE  Add(s, t) \in Statistics
    BY DEF Add, Statistics
  <1>5. ASSUME NEW g \in GroupSets PROVE OfSet(g) \in Statistics
    BY DEF OfSet, One, ZeroStats, Statistics
  <1>4. NoStats \notin Statistics
    <2>1. SUFFICES ASSUME NoStats \in Statistics PROVE FALSE
      OBVIOUS
    <2>2. DOMAIN NoStats.usage = Columns
      BY <2>1 DEF Statistics
    <2>3. DOMAIN NoStats.usage = {}
      BY DEF NoStats
    <2> QED BY <2>2, <2>3, ConstantsType
  <1> QED BY <1>1, <1>2, <1>3, <1>4, <1>5

\* A call that lost its table keeps the size of one storage.
GoneInv ==
    \A c \in Calls : call[c].at \in {"copy", "register"} =>
        call[c].gone = {} \/ \E n \in Nat : call[c].gone = {n}
\* A table for the statistics is there when they are inserted.
SavedInv == \A c \in Calls : At(c, "insert") => saved # NoStats
\* What a transaction has seen inserted has been.
HadInv == \A c \in Calls : At(c, "transaction") => \A r \in Rows : call[c].inserted[r] <= inserted[r]
TypeInv == TypeOK /\ GoneInv /\ SavedInv /\ HadInv

LEMMA SizeOfGone == ASSUME NEW n \in Nat PROVE Max({n}) = n
  <1>1. IsFiniteSet({n}) /\ {n} \in SUBSET Nat /\ {n} # {}
    BY FS_Singleton
  <1>2. Max({n}) \in {n}
    BY <1>1, MinMax
  <1> QED BY <1>2

\* A call that goes on to l.
LEMMA GoesOn ==
    ASSUME TypeInv, NEW c \in Calls, NEW l \in Holding, Goto(c, l),
           l.at \in {"copy", "register"} => l.gone = {} \/ \E n \in Nat : l.gone = {n}
    PROVE  call' \in [Calls -> Holding] /\ GoneInv'
  <1>1. call \in [Calls -> Holding] /\ call' = [call EXCEPT ![c] = l]
    BY DEF TypeInv, TypeOK, Goto
  <1> HIDE DEF Holding
  <1>2. \A d \in Calls : call'[d] = IF d = c THEN l ELSE call[d]
    BY <1>1
  <1>3. GoneInv'
    BY <1>2 DEF TypeInv, GoneInv
  <1> QED BY <1>1, <1>3

LEMMA CommitMoves ==
    ASSUME TypeInv, NEW c \in Calls, NEW replaced \in BOOLEAN, At(c, "transaction"), Moved(c, replaced)
    PROVE  call' \in [Calls -> Holding] /\ GoneInv'
  <1>1. call \in [Calls -> Holding] /\ Len(rows) \in Nat
    BY DEF TypeInv, TypeOK
  <1>2. call' = [d \in Calls |-> call'[d]]
    BY DEF Moved
  <1>3. ASSUME NEW d \in Calls
        PROVE  /\ call'[d] \in Holding
               /\ call'[d].at \in {"copy", "register"} =>
                      call'[d].gone = {} \/ \E n \in Nat : call'[d].gone = {n}
    <2>1. CASE d = c
      <3>1. call'[d] = [at |-> "record", key |-> call[c].key, last |-> call[c].last,
                        count |-> call[c].count, mode |-> call[c].mode]
        BY <2>1 DEF Moved
      <3>2. call[c] \in [at : {"transaction"}, key : Orders, last : Nat, count : Nat, mode : Modes,
                         snap : Seq(Rows \union {Deleted}), inserted : [Rows -> Nat], moved : BOOLEAN]
        BY <1>1, HeldAt DEF At
      <3> QED BY <3>1, <3>2 DEF Holding
    <2>2. CASE d # c /\ call'[d] = call[d]
      BY <1>1, <2>2 DEF TypeInv, GoneInv
    <2>3. CASE d # c /\ At(d, "transaction") /\ call'[d] = [call[d] EXCEPT !.moved = TRUE]
      <3>1. call[d] \in [at : {"transaction"}, key : Orders, last : Nat, count : Nat, mode : Modes,
                         snap : Seq(Rows \union {Deleted}), inserted : [Rows -> Nat], moved : BOOLEAN]
        BY <1>1, <2>3, HeldAt DEF At
      <3>2. call'[d] \in [at : {"transaction"}, key : Orders, last : Nat, count : Nat, mode : Modes,
                          snap : Seq(Rows \union {Deleted}), inserted : [Rows -> Nat], moved : BOOLEAN]
        BY <2>3, <3>1
      <3> QED BY <3>2 DEF Holding
    <2>4. CASE d # c /\ call[d].at \in Steps("project") /\ call'[d] = [call[d] EXCEPT !.gone = {Len(rows)}]
      <3>1. call[d] \in [at : {"copy", "register"}, group : GroupSets, gone : SUBSET Nat]
        BY <1>1, <2>4, HeldAt DEF Steps
      <3>2. /\ call'[d] \in [at : {"copy", "register"}, group : GroupSets, gone : SUBSET Nat]
            /\ call'[d].gone = {Len(rows)}
        BY <1>1, <2>4, <3>1
      <3> QED BY <1>1, <3>2 DEF Holding
    <2>5. \/ d = c \/ call'[d] = call[d]
          \/ At(d, "transaction") /\ call'[d] = [call[d] EXCEPT !.moved = TRUE]
          \/ call[d].at \in Steps("project") /\ call'[d] = [call[d] EXCEPT !.gone = {Len(rows)}]
      BY DEF Moved
    <2> QED BY <2>1, <2>2, <2>3, <2>4, <2>5
  <1> QED BY <1>2, <1>3 DEF GoneInv

LEMMA OccurrencesAre ==
    ASSUME NEW rs \in Seq(Rows \union {Deleted}), NEW r \in Rows
    PROVE  /\ IsFiniteSet({i \in DOMAIN rs : rs[i] = r}) /\ Occurrences(rs, r) \in Nat
           /\ {i \in DOMAIN rs : rs[i] = r} = {i \in LivePlaces(rs) : rs[i] \in {r}}
  <1>1. {i \in DOMAIN rs : rs[i] = r} = {i \in LivePlaces(rs) : rs[i] \in {r}}
    BY ConstantsType DEF LivePlaces
  <1>2. IsFiniteSet({i \in LivePlaces(rs) : rs[i] \in {r}})
    BY LiveFacts, FS_Subset
  <1> QED BY <1>1, <1>2, FS_CardinalityType DEF Occurrences

LEMMA InitTypeInv == Init => TypeInv
  <1> SUFFICES ASSUME Init PROVE TypeInv
    OBVIOUS
  <1> USE DEF Init
  <1>1. rows \in Seq(Rows \union {Deleted})
    BY OptimizeAssumption DEF OptimizeAssumption, Deleted
  <1>2. /\ stats \in Statistics /\ observed \in Statistics /\ saved \in Statistics \union {NoStats}
        /\ counting \in [GroupSets -> Nat]
    BY StatisticsType
  <1>3. projection.cols \subseteq Columns /\ registered \in [group_set : SUBSET Columns, base_rows : Nat]
    BY DEF NoProjection, Unregistered
  <1>4. optimized \in [order_by : Orders \union {<<>>}, row_count : Nat]
    BY DEF NotOptimized
  <1>5. call \in [Calls -> Holding]
    BY DEF Holding
  <1>6. inserted \in [Rows -> Nat] /\ missed \in [Rows -> Nat]
    BY <1>1, OccurrencesAre
  <1>7. overtaken \in BOOLEAN
    OBVIOUS
  <1>8. queries \in 0 .. MaxQueries /\ restarts \in 0 .. MaxRestarts /\ calls \in [Exported -> Nat]
    BY OptimizeAssumption DEF OptimizeAssumption
  <1>9. GoneInv
    BY DEF GoneInv, Idle
  <1>10. SavedInv /\ HadInv
    BY DEF SavedInv, HadInv, Idle, At
  <1> QED BY <1>1, <1>2, <1>3, <1>4, <1>5, <1>6, <1>7, <1>8, <1>9, <1>10 DEF TypeInv, TypeOK

\* The parts of the type invariant, apart from the calls.
StoreType ==
    /\ rows \in Seq(Rows \union {Deleted})
    /\ projection.cols \subseteq Columns
    /\ saved \in Statistics \union {NoStats}
UsageType == stats \in Statistics /\ observed \in Statistics /\ counting \in [GroupSets -> Nat]
CacheType ==
    /\ registered \in [group_set : SUBSET Columns, base_rows : Nat]
    /\ optimized \in [order_by : Orders \union {<<>>}, row_count : Nat]
HistoryType == inserted \in [Rows -> Nat] /\ missed \in [Rows -> Nat] /\ overtaken \in BOOLEAN
BoundType == queries \in 0 .. MaxQueries /\ calls \in [Exported -> Nat] /\ restarts \in 0 .. MaxRestarts

LEMMA TypeParts ==
    TypeInv <=> /\ StoreType /\ UsageType /\ CacheType /\ HistoryType /\ BoundType
                /\ call \in [Calls -> Holding] /\ GoneInv /\ SavedInv /\ HadInv
  BY DEF TypeInv, TypeOK, StoreType, UsageType, CacheType, HistoryType, BoundType

\* What stays as it was keeps its type.
LEMMA TypeStays ==
    ASSUME TypeInv
    PROVE  /\ UNCHANGED storeVars => StoreType'
           /\ UNCHANGED usageVars => UsageType'
           /\ UNCHANGED cacheVars => CacheType'
           /\ UNCHANGED historyVars => HistoryType'
           /\ UNCHANGED boundVars => BoundType'
           /\ UNCHANGED call => call' \in [Calls -> Holding] /\ GoneInv'
  <1>1. StoreType /\ UsageType /\ CacheType /\ HistoryType /\ BoundType /\ call \in [Calls -> Holding] /\ GoneInv
    BY TypeParts
  <1>2. UNCHANGED storeVars => StoreType'
    BY <1>1 DEF storeVars, StoreType
  <1>3. UNCHANGED cacheVars => CacheType'
    BY <1>1 DEF cacheVars, CacheType
  <1>4. UNCHANGED historyVars => HistoryType'
    BY <1>1 DEF historyVars, HistoryType
  <1>5. UNCHANGED boundVars => BoundType'
    BY <1>1 DEF boundVars, BoundType
  <1>6. UNCHANGED call => call' \in [Calls -> Holding] /\ GoneInv'
    BY <1>1 DEF GoneInv
  <1>7. UNCHANGED usageVars => UsageType'
    BY <1>1 DEF usageVars, UsageType
  <1> QED BY <1>2, <1>3, <1>4, <1>5, <1>6, <1>7

\* A query of q that is counted keeps the types of the statistics.
LEMMA CollectType ==
    ASSUME TypeInv, NEW q \in [filters : SUBSET Columns, groups : SUBSET Columns], CollectStats(q)
    PROVE  UsageType'
  <1>1. UsageType /\ OfColumns(q) \in Statistics
    BY TypeParts, StatisticsType
  <1>2. stats' \in Statistics /\ observed' \in Statistics
    BY <1>1, StatisticsType DEF CollectStats, UsageType
  <1>3. counting' \in [GroupSets -> Nat]
    <2>1. q.groups \in GroupSets \/ q.groups = {}
      BY DEF GroupSets
    <2> QED BY <1>1, <2>1 DEF CollectStats, UsageType
  <1> QED BY <1>2, <1>3 DEF UsageType

LEMMA SavedStep == TypeInv /\ [Next]_vars => SavedInv'
  <1> SUFFICES ASSUME TypeInv, [Next]_vars PROVE SavedInv'
    OBVIOUS
  <1>0. /\ StoreType /\ call \in [Calls -> Holding] /\ SavedInv
    BY TypeParts
  <1> HIDE DEF Holding
  <1>1. ASSUME saved' = saved, \A c \in Calls : call'[c].at = "insert" => call[c].at = "insert"
        PROVE  SavedInv'
    BY <1>0, <1>1 DEF SavedInv, At
  <1>2. ASSUME NEW c \in Calls, NEW l, Goto(c, l), l.at # "insert", saved' = saved
        PROVE  SavedInv'
    BY <1>0, <1>1, <1>2 DEF Goto
  <1>3. ASSUME UNCHANGED <<call, saved>> PROVE SavedInv'
    BY <1>1, <1>3
  <1>4. ASSUME NEW c \in Calls,
               \/ Rank(c) \/ LastOptimize(c) \/ Begin(c) \/ Fail(c) \/ Record(c)
               \/ Pick(c) \/ CopyFails(c) \/ Register(c) \/ Snapshot(c) \/ ReadSaved(c) \/ Load(c)
        PROVE  SavedInv'
    BY <1>2, <1>4 DEF Rank, LastOptimize, Begin, Fail, Record, Pick, CopyFails, Register, Snapshot, ReadSaved,
                      Load, storeVars, Idle
  <1>5. ASSUME NEW c \in Calls, Shape(c) PROVE SavedInv'
    BY <1>2, <1>5 DEF Shape, storeVars
  <1>6. ASSUME NEW c \in Calls, Copy(c) PROVE SavedInv'
    <2>1. call[c] \in [at : {"copy", "register"}, group : GroupSets, gone : SUBSET Nat]
      BY <1>0, <1>6, HeldAt DEF Copy, At
    <2> QED BY <1>2, <1>6, <2>1 DEF Copy
  <1>7. ASSUME NEW c \in Calls, CommitTail(c) \/ CommitFull(c) PROVE SavedInv'
    <2>1. PICK replaced \in BOOLEAN : Moved(c, replaced)
      BY <1>7 DEF CommitTail, CommitFull
    <2>2. ASSUME NEW d \in Calls, call'[d].at = "insert" PROVE call[d].at = "insert"
      <3>1. CASE call[d].at = "transaction"
        <4>1. call[d] \in [at : {"transaction"}, key : Orders, last : Nat, count : Nat, mode : Modes,
                           snap : Seq(Rows \union {Deleted}), inserted : [Rows -> Nat], moved : BOOLEAN]
          BY <1>0, <3>1, HeldAt
        <4> QED BY <2>1, <2>2, <4>1 DEF Moved, At, Steps
      <3>2. CASE call[d].at \in {"copy", "register"}
        <4>1. call[d] \in [at : {"copy", "register"}, group : GroupSets, gone : SUBSET Nat]
          BY <1>0, <3>2, HeldAt
        <4> QED BY <2>1, <2>2, <4>1 DEF Moved, At
      <3> QED BY <2>1, <2>2, <3>1, <3>2 DEF Moved, At, Steps
    <2> QED BY <1>1, <1>7, <2>2 DEF CommitTail, CommitFull
  <1>8. ASSUME NEW c \in Calls, Replace(c) PROVE SavedInv'
    BY <1>8, StatisticsType DEF Replace, SavedInv
  <1>9. ASSUME NEW c \in Calls, InsertStats(c) PROVE SavedInv'
    <2>1. call[c] \in [at : {"replace", "insert", "merge"}, stats : Statistics]
      BY <1>0, <1>9, HeldAt DEF InsertStats, At
    <2>2. saved \in Statistics
      BY <1>0, <1>9 DEF InsertStats, StoreType, SavedInv
    <2> QED BY <1>9, <2>1, <2>2, StatisticsType DEF InsertStats, SavedInv
  <1>10. ASSUME Restart PROVE SavedInv'
    BY <1>10 DEF Restart, SavedInv, At, Idle
  <1>11. ASSUME \/ \E r \in Rows : Insert(r)
                \/ \E q \in Queries : Query(q)
                \/ \E g \in GroupSets : CollectGroupSet(g)
                \/ UNCHANGED vars
         PROVE  SavedInv'
    BY <1>3, <1>11 DEF Insert, Query, CollectGroupSet, vars, storeVars
  <1> QED BY <1>4, <1>5, <1>6, <1>7, <1>8, <1>9, <1>10, <1>11 DEF Next

\* After a step that is not of raw_optimize's transaction, every call at it was
\* there or has just begun.
Begun(l) == l.snap = rows /\ l.inserted = inserted /\ Len(rows) \in Nat
LEMMA TransactionsStay ==
    ASSUME TypeInv, NEW c \in Calls,
           \/ Rank(c) \/ LastOptimize(c) \/ Shape(c) \/ Begin(c) \/ Fail(c) \/ Record(c)
           \/ Pick(c) \/ Copy(c) \/ CopyFails(c) \/ Register(c)
           \/ Snapshot(c) \/ Replace(c) \/ InsertStats(c) \/ ReadSaved(c) \/ Load(c)
    PROVE  /\ rows' = rows /\ inserted' = inserted /\ missed' = missed
           /\ \A d \in Calls : At(d, "transaction")' =>
                 call'[d] = call[d] \/ Begun(call'[d])
  <1>0. call \in [Calls -> Holding] /\ Len(rows) \in Nat
    BY DEF TypeInv, TypeOK
  <1> HIDE DEF Holding
  <1>1. ASSUME NEW l, Goto(c, l), l.at # "transaction" \/ (l.snap = rows /\ l.inserted = inserted)
        PROVE  \A d \in Calls : At(d, "transaction")' =>
                 call'[d] = call[d] \/ Begun(call'[d])
    BY <1>0, <1>1 DEF Goto, At, Begun
  <1>2. CASE Rank(c)
    BY <1>1, <1>2 DEF Rank, storeVars, historyVars
  <1>3. CASE LastOptimize(c)
    BY <1>1, <1>3 DEF LastOptimize, storeVars, historyVars
  <1>4. CASE Shape(c)
    BY <1>1, <1>4 DEF Shape, storeVars, historyVars
  <1>5. CASE Begin(c)
    BY <1>1, <1>5 DEF Begin, storeVars, historyVars
  <1>6. CASE Fail(c)
    BY <1>1, <1>6 DEF Fail, storeVars, historyVars, Idle
  <1>7. CASE Record(c)
    BY <1>1, <1>7 DEF Record, storeVars, historyVars, Idle
  <1>8. CASE Pick(c)
    BY <1>1, <1>8 DEF Pick, storeVars, historyVars
  <1>9. CASE Copy(c)
    <2>1. call[c] \in [at : {"copy", "register"}, group : GroupSets, gone : SUBSET Nat]
      BY <1>0, <1>9, HeldAt DEF Copy, At
    <2> QED BY <1>1, <1>9, <2>1 DEF Copy
  <1>10. CASE Register(c)
    BY <1>1, <1>10 DEF Register, storeVars, historyVars, Idle
  <1>11. CASE Snapshot(c)
    BY <1>1, <1>11 DEF Snapshot, storeVars, historyVars
  <1>12. CASE Replace(c)
    <2>1. call[c] \in [at : {"replace", "insert", "merge"}, stats : Statistics]
      BY <1>0, <1>12, HeldAt DEF Replace, At
    <2> QED BY <1>1, <1>12, <2>1 DEF Replace, historyVars
  <1>13. CASE InsertStats(c)
    BY <1>1, <1>13 DEF InsertStats, historyVars, Idle
  <1>14. CASE CopyFails(c)
    BY <1>1, <1>14 DEF CopyFails, storeVars, historyVars, Idle
  <1>15. CASE ReadSaved(c)
    BY <1>1, <1>15 DEF ReadSaved, storeVars, historyVars
  <1>16. CASE Load(c)
    BY <1>1, <1>16 DEF Load, storeVars, historyVars, Idle
  <1> QED
    BY <1>2, <1>3, <1>4, <1>5, <1>6, <1>7, <1>8, <1>9, <1>10, <1>11, <1>12, <1>13, <1>14, <1>15, <1>16

LEMMA HadStep == TypeInv /\ [Next]_vars => HadInv'
  <1> SUFFICES ASSUME TypeInv, [Next]_vars PROVE HadInv'
    OBVIOUS
  <1>0. call \in [Calls -> Holding] /\ HadInv /\ inserted \in [Rows -> Nat]
    BY DEF TypeInv, TypeOK
  <1> HIDE DEF Holding
  <1>a. ASSUME NEW c \in Calls, At(c, "transaction"), NEW r \in Rows PROVE call[c].inserted[r] \in Nat
    BY <1>0, <1>a, HeldAt DEF At
  <1>1. ASSUME NEW r \in Rows, Insert(r) PROVE HadInv'
    <2>1. call' = call /\ \A q \in Rows : inserted'[q] \in {inserted[q], inserted[q] + 1} /\ inserted[q] \in Nat
      BY <1>0, <1>1 DEF Insert
    <2>2. ASSUME NEW c \in Calls, At(c, "transaction"), NEW q \in Rows PROVE call[c].inserted[q] <= inserted'[q]
      <3>1. call[c].inserted[q] \in Nat /\ call[c].inserted[q] <= inserted[q]
        BY <1>0, <1>a, <2>2 DEF HadInv
      <3> QED BY <2>1, <3>1
    <2> QED BY <2>1, <2>2 DEF HadInv, At
  <1>2. ASSUME NEW c \in Calls,
               \/ Rank(c) \/ LastOptimize(c) \/ Shape(c) \/ Begin(c) \/ Fail(c) \/ Record(c)
               \/ Pick(c) \/ Copy(c) \/ CopyFails(c) \/ Register(c)
               \/ Snapshot(c) \/ Replace(c) \/ InsertStats(c) \/ ReadSaved(c) \/ Load(c)
        PROVE  HadInv'
    <2>1. /\ inserted' = inserted
          /\ \A d \in Calls : At(d, "transaction")' => call'[d] = call[d] \/ Begun(call'[d])
      BY <1>2, TransactionsStay
    <2> QED BY <1>0, <2>1 DEF HadInv, At, Begun
  <1>3. ASSUME NEW c \in Calls, CommitTail(c) \/ CommitFull(c) PROVE HadInv'
    <2>1. inserted' = inserted /\ \E replaced \in BOOLEAN : Moved(c, replaced)
      BY <1>3 DEF CommitTail, CommitFull, historyVars
    <2>2. PICK replaced \in BOOLEAN : Moved(c, replaced)
      BY <2>1
    <2>3. ASSUME NEW d \in Calls, call'[d].at = "transaction"
          PROVE  call[d].at = "transaction" /\ call'[d].inserted = call[d].inserted
      <3>1. CASE call[d].at = "transaction"
        <4>1. call[d] \in [at : {"transaction"}, key : Orders, last : Nat, count : Nat, mode : Modes,
                           snap : Seq(Rows \union {Deleted}), inserted : [Rows -> Nat], moved : BOOLEAN]
          BY <1>0, <3>1, HeldAt
        <4> QED BY <2>2, <2>3, <3>1, <4>1 DEF Moved, At, Steps
      <3>2. CASE call[d].at \in {"copy", "register"}
        <4>1. call[d] \in [at : {"copy", "register"}, group : GroupSets, gone : SUBSET Nat]
          BY <1>0, <3>2, HeldAt
        <4> QED BY <2>2, <2>3, <4>1 DEF Moved, At
      <3> QED BY <2>2, <2>3, <3>1, <3>2 DEF Moved, At, Steps
    <2> QED BY <1>0, <2>1, <2>3 DEF HadInv, At
  <1>4. ASSUME Restart PROVE HadInv'
    BY <1>4 DEF Restart, HadInv, At, Idle
  <1>5. ASSUME (\E q \in Queries : Query(q)) \/ (\E g \in GroupSets : CollectGroupSet(g)) \/ UNCHANGED vars
        PROVE  HadInv'
    BY <1>0, <1>5 DEF HadInv, At, Query, CollectGroupSet, vars, historyVars
  <1> QED BY <1>1, <1>2, <1>3, <1>4, <1>5 DEF Next

LEMMA TypeInvStep == TypeInv /\ [Next]_vars => TypeInv'
  <1> SUFFICES ASSUME TypeInv, [Next]_vars PROVE TypeInv'
    OBVIOUS
  <1>0. /\ StoreType /\ UsageType /\ CacheType /\ HistoryType /\ BoundType
        /\ call \in [Calls -> Holding] /\ GoneInv /\ SavedInv /\ HadInv
    BY TypeParts
  <1>s. SavedInv' /\ HadInv'
    BY SavedStep, HadStep
  <1>p. (StoreType /\ UsageType /\ CacheType /\ HistoryType /\ BoundType)'
        /\ call' \in [Calls -> Holding] /\ GoneInv' => TypeInv'
    BY <1>s DEF TypeInv, TypeOK, StoreType, UsageType, CacheType, HistoryType, BoundType
  <1>e. ASSUME NEW c \in Calls, NEW f \in Exported, Enter(c, f), queries' = queries, restarts' = restarts
        PROVE  BoundType'
    <2>1. calls' \in [Exported -> Nat]
      BY <1>0, <1>e DEF Enter, BoundType
    <2> QED BY <1>0, <1>e, <2>1 DEF BoundType
  <1>1. ASSUME NEW r \in Rows, Insert(r) PROVE TypeInv'
    <2>1. rows' \in Seq(Rows \union {Deleted})
      BY <1>0, <1>1 DEF Insert, StoreType
    <2>2. StoreType'
      BY <1>0, <1>1, <2>1 DEF Insert, StoreType
    <2>3. overtaken' \in BOOLEAN
      BY <1>1 DEF Insert
    <2>4. inserted' \in [Rows -> Nat]
      BY <1>0, <1>1 DEF Insert, HistoryType
    <2>5. HistoryType'
      BY <1>0, <1>1, <2>3, <2>4 DEF Insert, HistoryType
    <2> QED BY <1>1, <1>p, <2>2, <2>5, TypeStays DEF Insert
  <1>2. ASSUME NEW q \in Queries, Query(q) PROVE TypeInv'
    <2>1. q \in [filters : SUBSET Columns, groups : SUBSET Columns]
      BY OptimizeAssumption DEF OptimizeAssumption
    <2>2. UsageType'
      BY <1>2, <2>1, CollectType, TypeStays DEF Query
    <2>4. queries' \in 0 .. MaxQueries
      BY <1>0, <1>2, OptimizeAssumption DEF Query, BoundType, OptimizeAssumption
    <2>5. BoundType'
      BY <1>0, <1>2, <2>4 DEF Query, BoundType
    <2> QED BY <1>2, <1>p, <2>2, <2>5, TypeStays DEF Query
  <1>3. ASSUME NEW c \in Calls, Rank(c) PROVE TypeInv'
    <2>1. BoundType'
      BY <1>3, <1>e DEF Rank, Exported
    <2>2. OrderBy(stats) \in Orders
      BY <1>0, <1>3, OrderByType DEF Rank, UsageType
    <2>3. [at |-> "last", key |-> OrderBy(stats), last |-> 0] \in Holding
      BY <2>2 DEF Holding
    <2>4. call' \in [Calls -> Holding] /\ GoneInv'
      BY <1>3, <2>3, GoesOn DEF Rank
    <2> QED BY <1>3, <1>p, <2>1, <2>4, TypeStays DEF Rank
  <1>4. ASSUME NEW c \in Calls, LastOptimize(c) PROVE TypeInv'
    <2> DEFINE l == [at |-> "shape", key |-> call[c].key,
                     last |-> IF optimized.order_by = call[c].key THEN optimized.row_count ELSE 0]
    <2>1. call[c] \in [at : {"last", "shape"}, key : Orders, last : Nat]
      BY <1>0, <1>4, HeldAt DEF LastOptimize, At
    <2>2. l \in Holding /\ l.at = "shape"
      BY <1>0, <2>1 DEF Holding, CacheType
    <2>3. Goto(c, l)
      BY <1>4 DEF LastOptimize
    <2> HIDE DEF l
    <2>4. call' \in [Calls -> Holding] /\ GoneInv'
      BY <2>2, <2>3, GoesOn
    <2> QED BY <1>4, <1>p, <2>4, TypeStays DEF LastOptimize
  <1>5. ASSUME NEW c \in Calls, Shape(c) PROVE TypeInv'
    <2>1. PICK mode \in Modes, at \in {"record", "begin"} :
             Goto(c, [at |-> at, key |-> call[c].key, last |-> call[c].last,
                      count |-> Cardinality(LivePlaces(rows)), mode |-> mode])
      BY <1>5 DEF Shape, Modes
    <2>2. call[c] \in [at : {"last", "shape"}, key : Orders, last : Nat]
      BY <1>0, <1>5, HeldAt DEF Shape, At
    <2> DEFINE l == [at |-> at, key |-> call[c].key, last |-> call[c].last,
                     count |-> Cardinality(LivePlaces(rows)), mode |-> mode]
    <2>3. Cardinality(LivePlaces(rows)) \in Nat
      BY <1>0, LiveFacts DEF StoreType
    <2>4. l \in Holding /\ l.at \notin {"copy", "register"}
      BY <2>2, <2>3 DEF Holding
    <2> HIDE DEF l
    <2>5. call' \in [Calls -> Holding] /\ GoneInv'
      BY <2>1, <2>4, GoesOn DEF l
    <2> QED BY <1>5, <1>p, <2>5, TypeStays DEF Shape
  <1>6. ASSUME NEW c \in Calls, Begin(c) PROVE TypeInv'
    <2> DEFINE l == [at |-> "transaction", key |-> call[c].key, last |-> call[c].last,
                     count |-> call[c].count, mode |-> call[c].mode, snap |-> rows,
                     inserted |-> inserted, moved |-> FALSE]
    <2>1. call[c] \in [at : {"begin", "record"}, key : Orders, last : Nat, count : Nat, mode : Modes]
      BY <1>0, <1>6, HeldAt DEF Begin, At
    <2>2. l \in Holding /\ l.at = "transaction"
      BY <1>0, <2>1 DEF Holding, StoreType, HistoryType
    <2>3. Goto(c, l)
      BY <1>6 DEF Begin
    <2> HIDE DEF l
    <2>4. call' \in [Calls -> Holding] /\ GoneInv'
      BY <2>2, <2>3, GoesOn
    <2> QED BY <1>6, <1>p, <2>4, TypeStays DEF Begin
  <1>7. ASSUME NEW c \in Calls, CommitTail(c) PROVE TypeInv'
    <2>1. call[c] \in [at : {"transaction"}, key : Orders, last : Nat, count : Nat, mode : Modes,
                       snap : Seq(Rows \union {Deleted}), inserted : [Rows -> Nat], moved : BOOLEAN]
      BY <1>0, <1>7, HeldAt DEF CommitTail, At
    <2>2. TailPlaces(c) \in SUBSET LivePlaces(call[c].snap)
      BY DEF TailPlaces
    <2>3. OrderedBy(call[c].key, Selection(call[c].snap, TailPlaces(c))) \in Seq(Rows \union {Deleted})
      <3>1. OrderedBy(call[c].key, Selection(call[c].snap, TailPlaces(c))) \in Seq(Rows)
        BY <2>1, <2>2, TakenFacts
      <3> QED BY <3>1
    <2>4. [i \in DOMAIN rows |-> IF i \in TailPlaces(c) THEN Deleted ELSE rows[i]] \in Seq(Rows \union {Deleted})
      <3>1. rows \in Seq(Rows \union {Deleted})
        BY <1>0 DEF StoreType
      <3>2. DOMAIN rows = 1 .. Len(rows) /\ Len(rows) \in Nat /\ \A i \in 1 .. Len(rows) : rows[i] \in Rows \union {Deleted}
        BY <3>1
      <3> QED BY <3>2
    <2>5. rows' \in Seq(Rows \union {Deleted})
      BY <1>7, <2>3, <2>4 DEF CommitTail
    <2>6. StoreType'
      BY <1>0, <1>7, <2>5 DEF CommitTail, StoreType
    <2>7. call' \in [Calls -> Holding] /\ GoneInv'
      BY <1>7, CommitMoves DEF CommitTail
    <2> QED BY <1>7, <1>p, <2>6, <2>7, TypeStays DEF CommitTail
  <1>8. ASSUME NEW c \in Calls, CommitFull(c) PROVE TypeInv'
    <2>1. call[c] \in [at : {"transaction"}, key : Orders, last : Nat, count : Nat, mode : Modes,
                       snap : Seq(Rows \union {Deleted}), inserted : [Rows -> Nat], moved : BOOLEAN]
      BY <1>0, <1>8, HeldAt DEF CommitFull, At
    <2>2. rows' \in Seq(Rows)
      BY <1>8, <2>1, TakenFacts DEF CommitFull
    <2>3. rows' \in Seq(Rows \union {Deleted})
      BY <2>2
    <2>4. StoreType'
      BY <1>0, <1>8, <2>3 DEF CommitFull, StoreType
    <2>5. call' \in [Calls -> Holding] /\ GoneInv'
      BY <1>8, CommitMoves DEF CommitFull
    <2>6. HistoryType'
      <3>1. ASSUME NEW r \in Rows PROVE missed[r] + (inserted[r] - call[c].inserted[r]) \in Nat
        <4>1. /\ missed[r] \in Nat /\ inserted[r] \in Nat /\ call[c].inserted[r] \in Nat
              /\ call[c].inserted[r] <= inserted[r]
          BY <1>0, <1>8, <2>1 DEF HistoryType, HadInv, CommitFull
        <4> QED BY <4>1
      <3> QED BY <1>0, <1>8, <3>1 DEF CommitFull, HistoryType
    <2> QED BY <1>8, <1>p, <2>4, <2>5, <2>6, TypeStays DEF CommitFull
  <1>9. ASSUME NEW c \in Calls, Fail(c) PROVE TypeInv'
    <2>1. Idle \in Holding /\ Idle.at = "idle"
      BY DEF Idle, Holding
    <2>2. call' \in [Calls -> Holding] /\ GoneInv'
      BY <1>9, <2>1, GoesOn DEF Fail
    <2> QED BY <1>9, <1>p, <2>2, TypeStays DEF Fail
  <1>10. ASSUME NEW c \in Calls, Record(c) PROVE TypeInv'
    <2>1. Idle \in Holding /\ Idle.at = "idle"
      BY DEF Idle, Holding
    <2>2. call' \in [Calls -> Holding] /\ GoneInv'
      BY <1>10, <2>1, GoesOn DEF Record
    <2>3. call[c] \in [at : {"begin", "record"}, key : Orders, last : Nat, count : Nat, mode : Modes]
      BY <1>0, <1>10, HeldAt DEF Record, At
    <2>4. CacheType'
      BY <1>0, <1>10, <2>3 DEF Record, CacheType
    <2> QED BY <1>10, <1>p, <2>2, <2>4, TypeStays DEF Record
  <1>11. ASSUME NEW c \in Calls, Pick(c) PROVE TypeInv'
    <2>1. BoundType'
      BY <1>11, <1>e DEF Pick, Exported
    <2>2. [at |-> "copy", group |-> Hottest(stats), gone |-> {}] \in Holding
      <3>1. Hottest(stats) \in GroupSets
        BY <1>0, HottestType DEF UsageType
      <3> QED BY <3>1 DEF Holding
    <2>3. call' \in [Calls -> Holding] /\ GoneInv'
      BY <1>11, <2>2, GoesOn DEF Pick
    <2> QED BY <1>11, <1>p, <2>1, <2>3, TypeStays DEF Pick
  <1>12. ASSUME NEW c \in Calls, Copy(c) PROVE TypeInv'
    <2>1. call[c] \in [at : {"copy", "register"}, group : GroupSets, gone : SUBSET Nat]
      BY <1>0, <1>12, HeldAt DEF Copy, At
    <2>2. call[c].group \subseteq Columns
      BY <2>1, ConstantsType
    <2>3. Aggregation(c) \in [filters : SUBSET Columns, groups : SUBSET Columns]
      BY <2>2 DEF Aggregation
    <2>4. UsageType'
      BY <1>12, <2>3, CollectType, TypeStays DEF Copy
    <2>5. overtaken' \in BOOLEAN
      BY <1>0, <1>12 DEF Copy, HistoryType
    <2>6. StoreType'
      <3>1. rows' = rows /\ saved' = saved
        BY <1>12 DEF Copy
      <3>2. \E n : projection' = [cols |-> call[c].group, counts |-> n]
        BY <1>12 DEF Copy
      <3> QED BY <1>0, <2>2, <3>1, <3>2 DEF StoreType
    <2>7. HistoryType'
      BY <1>0, <1>12, <2>5 DEF Copy, HistoryType
    <2> DEFINE l == [call[c] EXCEPT !.at = "register"]
    <2>8. l \in Holding /\ l.gone = call[c].gone
      BY <2>1 DEF Holding
    <2>9. call[c].gone = {} \/ \E n \in Nat : call[c].gone = {n}
      BY <1>0, <1>12 DEF GoneInv, Copy, At
    <2>10. Goto(c, l)
      BY <1>12 DEF Copy
    <2> HIDE DEF l
    <2>11. call' \in [Calls -> Holding] /\ GoneInv'
      BY <2>8, <2>9, <2>10, GoesOn
    <2> QED BY <1>12, <1>p, <2>4, <2>6, <2>7, <2>11, TypeStays DEF Copy
  <1>13. ASSUME NEW c \in Calls, Register(c) PROVE TypeInv'
    <2>1. Idle \in Holding /\ Idle.at = "idle"
      BY DEF Idle, Holding
    <2>2. call' \in [Calls -> Holding] /\ GoneInv'
      BY <1>13, <2>1, GoesOn DEF Register
    <2>3. call[c] \in [at : {"copy", "register"}, group : GroupSets, gone : SUBSET Nat]
      BY <1>0, <1>13, HeldAt DEF Register, At
    <2>4. call[c].group \subseteq Columns
      BY <2>3, ConstantsType
    <2>5. (IF call[c].gone = {} THEN Len(rows) ELSE Max(call[c].gone)) \in Nat
      <3>1. call[c].gone = {} \/ \E n \in Nat : call[c].gone = {n}
        BY <1>0, <1>13 DEF GoneInv, Register, At
      <3>2. Len(rows) \in Nat
        BY <1>0 DEF StoreType
      <3> QED BY <3>1, <3>2, SizeOfGone
    <2>6. CacheType'
      BY <1>0, <1>13, <2>4, <2>5 DEF Register, CacheType
    <2> QED BY <1>13, <1>p, <2>2, <2>6, TypeStays DEF Register
  <1>14. ASSUME NEW c \in Calls, Snapshot(c) PROVE TypeInv'
    <2>1. BoundType'
      BY <1>14, <1>e DEF Snapshot, Exported
    <2>2. [at |-> "replace", stats |-> stats] \in Holding
      BY <1>0 DEF Holding, UsageType
    <2>3. call' \in [Calls -> Holding] /\ GoneInv'
      BY <1>14, <2>2, GoesOn DEF Snapshot
    <2> QED BY <1>14, <1>p, <2>1, <2>3, TypeStays DEF Snapshot
  <1>15. ASSUME NEW c \in Calls, Replace(c) PROVE TypeInv'
    <2>1. call[c] \in [at : {"replace", "insert", "merge"}, stats : Statistics]
      BY <1>0, <1>15, HeldAt DEF Replace, At
    <2> DEFINE l == [call[c] EXCEPT !.at = "insert"]
    <2>2. l \in Holding /\ l.at = "insert"
      BY <2>1 DEF Holding
    <2>3. Goto(c, l)
      BY <1>15 DEF Replace
    <2> HIDE DEF l
    <2>4. call' \in [Calls -> Holding] /\ GoneInv'
      BY <2>2, <2>3, GoesOn
    <2>5. StoreType'
      BY <1>0, <1>15, StatisticsType DEF Replace, StoreType
    <2> QED BY <1>15, <1>p, <2>4, <2>5, TypeStays DEF Replace
  <1>16. ASSUME NEW c \in Calls, InsertStats(c) PROVE TypeInv'
    <2>1. Idle \in Holding /\ Idle.at = "idle"
      BY DEF Idle, Holding
    <2>2. call' \in [Calls -> Holding] /\ GoneInv'
      BY <1>16, <2>1, GoesOn DEF InsertStats
    <2>3. call[c] \in [at : {"replace", "insert", "merge"}, stats : Statistics]
      BY <1>0, <1>16, HeldAt DEF InsertStats, At
    <2>4. saved \in Statistics
      BY <1>0, <1>16 DEF InsertStats, StoreType, SavedInv
    <2>5. saved' \in Statistics
      BY <1>16, <2>3, <2>4, StatisticsType DEF InsertStats
    <2>6. StoreType'
      BY <1>0, <1>16, <2>5 DEF InsertStats, StoreType
    <2>7. UNCHANGED usageVars /\ UNCHANGED cacheVars /\ UNCHANGED historyVars /\ UNCHANGED boundVars
      BY <1>16 DEF InsertStats
    <2> QED BY <1>p, <2>2, <2>6, <2>7, TypeStays
  <1>17. ASSUME NEW c \in Calls, Load(c) PROVE TypeInv'
    <2>1. call[c] \in [at : {"replace", "insert", "merge"}, stats : Statistics]
      BY <1>0, <1>17, HeldAt DEF Load, At
    <2>2. stats' \in Statistics
      BY <1>0, <1>17, <2>1, StatisticsType DEF Load, UsageType
    <2>3. UsageType'
      BY <1>0, <1>17, <2>2 DEF Load, UsageType
    <2>4. Idle \in Holding /\ Idle.at = "idle"
      BY DEF Idle, Holding
    <2>5. call' \in [Calls -> Holding] /\ GoneInv'
      BY <1>17, <2>4, GoesOn DEF Load
    <2> QED BY <1>17, <1>p, <2>3, <2>5, TypeStays DEF Load
  <1>20. ASSUME NEW c \in Calls, CopyFails(c) PROVE TypeInv'
    <2>1. call[c] \in [at : {"copy", "register"}, group : GroupSets, gone : SUBSET Nat]
      BY <1>0, <1>20, HeldAt DEF CopyFails, At
    <2>2. Aggregation(c) \in [filters : SUBSET Columns, groups : SUBSET Columns]
      BY <2>1, ConstantsType DEF Aggregation
    <2>3. UsageType'
      BY <1>20, <2>2, CollectType DEF CopyFails
    <2>4. Idle \in Holding /\ Idle.at = "idle"
      BY DEF Idle, Holding
    <2>5. call' \in [Calls -> Holding] /\ GoneInv'
      BY <1>20, <2>4, GoesOn DEF CopyFails
    <2> QED BY <1>20, <1>p, <2>3, <2>5, TypeStays DEF CopyFails
  <1>21. ASSUME NEW c \in Calls, ReadSaved(c) PROVE TypeInv'
    <2>1. BoundType'
      BY <1>21, <1>e DEF ReadSaved, Exported
    <2>2. [at |-> "merge", stats |-> saved] \in Holding
      <3>1. saved \in Statistics
        BY <1>0, <1>21 DEF ReadSaved, StoreType
      <3> QED BY <3>1 DEF Holding
    <2>3. call' \in [Calls -> Holding] /\ GoneInv'
      BY <1>21, <2>2, GoesOn DEF ReadSaved
    <2> QED BY <1>21, <1>p, <2>1, <2>3, TypeStays DEF ReadSaved
  <1>22. ASSUME NEW g \in GroupSets, CollectGroupSet(g) PROVE TypeInv'
    <2>1. OfSet(g) \in Statistics
      BY StatisticsType
    <2>2. stats' \in Statistics /\ observed' \in Statistics
      BY <1>0, <1>22, <2>1, StatisticsType DEF CollectGroupSet, UsageType
    <2>3. counting' \in [GroupSets -> Nat]
      BY <1>0, <1>22 DEF CollectGroupSet, UsageType
    <2>4. UsageType'
      BY <2>2, <2>3 DEF UsageType
    <2> QED BY <1>22, <1>p, <2>4, TypeStays DEF CollectGroupSet
  <1>18. ASSUME Restart PROVE TypeInv'
    <2>1. CacheType' /\ UsageType'
      BY <1>0, <1>18, StatisticsType DEF Restart, CacheType, UsageType, Unregistered, NotOptimized
    <2>2. call' \in [Calls -> Holding] /\ GoneInv'
      BY <1>18 DEF Restart, Holding, GoneInv, Idle
    <2>3. restarts' \in 0 .. MaxRestarts
      BY <1>0, <1>18, OptimizeAssumption DEF Restart, BoundType, OptimizeAssumption
    <2>4. BoundType'
      BY <1>0, <1>18, <2>3 DEF Restart, BoundType
    <2> QED BY <1>18, <1>p, <2>1, <2>2, <2>4, TypeStays DEF Restart
  <1>19. CASE UNCHANGED vars
    <2>1. UNCHANGED storeVars /\ UNCHANGED usageVars /\ UNCHANGED cacheVars /\ UNCHANGED call /\ UNCHANGED historyVars /\ UNCHANGED boundVars
      BY <1>19 DEF vars
    <2> QED BY <1>p, <2>1, TypeStays
  <1> QED
    BY <1>1, <1>2, <1>3, <1>4, <1>5, <1>6, <1>7, <1>8, <1>9, <1>10, <1>11, <1>12, <1>13,
       <1>14, <1>15, <1>16, <1>17, <1>18, <1>19, <1>20, <1>21, <1>22 DEF Next

LEMMA TypeInvHolds == Spec => []TypeInv
  BY InitTypeInv, TypeInvStep, PTL DEF Spec

\* The table, the statistics, the registered projection, the recorded outcome
\* and what each call of raw_optimize, raw_project, raw_stats_save and
\* raw_stats_load holds between its steps are always what they are meant to be.
THEOREM OptimizeTypeCorrect == Spec => []TypeOK
  <1>1. TypeInv => TypeOK
    BY DEF TypeInv
  <1> QED BY <1>1, TypeInvHolds, PTL

--------------------------------------------------------------------------------
(* The rows *)

LEMMA JoinedAt ==
    ASSUME NEW S, NEW q \in Seq(S), NEW u \in Seq(S)
    PROVE  /\ q \o u \in Seq(S) /\ Len(q \o u) = Len(q) + Len(u)
           /\ \A i \in 1 .. Len(q) : (q \o u)[i] = q[i]
           /\ \A n \in 1 .. Len(u) : (q \o u)[Len(q) + n] = u[n]
  <1> DEFINE j == q \o u
  <1>1. /\ Len(q) \in Nat /\ Len(u) \in Nat
        /\ j \in Seq(S) /\ Len(j) = Len(q) + Len(u)
        /\ \A i \in 1 .. (Len(q) + Len(u)) : j[i] = IF i <= Len(q) THEN q[i] ELSE u[i - Len(q)]
    OBVIOUS
  <1> HIDE DEF j
  <1>2. \A i \in 1 .. Len(q) : i \in 1 .. (Len(q) + Len(u)) /\ i <= Len(q)
    BY <1>1
  <1>3. \A n \in 1 .. Len(u) : /\ Len(q) + n \in 1 .. (Len(q) + Len(u))
                               /\ ~(Len(q) + n <= Len(q)) /\ (Len(q) + n) - Len(q) = n
    BY <1>1
  <1>4. \A n \in 1 .. Len(u) : j[Len(q) + n] = u[n]
    BY <1>1, <1>3
  <1> QED BY <1>1, <1>2, <1>4 DEF j

\* The table rs after the rows of snap at the places P were deleted and inserted
\* again in order.
TailSorted(key, rs, snap, P) ==
    [i \in DOMAIN rs |-> IF i \in P THEN Deleted ELSE rs[i]] \o OrderedBy(key, Selection(snap, P))

\* ts is rs with the places P deleted and as many live rows behind.
TailMoved(ts, rs, P) ==
    /\ Cardinality(P) \in Nat
    /\ ts \in Seq(Rows \union {Deleted}) /\ Len(ts) = Len(rs) + Cardinality(P)
    /\ \A i \in 1 .. Len(rs) : ts[i] = IF i \in P THEN Deleted ELSE rs[i]
    /\ \A n \in 1 .. Cardinality(P) : ts[Len(rs) + n] \in Rows
    /\ SameRows(ts, rs)

LEMMA TailSortedFacts ==
    ASSUME NEW key \in Orders, NEW rs \in Seq(Rows \union {Deleted}), NEW snap \in Seq(Rows \union {Deleted}),
           NEW P \in SUBSET LivePlaces(snap), \A i \in P : i \in DOMAIN rs /\ rs[i] = snap[i]
    PROVE  TailMoved(TailSorted(key, rs, snap, P), rs, P)
  <1> DEFINE C == Cardinality(P)
             L == Len(rs)
             cut == [i \in DOMAIN rs |-> IF i \in P THEN Deleted ELSE rs[i]]
             tail == OrderedBy(key, Selection(snap, P))
             ts == TailSorted(key, rs, snap, P)
  <1>1. L \in Nat /\ DOMAIN rs = 1 .. L /\ \A i \in 1 .. L : rs[i] \in Rows \union {Deleted}
    OBVIOUS
  <1>2. /\ C \in Nat /\ tail \in Seq(Rows) /\ Len(tail) = C
        /\ \E q \in Bijection(1 .. C, P) : \A n \in 1 .. C : tail[n] = snap[q[n]]
    BY TakenFacts
  <1>3. PICK q \in Bijection(1 .. C, P) : \A n \in 1 .. C : tail[n] = snap[q[n]]
    BY <1>2
  <1>4. ts = cut \o tail
    BY DEF TailSorted
  <1> HIDE DEF ts, tail, C
  <1>5. cut \in Seq(Rows \union {Deleted}) /\ Len(cut) = L /\ \A i \in 1 .. L : cut[i] = IF i \in P THEN Deleted ELSE rs[i]
    BY <1>1
  <1>6. tail \in Seq(Rows \union {Deleted}) /\ \A n \in 1 .. C : tail[n] \in Rows
    BY <1>2
  <1> HIDE DEF cut
  <1>7. /\ ts \in Seq(Rows \union {Deleted}) /\ Len(ts) = L + C
        /\ \A i \in 1 .. L : ts[i] = IF i \in P THEN Deleted ELSE rs[i]
        /\ \A n \in 1 .. C : ts[L + n] = tail[n]
    <2> HIDE DEF L
    <2>1. cut \in Seq(Rows \union {Deleted}) /\ tail \in Seq(Rows \union {Deleted})
      BY <1>5, <1>6
    <2>2. cut \o tail \in Seq(Rows \union {Deleted}) /\ Len(cut \o tail) = Len(cut) + Len(tail)
      BY <2>1, JoinedAt
    <2>3. \A i \in 1 .. Len(cut) : (cut \o tail)[i] = cut[i]
      BY <2>1, JoinedAt
    <2>4. \A n \in 1 .. Len(tail) : (cut \o tail)[Len(cut) + n] = tail[n]
      BY <2>1, JoinedAt
    <2> QED BY <1>2, <1>4, <1>5, <2>2, <2>3, <2>4
  <1>8. P \subseteq LivePlaces(rs) /\ \A i \in P : i \in 1 .. L /\ rs[i] # Deleted
    BY <1>1 DEF LivePlaces
  <1>9. \A n \in 1 .. C : q[n] \in P /\ ts[L + n] = rs[q[n]] /\ ts[L + n] \in Rows
    <2>1. \A n \in 1 .. C : q[n] \in P
      BY <1>3 DEF Bijection, Surjection
    <2> QED BY <1>2, <1>3, <1>6, <1>7, <2>1
  <1>10. /\ \A m, n \in 1 .. C : q[m] = q[n] => m = n
         /\ \A i \in P : \E n \in 1 .. C : q[n] = i
    BY <1>3 DEF Bijection, Injection, Surjection, IsInjective
  <1>11. \A j \in LivePlaces(ts) :
            \/ j \in LivePlaces(rs) /\ j \in 1 .. L /\ j \notin P /\ ts[j] = rs[j]
            \/ j > L /\ j - L \in 1 .. C /\ ts[j] = rs[q[j - L]]
    <2> SUFFICES ASSUME NEW j \in LivePlaces(ts)
                 PROVE  \/ j \in LivePlaces(rs) /\ j \in 1 .. L /\ j \notin P /\ ts[j] = rs[j]
                        \/ j > L /\ j - L \in 1 .. C /\ ts[j] = rs[q[j - L]]
      OBVIOUS
    <2>1. j \in 1 .. L + C /\ ts[j] # Deleted
      BY <1>7, LiveFacts DEF LivePlaces
    <2>2. CASE j \in 1 .. L
      BY <1>1, <1>7, <2>1, <2>2 DEF LivePlaces
    <2>3. CASE j > L
      <3>1. j - L \in 1 .. C /\ L + (j - L) = j
        BY <1>1, <1>2, <2>1, <2>3
      <3> QED BY <1>9, <2>3, <3>1
    <2> QED BY <1>1, <1>2, <2>1, <2>2, <2>3
  <1>12. DOMAIN ts = 1 .. L + C
    BY <1>7
  <1> DEFINE f == [j \in LivePlaces(ts) |-> IF j \in 1 .. L THEN j ELSE q[j - L]]
  <1>13. \A j \in LivePlaces(ts) : f[j] \in LivePlaces(rs) /\ rs[f[j]] = ts[j]
    <2> SUFFICES ASSUME NEW j \in LivePlaces(ts) PROVE f[j] \in LivePlaces(rs) /\ rs[f[j]] = ts[j]
      OBVIOUS
    <2>1. CASE j \in 1 .. L
      BY <1>1, <1>11, <2>1
    <2>2. CASE j \notin 1 .. L
      <3>1. j - L \in 1 .. C /\ ts[j] = rs[q[j - L]]
        BY <1>11, <2>2
      <3> QED BY <1>8, <1>9, <2>2, <3>1
    <2> QED BY <2>1, <2>2
  <1>14. \A j, k \in LivePlaces(ts) : f[j] = f[k] => j = k
    <2> SUFFICES ASSUME NEW j \in LivePlaces(ts), NEW k \in LivePlaces(ts), f[j] = f[k] PROVE j = k
      OBVIOUS
    <2>0. j \in 1 .. L + C /\ k \in 1 .. L + C
      BY <1>12 DEF LivePlaces
    <2>1. CASE j \in 1 .. L /\ k \in 1 .. L
      BY <2>1
    <2>2. CASE j \in 1 .. L /\ k \notin 1 .. L
      BY <1>9, <1>11, <2>2
    <2>3. CASE j \notin 1 .. L /\ k \in 1 .. L
      BY <1>9, <1>11, <2>3
    <2>4. CASE j \notin 1 .. L /\ k \notin 1 .. L
      <3>1. j - L \in 1 .. C /\ k - L \in 1 .. C /\ q[j - L] = q[k - L]
        BY <1>11, <2>4
      <3>2. j - L = k - L
        BY <1>10, <3>1
      <3> QED BY <1>1, <1>2, <2>0, <3>2
    <2> QED BY <2>1, <2>2, <2>3, <2>4
  <1>15. \A i \in LivePlaces(rs) : \E j \in LivePlaces(ts) : f[j] = i
    <2> SUFFICES ASSUME NEW i \in LivePlaces(rs) PROVE \E j \in LivePlaces(ts) : f[j] = i
      OBVIOUS
    <2>1. i \in 1 .. L /\ rs[i] # Deleted
      BY <1>1 DEF LivePlaces
    <2>2. CASE i \notin P
      <3>1. i \in LivePlaces(ts)
        BY <1>1, <1>2, <1>7, <1>12, <2>1, <2>2 DEF LivePlaces
      <3> QED BY <2>1, <3>1
    <2>3. CASE i \in P
      <3>1. PICK n \in 1 .. C : q[n] = i
        BY <1>10, <2>3
      <3>2. L + n \in 1 .. L + C /\ L + n \notin 1 .. L /\ (L + n) - L = n
        BY <1>1, <1>2
      <3>3. L + n \in LivePlaces(ts)
        BY <1>9, <1>12, <3>2, ConstantsType DEF LivePlaces
      <3> QED BY <3>1, <3>2, <3>3
    <2> QED BY <2>2, <2>3
  <1>16. f \in Bijection(LivePlaces(ts), LivePlaces(rs))
    <2>1. f \in [LivePlaces(ts) -> LivePlaces(rs)]
      BY <1>13
    <2> HIDE DEF f
    <2> QED BY <1>14, <1>15, <2>1 DEF Bijection, Injection, Surjection, IsInjective
  <1>17. SameRows(ts, rs)
    <2> HIDE DEF f
    <2> QED BY <1>13, <1>16 DEF SameRows
  <1> HIDE DEF L
  <1> QED BY <1>2, <1>7, <1>9, <1>17 DEF TailMoved, ts, C, L

\* A table that is sorted anew holds the live rows of the old.
LEMMA AllSortedFacts ==
    ASSUME NEW key \in Orders, NEW rs \in Seq(Rows \union {Deleted})
    PROVE  /\ OrderedBy(key, Selection(rs, LivePlaces(rs))) \in Seq(Rows)
           /\ Len(OrderedBy(key, Selection(rs, LivePlaces(rs)))) = Cardinality(LivePlaces(rs))
           /\ IsOrdered(key, OrderedBy(key, Selection(rs, LivePlaces(rs))))
           /\ SameRows(OrderedBy(key, Selection(rs, LivePlaces(rs))), rs)
  <1> DEFINE C == Cardinality(LivePlaces(rs))
             ts == OrderedBy(key, Selection(rs, LivePlaces(rs)))
  <1>1. /\ C \in Nat /\ ts \in Seq(Rows) /\ Len(ts) = C /\ IsOrdered(key, ts)
        /\ \E q \in Bijection(1 .. C, LivePlaces(rs)) : \A n \in 1 .. C : ts[n] = rs[q[n]]
    BY TakenFacts
  <1> HIDE DEF ts, C
  <1>2. LivePlaces(ts) = 1 .. C
    BY <1>1, ConstantsType DEF LivePlaces
  <1>3. SameRows(ts, rs)
    BY <1>1, <1>2 DEF SameRows
  <1> QED BY <1>1, <1>3 DEF ts, C

LEMMA SameRowsOccur ==
    ASSUME NEW rs \in Seq(Rows \union {Deleted}), NEW ts \in Seq(Rows \union {Deleted}), SameRows(ts, rs),
           NEW r \in Rows
    PROVE  Occurrences(ts, r) = Occurrences(rs, r)
  <1>1. Cardinality(Holders(ts, {r})) = Cardinality(Holders(rs, {r}))
    BY SameRowsCount
  <1> QED BY <1>1, OccurrencesAre DEF Occurrences, Holders

\* A row that is appended occurs once more.
LEMMA AppendedRow ==
    ASSUME NEW rs \in Seq(Rows \union {Deleted}), NEW s \in Rows, NEW r \in Rows
    PROVE  Occurrences(Append(rs, s), r) = IF r = s THEN Occurrences(rs, r) + 1 ELSE Occurrences(rs, r)
  <1> DEFINE L == Len(rs)
             ts == Append(rs, s)
             S == {i \in DOMAIN rs : rs[i] = r}
             T == {i \in DOMAIN ts : ts[i] = r}
  <1>1. /\ L \in Nat /\ DOMAIN rs = 1 .. L /\ DOMAIN ts = 1 .. L + 1
        /\ \A i \in 1 .. L : ts[i] = rs[i]
        /\ ts[L + 1] = s
    OBVIOUS
  <1> HIDE DEF ts, L
  <1>2. IsFiniteSet(S) /\ Cardinality(S) \in Nat
    BY OccurrencesAre DEF Occurrences
  <1>3. CASE r = s
    <2>1. T = S \union {L + 1} /\ L + 1 \notin S
      BY <1>1, <1>3
    <2> HIDE DEF S, T
    <2>2. Cardinality(T) = Cardinality(S) + 1
      BY <1>2, <2>1, FS_AddElement
    <2> QED BY <1>3, <2>2 DEF Occurrences, S, T, ts
  <1>4. CASE r # s
    <2>1. T = S
      BY <1>1, <1>4
    <2> QED BY <1>4, <2>1 DEF Occurrences, S, T, ts
  <1> QED BY <1>3, <1>4

\* Until another call replaces the table, the snapshot of a transaction is what
\* the table was: only deletions have happened to its places since.
SnapInv ==
    \A c \in Calls : At(c, "transaction") /\ ~call[c].moved =>
        /\ Len(call[c].snap) <= Len(rows)
        /\ \A i \in 1 .. Len(call[c].snap) : rows[i] = call[c].snap[i] \/ rows[i] = Deleted

\* A step that leaves the table alone.
LEMMA SnapStays ==
    ASSUME TypeInv, SnapInv, rows' = rows,
           \A c \in Calls : At(c, "transaction")' =>
               call'[c] = call[c] \/ Begun(call'[c])
    PROVE  SnapInv'
  <1> SUFFICES ASSUME NEW c \in Calls, At(c, "transaction")', ~call'[c].moved
               PROVE  /\ Len(call'[c].snap) <= Len(rows')
                      /\ \A i \in 1 .. Len(call'[c].snap) : rows'[i] = call'[c].snap[i] \/ rows'[i] = Deleted
    BY DEF SnapInv
  <1>1. CASE call'[c] = call[c]
    BY <1>1 DEF SnapInv, At
  <1>2. CASE Begun(call'[c])
    BY <1>2 DEF Begun
  <1> QED BY <1>1, <1>2

\* What the transaction of a call reads and what the others lose by its COMMIT.
LEMMA CommitFacts ==
    ASSUME TypeInv, SnapInv, NEW c \in Calls, At(c, "transaction"), ~call[c].moved
    PROVE  /\ call[c].key \in Orders /\ call[c].snap \in Seq(Rows \union {Deleted})
           /\ call[c].last \in Nat /\ call[c].count \in Nat /\ call[c].mode \in Modes
           /\ rows \in Seq(Rows \union {Deleted})
           /\ \A i \in LivePlaces(call[c].snap) : i \in DOMAIN rows /\ (rows[i] = call[c].snap[i] \/ rows[i] = Deleted)
  <1>1. call[c] \in [at : {"transaction"}, key : Orders, last : Nat, count : Nat, mode : Modes,
                     snap : Seq(Rows \union {Deleted}), inserted : [Rows -> Nat], moved : BOOLEAN]
    BY HeldAt DEF TypeInv, TypeOK, At
  <1>2. call[c].key \in Orders /\ call[c].snap \in Seq(Rows \union {Deleted})
        /\ call[c].last \in Nat /\ call[c].count \in Nat /\ call[c].mode \in Modes
    BY <1>1
  <1>3. rows \in Seq(Rows \union {Deleted})
    BY DEF TypeInv, TypeOK
  <1>4. \A i \in LivePlaces(call[c].snap) : i \in DOMAIN rows /\ (rows[i] = call[c].snap[i] \/ rows[i] = Deleted)
    <2>1. /\ Len(call[c].snap) \in Nat /\ Len(rows) \in Nat /\ DOMAIN rows = 1 .. Len(rows)
          /\ LivePlaces(call[c].snap) \subseteq 1 .. Len(call[c].snap)
      BY <1>2, <1>3, LiveFacts
    <2> QED BY <2>1 DEF SnapInv
  <1> QED BY <1>2, <1>3, <1>4

\* The table that CommitTail leaves.
LEMMA CommitTailRows ==
    ASSUME TypeInv, SnapInv, NEW c \in Calls, CommitTail(c)
    PROVE  TailPlaces(c) \in SUBSET LivePlaces(call[c].snap) /\ TailMoved(rows', rows, TailPlaces(c))
           /\ TailPlaces(c) \subseteq DOMAIN rows
  <1>1. TailPlaces(c) \in SUBSET LivePlaces(call[c].snap)
    BY DEF TailPlaces
  <1>2. At(c, "transaction") /\ ~call[c].moved
    BY DEF CommitTail
  <1>3. /\ call[c].key \in Orders /\ call[c].snap \in Seq(Rows \union {Deleted})
        /\ rows \in Seq(Rows \union {Deleted})
    BY <1>2, CommitFacts
  <1>4. \A i \in TailPlaces(c) : i \in DOMAIN rows /\ rows[i] = call[c].snap[i]
    BY <1>1, <1>2, CommitFacts DEF CommitTail
  <1>5. rows' = TailSorted(call[c].key, rows, call[c].snap, TailPlaces(c))
    BY DEF CommitTail, TailSorted
  <1>6. TailMoved(TailSorted(call[c].key, rows, call[c].snap, TailPlaces(c)), rows, TailPlaces(c))
    BY <1>1, <1>3, <1>4, TailSortedFacts
  <1> QED BY <1>1, <1>4, <1>5, <1>6

\* Every transaction that is still good after a COMMIT was there before, and the
\* table was not replaced.
LEMMA CommitLeaves ==
    ASSUME TypeInv, NEW c \in Calls, NEW replaced \in BOOLEAN, At(c, "transaction"), Moved(c, replaced),
           NEW d \in Calls, call'[d].at = "transaction", ~call'[d].moved
    PROVE  d # c /\ call'[d] = call[d] /\ ~replaced
  <1>0. call \in [Calls -> Holding]
    BY DEF TypeInv, TypeOK
  <1>1. call'[d] = IF d = c THEN [at |-> "record", key |-> call[c].key, last |-> call[c].last,
                                  count |-> call[c].count, mode |-> call[c].mode]
                   ELSE IF ~replaced THEN call[d]
                   ELSE IF At(d, "transaction") THEN [call[d] EXCEPT !.moved = TRUE]
                   ELSE IF call[d].at \in Steps("project") /\ call[d].gone = {}
                        THEN [call[d] EXCEPT !.gone = {Len(rows)}]
                   ELSE call[d]
    BY DEF Moved
  <1>2. d # c
    BY <1>1
  <1>3. CASE At(d, "transaction") /\ replaced
    <2>1. call[d] \in [at : {"transaction"}, key : Orders, last : Nat, count : Nat, mode : Modes,
                       snap : Seq(Rows \union {Deleted}), inserted : [Rows -> Nat], moved : BOOLEAN]
      BY <1>0, <1>3, HeldAt DEF At
    <2> QED BY <1>1, <1>2, <1>3, <2>1
  <1>4. CASE call[d].at \in Steps("project") /\ replaced
    <2>1. call[d] \in [at : {"copy", "register"}, group : GroupSets, gone : SUBSET Nat]
      BY <1>0, <1>4, HeldAt DEF Steps
    <2>2. call[d].at # "transaction"
      BY <2>1
    <2>3. call'[d].at # "transaction"
      BY <1>1, <1>2, <1>4, <2>1, <2>2 DEF At
    <2> QED BY <2>3
  <1> QED BY <1>1, <1>2, <1>3, <1>4 DEF At

LEMMA SnapInvStep == TypeInv /\ SnapInv /\ [Next]_vars => SnapInv'
  <1> SUFFICES ASSUME TypeInv, SnapInv, [Next]_vars PROVE SnapInv'
    OBVIOUS
  <1>0. rows \in Seq(Rows \union {Deleted}) /\ call \in [Calls -> Holding] /\ Len(rows) \in Nat
    BY DEF TypeInv, TypeOK
  <1> HIDE DEF Holding
  <1>1. ASSUME NEW r \in Rows, Insert(r) PROVE SnapInv'
    <2>1. call' = call
      BY <1>1 DEF Insert
    <2>2. rows' = Append(rows, r)
      BY <1>1 DEF Insert
    <2>3. Len(rows') = Len(rows) + 1 /\ \A i \in 1 .. Len(rows) : rows'[i] = rows[i]
      BY <1>0, <2>2
    <2> SUFFICES ASSUME NEW c \in Calls, call[c].at = "transaction", ~call[c].moved
                 PROVE  /\ Len(call[c].snap) <= Len(rows')
                        /\ \A i \in 1 .. Len(call[c].snap) : rows'[i] = call[c].snap[i] \/ rows'[i] = Deleted
      BY <2>1 DEF SnapInv, At
    <2>4. /\ Len(call[c].snap) <= Len(rows) /\ Len(call[c].snap) \in Nat
          /\ \A i \in 1 .. Len(call[c].snap) : rows[i] = call[c].snap[i] \/ rows[i] = Deleted
      BY CommitFacts DEF SnapInv, At
    <2>5. \A i \in 1 .. Len(call[c].snap) : i \in 1 .. Len(rows)
      BY <1>0, <2>4
    <2> QED BY <1>0, <2>3, <2>4, <2>5
  <1>2. ASSUME NEW c \in Calls,
               \/ Rank(c) \/ LastOptimize(c) \/ Shape(c) \/ Begin(c) \/ Fail(c) \/ Record(c)
               \/ Pick(c) \/ Copy(c) \/ CopyFails(c) \/ Register(c)
               \/ Snapshot(c) \/ Replace(c) \/ InsertStats(c) \/ ReadSaved(c) \/ Load(c)
        PROVE  SnapInv'
    BY <1>2, SnapStays, TransactionsStay
  <1>3. ASSUME NEW c \in Calls, CommitTail(c) PROVE SnapInv'
    <2>1. At(c, "transaction") /\ ~call[c].moved /\ Moved(c, FALSE)
      BY <1>3 DEF CommitTail
    <2>4. /\ Cardinality(TailPlaces(c)) \in Nat /\ Len(rows') = Len(rows) + Cardinality(TailPlaces(c))
          /\ \A i \in 1 .. Len(rows) : rows'[i] = rows[i] \/ rows'[i] = Deleted
      <3>1. TailMoved(rows', rows, TailPlaces(c))
        BY <1>3, CommitTailRows
      <3> QED BY <3>1 DEF TailMoved
    <2> SUFFICES ASSUME NEW d \in Calls, call'[d].at = "transaction", ~call'[d].moved
                 PROVE  /\ Len(call'[d].snap) <= Len(rows')
                        /\ \A i \in 1 .. Len(call'[d].snap) : rows'[i] = call'[d].snap[i] \/ rows'[i] = Deleted
      BY DEF SnapInv, At
    <2>5. call'[d] = call[d]
      BY <2>1, CommitLeaves
    <2>6. /\ Len(call[d].snap) <= Len(rows) /\ Len(call[d].snap) \in Nat
          /\ \A i \in 1 .. Len(call[d].snap) : rows[i] = call[d].snap[i] \/ rows[i] = Deleted
      BY <2>5, CommitFacts DEF SnapInv, At
    <2>7. \A i \in 1 .. Len(call[d].snap) : i \in 1 .. Len(rows)
      BY <1>0, <2>6
    <2>8. Len(call[d].snap) <= Len(rows')
      BY <1>0, <2>4, <2>6
    <2>9. \A i \in 1 .. Len(call[d].snap) : rows'[i] = call[d].snap[i] \/ rows'[i] = Deleted
      BY <2>4, <2>6, <2>7
    <2> QED BY <2>5, <2>8, <2>9
  <1>4. ASSUME NEW c \in Calls, CommitFull(c) PROVE SnapInv'
    <2>1. At(c, "transaction") /\ Moved(c, TRUE)
      BY <1>4 DEF CommitFull
    <2> QED BY <2>1, CommitLeaves DEF SnapInv, At
  <1>5. ASSUME Restart PROVE SnapInv'
    BY <1>5 DEF Restart, SnapInv, At, Idle
  <1>6. ASSUME (\E q \in Queries : Query(q)) \/ (\E g \in GroupSets : CollectGroupSet(g)) \/ UNCHANGED vars
        PROVE  SnapInv'
    <2>1. rows' = rows /\ call' = call
      BY <1>6 DEF Query, CollectGroupSet, vars, storeVars
    <2> QED BY <2>1, SnapStays
  <1> QED BY <1>1, <1>2, <1>3, <1>4, <1>5, <1>6 DEF Next

LEMMA InitSnapInv == Init => SnapInv
  BY DEF Init, SnapInv, At, Idle

LEMMA SnapInvHolds == Spec => [](TypeInv /\ SnapInv)
  BY InitTypeInv, InitSnapInv, TypeInvStep, SnapInvStep, PTL DEF Spec

\* What was inserted and not missed is in the table, and was in the snapshot of
\* every transaction that may still commit.
KeptInv ==
    /\ RowsKept
    /\ \A c \in Calls : At(c, "transaction") /\ ~call[c].moved =>
          \A r \in Rows : Occurrences(call[c].snap, r) + missed[r] = call[c].inserted[r]

LEMMA KeptStays ==
    ASSUME KeptInv, rows' = rows, inserted' = inserted, missed' = missed,
           \A c \in Calls : At(c, "transaction")' => call'[c] = call[c] \/ Begun(call'[c])
    PROVE  KeptInv'
  <1>1. RowsKept'
    BY DEF KeptInv, RowsKept
  <1>2. ASSUME NEW c \in Calls, call'[c].at = "transaction", ~call'[c].moved, NEW r \in Rows
        PROVE  Occurrences(call'[c].snap, r) + missed'[r] = call'[c].inserted[r]
    <2>1. CASE call'[c] = call[c]
      BY <1>2, <2>1 DEF KeptInv, At
    <2>2. CASE Begun(call'[c])
      BY <1>2, <2>2 DEF KeptInv, RowsKept, Begun
    <2> QED BY <1>2, <2>1, <2>2 DEF At
  <1> QED BY <1>1, <1>2 DEF KeptInv, At

LEMMA KeptInvStep == TypeInv /\ SnapInv /\ KeptInv /\ [Next]_vars => KeptInv'
  <1> SUFFICES ASSUME TypeInv, SnapInv, KeptInv, [Next]_vars PROVE KeptInv'
    OBVIOUS
  <1>0. /\ rows \in Seq(Rows \union {Deleted}) /\ inserted \in [Rows -> Nat] /\ missed \in [Rows -> Nat]
        /\ call \in [Calls -> Holding]
    BY DEF TypeInv, TypeOK
  <1> HIDE DEF Holding
  <1>1. ASSUME NEW r \in Rows, Insert(r) PROVE KeptInv'
    <2>1. rows' = Append(rows, r) /\ inserted' = [inserted EXCEPT ![r] = @ + 1] /\ UNCHANGED <<missed, call>>
      BY <1>1 DEF Insert
    <2>2. ASSUME NEW s \in Rows PROVE Occurrences(rows', s) + missed'[s] = inserted'[s]
      <3>1. Occurrences(rows', s) = IF s = r THEN Occurrences(rows, s) + 1 ELSE Occurrences(rows, s)
        BY <1>0, <2>1, AppendedRow
      <3>2. inserted'[s] = IF s = r THEN inserted[s] + 1 ELSE inserted[s]
        BY <1>0, <2>1
      <3>3. /\ Occurrences(rows, s) + missed[s] = inserted[s] /\ Occurrences(rows, s) \in Nat
            /\ missed'[s] = missed[s] /\ missed[s] \in Nat /\ inserted[s] \in Nat
        BY <1>0, <2>1, OccurrencesAre DEF KeptInv, RowsKept
      <3> QED BY <3>1, <3>2, <3>3
    <2> QED BY <2>1, <2>2 DEF KeptInv, RowsKept, At
  <1>2. ASSUME NEW c \in Calls,
               \/ Rank(c) \/ LastOptimize(c) \/ Shape(c) \/ Begin(c) \/ Fail(c) \/ Record(c)
               \/ Pick(c) \/ Copy(c) \/ CopyFails(c) \/ Register(c)
               \/ Snapshot(c) \/ Replace(c) \/ InsertStats(c) \/ ReadSaved(c) \/ Load(c)
        PROVE  KeptInv'
    BY <1>2, KeptStays, TransactionsStay
  <1>3. ASSUME NEW c \in Calls, CommitTail(c) PROVE KeptInv'
    <2>1. rows' \in Seq(Rows \union {Deleted}) /\ SameRows(rows', rows)
      BY <1>3, CommitTailRows DEF TailMoved
    <2>2. inserted' = inserted /\ missed' = missed /\ At(c, "transaction") /\ Moved(c, FALSE)
      BY <1>3 DEF CommitTail, historyVars
    <2>3. \A r \in Rows : Occurrences(rows', r) = Occurrences(rows, r)
      BY <1>0, <2>1, SameRowsOccur
    <2>4. RowsKept'
      BY <2>2, <2>3 DEF KeptInv, RowsKept
    <2>5. ASSUME NEW d \in Calls, call'[d].at = "transaction", ~call'[d].moved PROVE call'[d] = call[d]
      BY <2>2, <2>5, CommitLeaves
    <2> QED BY <2>2, <2>4, <2>5 DEF KeptInv, At
  <1>4. ASSUME NEW c \in Calls, CommitFull(c) PROVE KeptInv'
    <2>1. At(c, "transaction") /\ ~call[c].moved /\ Moved(c, TRUE)
      BY <1>4 DEF CommitFull
    <2>2. call[c].key \in Orders /\ call[c].snap \in Seq(Rows \union {Deleted})
      BY <2>1, CommitFacts
    <2>3. rows' = OrderedBy(call[c].key, Selection(call[c].snap, LivePlaces(call[c].snap)))
      BY <1>4 DEF CommitFull
    <2>4. rows' \in Seq(Rows) /\ SameRows(rows', call[c].snap)
      BY <2>2, <2>3, AllSortedFacts
    <2>5. rows' \in Seq(Rows \union {Deleted})
      BY <2>4
    <2>6. ASSUME NEW r \in Rows PROVE Occurrences(rows', r) + missed'[r] = inserted'[r]
      <3>1. Occurrences(rows', r) = Occurrences(call[c].snap, r) /\ Occurrences(rows', r) \in Nat
        BY <2>2, <2>4, <2>5, SameRowsOccur, OccurrencesAre
      <3>2. Occurrences(call[c].snap, r) + missed[r] = call[c].inserted[r]
        BY <2>1 DEF KeptInv
      <3>3. missed'[r] = missed[r] + (inserted[r] - call[c].inserted[r]) /\ inserted' = inserted
        BY <1>4 DEF CommitFull
      <3>4. missed[r] \in Nat /\ inserted[r] \in Nat /\ call[c].inserted[r] \in Nat
        <4>1. call[c] \in [at : {"transaction"}, key : Orders, last : Nat, count : Nat, mode : Modes,
                           snap : Seq(Rows \union {Deleted}), inserted : [Rows -> Nat], moved : BOOLEAN]
          BY <1>0, <2>1, HeldAt DEF At
        <4> QED BY <1>0, <4>1
      <3> QED BY <3>1, <3>2, <3>3, <3>4
    <2>7. \A d \in Calls : ~(call'[d].at = "transaction" /\ ~call'[d].moved)
      BY <2>1, CommitLeaves
    <2> QED BY <2>6, <2>7 DEF KeptInv, RowsKept, At
  <1>5. ASSUME Restart PROVE KeptInv'
    BY <1>5 DEF Restart, KeptInv, RowsKept, At, Idle, storeVars, historyVars
  <1>6. ASSUME (\E q \in Queries : Query(q)) \/ (\E g \in GroupSets : CollectGroupSet(g)) \/ UNCHANGED vars
        PROVE  KeptInv'
    <2>1. UNCHANGED <<rows, inserted, missed, call>>
      BY <1>6 DEF Query, CollectGroupSet, vars, storeVars, historyVars
    <2> QED BY <2>1, KeptStays
  <1> QED BY <1>1, <1>2, <1>3, <1>4, <1>5, <1>6 DEF Next

\* The transactions of raw_optimize repeat no row and lose none, whatever is
\* appended or rewritten between their snapshot and their COMMIT, but for the rows
\* that are committed while the transaction of a full rewrite is open, when DROP
\* TABLE does not conflict with them.
THEOREM OptimizeKeepsRows == Spec => []RowsKept
  <1>1. Init => KeptInv
    <2> SUFFICES ASSUME Init PROVE KeptInv
      OBVIOUS
    <2>1. rows \in Seq(Rows \union {Deleted})
      BY InitTypeInv DEF TypeInv, TypeOK
    <2>2. \A r \in Rows : Occurrences(rows, r) + missed[r] = inserted[r]
      <3>1. ASSUME NEW r \in Rows
            PROVE  Occurrences(rows, r) \in Nat /\ missed[r] = 0 /\ inserted[r] = Occurrences(rows, r)
        BY <2>1, OccurrencesAre DEF Init
      <3> QED BY <3>1
    <2> QED BY <2>2 DEF Init, KeptInv, RowsKept, At, Idle
  <1>2. KeptInv => RowsKept
    BY DEF KeptInv
  <1> QED BY <1>1, <1>2, KeptInvStep, SnapInvHolds, PTL DEF Spec

--------------------------------------------------------------------------------
(* The statistics *)

LEMMA Counts ==
    ASSUME NEW s \in Statistics
    PROVE  /\ \A c \in Columns : s.usage[c].filters \in Nat /\ s.usage[c].groups \in Nat
           /\ \A g \in GroupSets : s.sets[g] \in Nat
  BY DEF Statistics

LEMMA AddedCounts ==
    ASSUME NEW s \in Statistics, NEW t \in Statistics
    PROVE  /\ \A c \in Columns : /\ Add(s, t).usage[c].filters = s.usage[c].filters + t.usage[c].filters
                                 /\ Add(s, t).usage[c].groups = s.usage[c].groups + t.usage[c].groups
           /\ \A g \in GroupSets : Add(s, t).sets[g] = s.sets[g] + t.sets[g]
  BY DEF Add

LEMMA NoCounts ==
    /\ \A c \in Columns : ZeroStats.usage[c].filters = 0 /\ ZeroStats.usage[c].groups = 0
    /\ \A g \in GroupSets : ZeroStats.sets[g] = 0
  BY DEF ZeroStats

\* Nothing is counted that the right side has not, whatever is added to both sides,
\* to the right side, or from within it.
LEMMA WithinAdded ==
    ASSUME NEW s \in Statistics, NEW t \in Statistics, NEW u \in Statistics, Within(s, t)
    PROVE  /\ Within(Add(s, u), Add(t, u))
           /\ Within(s, Add(t, u))
           /\ Within(u, t) => Within(Add(s, u), t)
           /\ Within(ZeroStats, t)
  <1>1. ASSUME NEW c \in Columns
        PROVE  /\ s.usage[c].filters \in Nat /\ t.usage[c].filters \in Nat /\ u.usage[c].filters \in Nat
               /\ s.usage[c].groups \in Nat /\ t.usage[c].groups \in Nat /\ u.usage[c].groups \in Nat
    BY Counts
  <1>2. ASSUME NEW g \in GroupSets
        PROVE  s.sets[g] \in Nat /\ t.sets[g] \in Nat /\ u.sets[g] \in Nat
    BY Counts
  <1>3. Within(Add(s, u), Add(t, u))
    <2>1. ASSUME NEW c \in Columns
          PROVE  /\ Add(s, u).usage[c].filters > 0 => Add(t, u).usage[c].filters > 0
                 /\ Add(s, u).usage[c].groups > 0 => Add(t, u).usage[c].groups > 0
      <3>1. /\ s.usage[c].filters > 0 => t.usage[c].filters > 0
            /\ s.usage[c].groups > 0 => t.usage[c].groups > 0
        BY DEF Within
      <3>2. /\ Add(s, u).usage[c].filters = s.usage[c].filters + u.usage[c].filters
            /\ Add(t, u).usage[c].filters = t.usage[c].filters + u.usage[c].filters
            /\ Add(s, u).usage[c].groups = s.usage[c].groups + u.usage[c].groups
            /\ Add(t, u).usage[c].groups = t.usage[c].groups + u.usage[c].groups
        BY AddedCounts
      <3> QED BY <1>1, <3>1, <3>2
    <2>2. ASSUME NEW g \in GroupSets
          PROVE  Add(s, u).sets[g] > 0 => Add(t, u).sets[g] > 0
      <3>1. /\ s.sets[g] > 0 => t.sets[g] > 0
            /\ Add(s, u).sets[g] = s.sets[g] + u.sets[g]
            /\ Add(t, u).sets[g] = t.sets[g] + u.sets[g]
        BY AddedCounts DEF Within
      <3> QED BY <1>2, <3>1
    <2> QED BY <2>1, <2>2 DEF Within
  <1>4. Within(s, Add(t, u))
    <2>1. ASSUME NEW c \in Columns
          PROVE  /\ s.usage[c].filters > 0 => Add(t, u).usage[c].filters > 0
                 /\ s.usage[c].groups > 0 => Add(t, u).usage[c].groups > 0
      <3>1. /\ s.usage[c].filters > 0 => t.usage[c].filters > 0
            /\ s.usage[c].groups > 0 => t.usage[c].groups > 0
        BY DEF Within
      <3>2. /\ Add(t, u).usage[c].filters = t.usage[c].filters + u.usage[c].filters
            /\ Add(t, u).usage[c].groups = t.usage[c].groups + u.usage[c].groups
        BY AddedCounts
      <3> QED BY <1>1, <3>1, <3>2
    <2>2. ASSUME NEW g \in GroupSets
          PROVE  s.sets[g] > 0 => Add(t, u).sets[g] > 0
      <3>1. /\ s.sets[g] > 0 => t.sets[g] > 0
            /\ Add(t, u).sets[g] = t.sets[g] + u.sets[g]
        BY AddedCounts DEF Within
      <3> QED BY <1>2, <3>1
    <2> QED BY <2>1, <2>2 DEF Within
  <1>5. Within(u, t) => Within(Add(s, u), t)
    <2> SUFFICES ASSUME Within(u, t) PROVE Within(Add(s, u), t)
      OBVIOUS
    <2>1. ASSUME NEW c \in Columns
          PROVE  /\ Add(s, u).usage[c].filters > 0 => t.usage[c].filters > 0
                 /\ Add(s, u).usage[c].groups > 0 => t.usage[c].groups > 0
      <3>1. /\ s.usage[c].filters > 0 \/ u.usage[c].filters > 0 => t.usage[c].filters > 0
            /\ s.usage[c].groups > 0 \/ u.usage[c].groups > 0 => t.usage[c].groups > 0
        BY DEF Within
      <3>2. /\ Add(s, u).usage[c].filters = s.usage[c].filters + u.usage[c].filters
            /\ Add(s, u).usage[c].groups = s.usage[c].groups + u.usage[c].groups
        BY AddedCounts
      <3> QED BY <1>1, <3>1, <3>2
    <2>2. ASSUME NEW g \in GroupSets
          PROVE  Add(s, u).sets[g] > 0 => t.sets[g] > 0
      <3>1. /\ s.sets[g] > 0 \/ u.sets[g] > 0 => t.sets[g] > 0
            /\ Add(s, u).sets[g] = s.sets[g] + u.sets[g]
        BY AddedCounts DEF Within
      <3> QED BY <1>2, <3>1
    <2> QED BY <2>1, <2>2 DEF Within
  <1>6. Within(ZeroStats, t)
    BY NoCounts DEF Within
  <1> QED BY <1>3, <1>4, <1>5, <1>6

\* Adding up what agrees, or one query's columns, agrees.
LEMMA AgreesAdded ==
    ASSUME NEW s \in Statistics, NEW t \in Statistics, Agrees(s)
    PROVE  /\ Agrees(t) => Agrees(Add(s, t))
           /\ Agrees(ZeroStats)
  <1>0. \A g \in GroupSets : \A c \in g : c \in Columns
    BY ConstantsType
  <1>1. ASSUME NEW g \in GroupSets, NEW c \in g, Agrees(t)
        PROVE  Add(s, t).sets[g] <= Add(s, t).usage[c].groups
    <2>1. /\ s.sets[g] <= s.usage[c].groups /\ t.sets[g] <= t.usage[c].groups
          /\ s.sets[g] \in Nat /\ t.sets[g] \in Nat /\ s.usage[c].groups \in Nat /\ t.usage[c].groups \in Nat
      BY <1>0, <1>1, Counts DEF Agrees
    <2>2. /\ Add(s, t).sets[g] = s.sets[g] + t.sets[g]
          /\ Add(s, t).usage[c].groups = s.usage[c].groups + t.usage[c].groups
      BY <1>0, AddedCounts
    <2> QED BY <2>1, <2>2
  <1>2. Agrees(ZeroStats)
    BY <1>0, NoCounts DEF Agrees
  <1> QED BY <1>1, <1>2 DEF Agrees

\* Statistics that were observed, as far as they may say.
Sound(s) == Within(s, observed) /\ Agrees(s)

\* What the calls hold was observed too.
HeldInv == \A c \in Calls : call[c].at \in {"replace", "insert", "merge"} => Sound(call[c].stats)
\* A query is counted by its columns before it is counted by the set of them.
CountingInv == \A g \in GroupSets : \A c \in g : stats.sets[g] + counting[g] <= stats.usage[c].groups
UsageInv == UsageIsObserved /\ HeldInv /\ CountingInv

LEMMA InitUsageInv == Init => UsageInv
  <1> SUFFICES ASSUME Init PROVE UsageInv
    OBVIOUS
  <1>1. /\ stats = ZeroStats /\ observed = ZeroStats /\ saved = NoStats
        /\ \A g \in GroupSets : counting[g] = 0
    BY DEF Init
  <1>2. \A g \in GroupSets : \A c \in g : c \in Columns
    BY ConstantsType
  <1>3. Within(ZeroStats, ZeroStats) /\ Agrees(ZeroStats)
    BY <1>2, NoCounts DEF Within, Agrees
  <1>4. CountingInv
    BY <1>1, <1>2, NoCounts DEF CountingInv
  <1>5. HeldInv
    BY DEF Init, HeldInv, Idle
  <1> QED BY <1>1, <1>3, <1>4, <1>5 DEF UsageInv, UsageIsObserved

\* A step that changes no statistics, and no call's.
LEMMA UsageStays ==
    ASSUME TypeInv, UsageInv, UNCHANGED <<saved, usageVars>>,
           \A c \in Calls : call'[c].at \in {"replace", "insert", "merge"} =>
               call'[c] = call[c] \/ Sound(call'[c].stats)
    PROVE  UsageInv'
  <1>1. UNCHANGED <<stats, counting, observed>>
    BY DEF usageVars
  <1>2. UsageIsObserved' /\ CountingInv'
    BY <1>1 DEF UsageInv, UsageIsObserved, CountingInv
  <1>3. HeldInv'
    BY <1>1 DEF UsageInv, HeldInv, Sound
  <1> QED BY <1>2, <1>3 DEF UsageInv

\* What is observed more.
LEMMA ObservedMore ==
    ASSUME TypeInv, UsageInv, NEW x \in Statistics, observed' = Add(observed, x), stats' = Add(stats, x),
           saved' = saved,
           \A c \in Calls : call'[c].at \in {"replace", "insert", "merge"} => call'[c] = call[c]
    PROVE  /\ Within(stats', observed') /\ HeldInv'
           /\ saved' # NoStats => Within(saved', observed') /\ Agrees(saved')
  <1>0. /\ stats \in Statistics /\ observed \in Statistics /\ saved \in Statistics \union {NoStats}
        /\ call \in [Calls -> Holding]
    BY DEF TypeInv, TypeOK
  <1> HIDE DEF Holding
  <1>1. Within(stats', observed')
    BY <1>0, WithinAdded DEF UsageInv, UsageIsObserved
  <1>2. saved' # NoStats => Within(saved', observed') /\ Agrees(saved')
    BY <1>0, WithinAdded DEF UsageInv, UsageIsObserved
  <1>3. ASSUME NEW c \in Calls, call'[c].at \in {"replace", "insert", "merge"}
        PROVE  Within(call'[c].stats, observed') /\ Agrees(call'[c].stats)
    <2>1. call'[c] = call[c]
      BY <1>3
    <2>2. call[c] \in [at : {"replace", "insert", "merge"}, stats : Statistics]
      BY <1>0, <1>3, <2>1, HeldAt
    <2>3. call[c].stats \in Statistics /\ Within(call[c].stats, observed) /\ Agrees(call[c].stats)
      BY <2>2 DEF UsageInv, HeldInv, Sound
    <2> QED BY <1>0, <2>1, <2>3, WithinAdded
  <1>4. HeldInv'
    BY <1>3 DEF HeldInv, Sound
  <1> QED BY <1>1, <1>2, <1>4

LEMMA CountingAgrees ==
    ASSUME NEW s \in Statistics, NEW n \in [GroupSets -> Nat],
           \A g \in GroupSets : \A c \in g : s.sets[g] + n[g] <= s.usage[c].groups
    PROVE  Agrees(s)
  <1> SUFFICES ASSUME NEW g \in GroupSets, NEW c \in g
               PROVE  s.sets[g] <= s.usage[c].groups
    BY DEF Agrees
  <1>1. c \in Columns /\ n[g] \in Nat
    BY ConstantsType
  <1>2. s.sets[g] \in Nat /\ s.usage[c].groups \in Nat
    BY <1>1, Counts
  <1> QED BY <1>1, <1>2

\* A query is counted by its columns.
LEMMA CollectCounts ==
    ASSUME TypeInv, UsageInv, NEW q \in [filters : SUBSET Columns, groups : SUBSET Columns], CollectStats(q),
           saved' = saved, TypeInv',
           \A c \in Calls : call'[c].at \in {"replace", "insert", "merge"} => call'[c] = call[c]
    PROVE  UsageInv'
  <1> DEFINE x == OfColumns(q)
  <1>0. stats \in Statistics /\ counting \in [GroupSets -> Nat]
    BY DEF TypeInv, TypeOK
  <1>1. x \in Statistics /\ stats' = Add(stats, x) /\ observed' = Add(observed, x)
    BY StatisticsType DEF CollectStats
  <1>2. /\ \A g \in GroupSets : x.sets[g] = 0
        /\ \A c \in Columns : x.usage[c].groups = IF c \in q.groups THEN 1 ELSE 0
    BY NoCounts DEF OfColumns, One, ZeroStats
  <1> HIDE DEF x
  <1>3. ASSUME NEW g \in GroupSets, NEW c \in g PROVE stats'.sets[g] + counting'[g] <= stats'.usage[c].groups
    <2>1. c \in Columns
      BY ConstantsType
    <2>2. /\ stats'.sets[g] = stats.sets[g] + 0
          /\ stats'.usage[c].groups = stats.usage[c].groups + (IF c \in q.groups THEN 1 ELSE 0)
      BY <1>0, <1>1, <1>2, <2>1, AddedCounts
    <2>3. /\ stats.sets[g] + counting[g] <= stats.usage[c].groups
          /\ stats.sets[g] \in Nat /\ counting[g] \in Nat /\ stats.usage[c].groups \in Nat
      BY <1>0, <2>1, Counts DEF UsageInv, CountingInv
    <2>4. counting'[g] = IF g = q.groups THEN counting[g] + 1 ELSE counting[g]
      BY <1>0 DEF CollectStats, GroupSets
    <2>5. g = q.groups => c \in q.groups
      OBVIOUS
    <2> QED BY <2>2, <2>3, <2>4, <2>5
  <1>4. CountingInv'
    BY <1>3 DEF CountingInv
  <1>5. Agrees(stats')
    <2>1. stats' \in Statistics /\ counting' \in [GroupSets -> Nat]
      BY DEF TypeInv, TypeOK
    <2> QED BY <1>3, <2>1, CountingAgrees
  <1>6. /\ Within(stats', observed') /\ HeldInv'
        /\ saved' # NoStats => Within(saved', observed') /\ Agrees(saved')
    BY <1>1, ObservedMore
  <1> QED BY <1>4, <1>5, <1>6 DEF UsageInv, UsageIsObserved

LEMMA UsageInvStep == TypeInv /\ TypeInv' /\ UsageInv /\ [Next]_vars => UsageInv'
  <1> SUFFICES ASSUME TypeInv, TypeInv', UsageInv, [Next]_vars PROVE UsageInv'
    OBVIOUS
  <1>0. /\ stats \in Statistics /\ observed \in Statistics /\ saved \in Statistics \union {NoStats}
        /\ counting \in [GroupSets -> Nat] /\ call \in [Calls -> Holding]
    BY DEF TypeInv, TypeOK
  <1> HIDE DEF Holding
  <1>1. ASSUME NEW c \in Calls, NEW l, Goto(c, l), l.at \notin {"replace", "insert", "merge"}
        PROVE  \A d \in Calls : call'[d].at \in {"replace", "insert", "merge"} => call'[d] = call[d]
    BY <1>0, <1>1 DEF Goto
  <1>2. ASSUME NEW c \in Calls,
               Rank(c) \/ LastOptimize(c) \/ Begin(c) \/ Fail(c) \/ Record(c) \/ Pick(c) \/ Register(c)
        PROVE  UsageInv'
    <2>1. UNCHANGED <<saved, usageVars>>
      BY <1>2 DEF Rank, LastOptimize, Begin, Fail, Record, Pick, Register, storeVars
    <2>2. \A d \in Calls : call'[d].at \in {"replace", "insert", "merge"} => call'[d] = call[d]
      BY <1>1, <1>2 DEF Rank, LastOptimize, Begin, Fail, Record, Pick, Register, Idle
    <2> QED BY <2>1, <2>2, UsageStays
  <1>3. ASSUME NEW c \in Calls, Shape(c) PROVE UsageInv'
    <2>1. UNCHANGED <<saved, usageVars>>
      BY <1>3 DEF Shape, storeVars
    <2>2. \A d \in Calls : call'[d].at \in {"replace", "insert", "merge"} => call'[d] = call[d]
      BY <1>1, <1>3 DEF Shape
    <2> QED BY <2>1, <2>2, UsageStays
  <1>4. ASSUME NEW c \in Calls, CommitTail(c) \/ CommitFull(c) PROVE UsageInv'
    <2>1. UNCHANGED <<saved, usageVars>>
      BY <1>4 DEF CommitTail, CommitFull
    <2>2. PICK replaced \in BOOLEAN : Moved(c, replaced)
      BY <1>4 DEF CommitTail, CommitFull
    <2>3. ASSUME NEW d \in Calls, call'[d].at \in {"replace", "insert", "merge"} PROVE call'[d] = call[d]
      <3>1. CASE call[d].at = "transaction"
        <4>1. call[d] \in [at : {"transaction"}, key : Orders, last : Nat, count : Nat, mode : Modes,
                           snap : Seq(Rows \union {Deleted}), inserted : [Rows -> Nat], moved : BOOLEAN]
          BY <1>0, <3>1, HeldAt
        <4> QED BY <2>2, <2>3, <4>1 DEF Moved, At, Steps
      <3>2. CASE call[d].at \in {"copy", "register"}
        <4>1. call[d] \in [at : {"copy", "register"}, group : GroupSets, gone : SUBSET Nat]
          BY <1>0, <3>2, HeldAt
        <4> QED BY <2>2, <2>3, <4>1 DEF Moved, At
      <3> QED BY <2>2, <2>3, <3>1, <3>2 DEF Moved, At, Steps
    <2> QED BY <2>1, <2>3, UsageStays
  <1>5. ASSUME NEW r \in Rows, Insert(r) PROVE UsageInv'
    BY <1>5, UsageStays DEF Insert
  <1>6. ASSUME NEW q \in Queries, Query(q) PROVE UsageInv'
    <2>1. q \in [filters : SUBSET Columns, groups : SUBSET Columns]
      BY OptimizeAssumption DEF OptimizeAssumption
    <2>2. saved' = saved /\ call' = call
      BY <1>6 DEF Query, storeVars
    <2>3. CASE UNCHANGED usageVars
      BY <2>2, <2>3, UsageStays
    <2>4. CASE CollectStats(q)
      BY <2>1, <2>2, <2>4, CollectCounts
    <2> QED BY <1>6, <2>3, <2>4 DEF Query
  <1>7. ASSUME NEW c \in Calls, Copy(c) \/ CopyFails(c) PROVE UsageInv'
    <2>1. call[c] \in [at : {"copy", "register"}, group : GroupSets, gone : SUBSET Nat] /\ call[c].at = "copy"
      BY <1>0, <1>7, HeldAt DEF Copy, CopyFails, At
    <2>2. Aggregation(c) \in [filters : SUBSET Columns, groups : SUBSET Columns]
      BY <2>1, ConstantsType DEF Aggregation
    <2>3. \A d \in Calls : call'[d].at \in {"replace", "insert", "merge"} => call'[d] = call[d]
      BY <1>1, <1>7, <2>1 DEF Copy, CopyFails, Idle
    <2>4. saved' = saved
      BY <1>7 DEF Copy, CopyFails, storeVars
    <2>5. CASE UNCHANGED usageVars
      BY <2>3, <2>4, <2>5, UsageStays
    <2>6. CASE CollectStats(Aggregation(c))
      BY <2>2, <2>3, <2>4, <2>6, CollectCounts
    <2> QED BY <1>7, <2>5, <2>6 DEF Copy, CopyFails
  <1>8. ASSUME NEW g \in GroupSets, CollectGroupSet(g) PROVE UsageInv'
    <2> DEFINE x == OfSet(g)
    <2>1. x \in Statistics /\ stats' = Add(stats, x) /\ observed' = Add(observed, x)
      BY <1>8, StatisticsType DEF CollectGroupSet
    <2>2. /\ \A h \in GroupSets : x.sets[h] = IF h = g THEN 1 ELSE 0
          /\ \A c \in Columns : x.usage[c].groups = 0
      BY NoCounts DEF OfSet, One, ZeroStats
    <2> HIDE DEF x
    <2>3. ASSUME NEW h \in GroupSets, NEW c \in h PROVE stats'.sets[h] + counting'[h] <= stats'.usage[c].groups
      <3>1. c \in Columns
        BY ConstantsType
      <3>2. /\ stats'.sets[h] = stats.sets[h] + (IF h = g THEN 1 ELSE 0)
            /\ stats'.usage[c].groups = stats.usage[c].groups + 0
        BY <1>0, <2>1, <2>2, <3>1, AddedCounts
      <3>3. /\ stats.sets[h] + counting[h] <= stats.usage[c].groups
            /\ stats.sets[h] \in Nat /\ counting[h] \in Nat /\ stats.usage[c].groups \in Nat
        BY <1>0, <3>1, Counts DEF UsageInv, CountingInv
      <3>4. counting'[h] = (IF h = g THEN counting[h] - 1 ELSE counting[h])
        BY <1>0, <1>8 DEF CollectGroupSet
      <3> QED BY <3>2, <3>3, <3>4
    <2>4. CountingInv'
      BY <2>3 DEF CountingInv
    <2>5. Agrees(stats')
      <3>1. stats' \in Statistics /\ counting' \in [GroupSets -> Nat]
        BY DEF TypeInv, TypeOK
      <3> QED BY <2>3, <3>1, CountingAgrees
    <2>6. /\ Within(stats', observed') /\ HeldInv'
          /\ saved' # NoStats => Within(saved', observed') /\ Agrees(saved')
      BY <1>8, <2>1, ObservedMore DEF CollectGroupSet, storeVars
    <2> QED BY <2>4, <2>5, <2>6 DEF UsageInv, UsageIsObserved
  <1>9. ASSUME NEW c \in Calls, Snapshot(c) \/ ReadSaved(c) PROVE UsageInv'
    <2>1. UNCHANGED <<saved, usageVars>>
      BY <1>9 DEF Snapshot, ReadSaved, storeVars
    <2>2. \A d \in Calls : d # c => call'[d] = call[d]
      BY <1>0, <1>9 DEF Snapshot, ReadSaved, Goto
    <2>3. Sound(call'[c].stats)
      BY <1>0, <1>9 DEF Snapshot, ReadSaved, Goto, Sound, UsageInv, UsageIsObserved
    <2> QED BY <2>1, <2>2, <2>3, UsageStays
  <1>10. ASSUME NEW c \in Calls, Replace(c) PROVE UsageInv'
    <2>1. call[c] \in [at : {"replace", "insert", "merge"}, stats : Statistics] /\ call[c].at = "replace"
      BY <1>0, <1>10, HeldAt DEF Replace, At
    <2>2. /\ \A d \in Calls : call'[d] = IF d = c THEN [call[c] EXCEPT !.at = "insert"] ELSE call[d]
          /\ [call[c] EXCEPT !.at = "insert"].stats = call[c].stats
      BY <1>0, <1>10, <2>1 DEF Replace, Goto
    <2>3. saved' = ZeroStats /\ UNCHANGED <<stats, counting, observed>>
      BY <1>10 DEF Replace, usageVars
    <2>4. \A d \in Calls : call'[d].at \in {"replace", "insert", "merge"} =>
             call[d].at \in {"replace", "insert", "merge"} /\ call'[d].stats = call[d].stats
      BY <2>1, <2>2
    <2>5. HeldInv' /\ CountingInv'
      BY <2>3, <2>4 DEF UsageInv, HeldInv, CountingInv, Sound
    <2>6. Within(saved', observed') /\ Agrees(saved')
      BY <1>0, <2>3, WithinAdded, AgreesAdded DEF UsageInv, UsageIsObserved
    <2> QED BY <2>3, <2>5, <2>6 DEF UsageInv, UsageIsObserved
  <1>11. ASSUME NEW c \in Calls, InsertStats(c) \/ Load(c) PROVE UsageInv'
    <2>1. call[c] \in [at : {"replace", "insert", "merge"}, stats : Statistics]
      BY <1>0, <1>11, HeldAt DEF InsertStats, Load, At
    <2> DEFINE x == call[c].stats
    <2>2. x \in Statistics /\ Within(x, observed) /\ Agrees(x)
      BY <2>1 DEF UsageInv, HeldInv, Sound
    <2> HIDE DEF x
    <2>3. \A d \in Calls : call'[d].at \in {"replace", "insert", "merge"} => call'[d] = call[d]
      BY <1>1, <1>11 DEF InsertStats, Load, Idle
    <2>4. observed' = observed /\ counting' = counting
      BY <1>11 DEF InsertStats, Load, usageVars
    <2>5. HeldInv'
      BY <2>3, <2>4 DEF UsageInv, HeldInv, Sound
    <2>6. CASE InsertStats(c)
      <3>1. saved \in Statistics /\ saved # NoStats
        BY <1>0, <2>6 DEF InsertStats, TypeInv, SavedInv
      <3>2. saved' = Add(saved, x) /\ stats' = stats
        BY <2>6 DEF InsertStats, usageVars, x
      <3>3. Within(saved', observed) /\ Agrees(saved')
        BY <1>0, <2>2, <3>1, <3>2, WithinAdded, AgreesAdded DEF UsageInv, UsageIsObserved
      <3> QED BY <2>4, <2>5, <3>2, <3>3 DEF UsageInv, UsageIsObserved, CountingInv
    <2>7. CASE Load(c)
      <3>1. stats' = Add(stats, x) /\ saved' = saved
        BY <2>7 DEF Load, storeVars, x
      <3>2. Within(stats', observed) /\ Agrees(stats')
        BY <1>0, <2>2, <3>1, WithinAdded, AgreesAdded DEF UsageInv, UsageIsObserved
      <3>3. ASSUME NEW g \in GroupSets, NEW d \in g PROVE stats'.sets[g] + counting[g] <= stats'.usage[d].groups
        <4>1. d \in Columns
          BY ConstantsType
        <4>2. /\ stats'.sets[g] = stats.sets[g] + x.sets[g]
              /\ stats'.usage[d].groups = stats.usage[d].groups + x.usage[d].groups
          BY <1>0, <2>2, <3>1, <4>1, AddedCounts
        <4>3. /\ stats.sets[g] + counting[g] <= stats.usage[d].groups /\ x.sets[g] <= x.usage[d].groups
              /\ stats.sets[g] \in Nat /\ counting[g] \in Nat /\ stats.usage[d].groups \in Nat
              /\ x.sets[g] \in Nat /\ x.usage[d].groups \in Nat
          BY <1>0, <2>2, <4>1, Counts DEF UsageInv, CountingInv, Agrees
        <4> QED BY <4>2, <4>3
      <3> QED BY <2>4, <2>5, <3>1, <3>2, <3>3 DEF UsageInv, UsageIsObserved, CountingInv
    <2> QED BY <1>11, <2>6, <2>7
  <1>12. ASSUME Restart PROVE UsageInv'
    <2>1. stats' = ZeroStats /\ UNCHANGED <<saved, observed>> /\ call' = [c \in Calls |-> Idle]
          /\ \A g \in GroupSets : counting'[g] = 0
      BY <1>12 DEF Restart, storeVars
    <2>2. Within(stats', observed') /\ Agrees(stats')
      BY <1>0, <2>1, WithinAdded, AgreesAdded DEF UsageInv, UsageIsObserved
    <2>3. HeldInv'
      BY <2>1 DEF HeldInv, Idle
    <2>4. CountingInv'
      <3>1. \A g \in GroupSets : \A c \in g : c \in Columns
        BY ConstantsType
      <3> QED BY <2>1, <3>1, NoCounts DEF CountingInv
    <2> QED BY <2>1, <2>2, <2>3, <2>4 DEF UsageInv, UsageIsObserved
  <1>13. ASSUME UNCHANGED vars PROVE UsageInv'
    BY <1>13, UsageStays DEF vars, storeVars
  <1> QED BY <1>2, <1>3, <1>4, <1>5, <1>6, <1>7, <1>8, <1>9, <1>10, <1>11, <1>12, <1>13 DEF Next

\* Through any number of saves, failures of a save, restarts and loads, however
\* they overlap with queries that have counted their columns and not yet the set
\* of them, the statistics in memory and those of the table count nothing that was
\* never observed, and no set of columns more often than each of its columns.
THEOREM UsageSurvives == Spec => []UsageIsObserved
  <1>1. UsageInv => UsageIsObserved
    BY DEF UsageInv
  <1>2. TypeInv /\ UsageInv /\ [Next]_vars => TypeInv' /\ UsageInv'
    BY TypeInvStep, UsageInvStep
  <1> QED BY <1>1, <1>2, InitTypeInv, InitUsageInv, PTL DEF Spec

--------------------------------------------------------------------------------
(* The projection *)

\* What an aggregation says depends on the rows, not on their places.
LEMMA SameRowsAggregate ==
    ASSUME NEW rs \in Seq(Rows \union {Deleted}), NEW ts \in Seq(Rows \union {Deleted}), SameRows(ts, rs),
           NEW g \in SUBSET Columns
    PROVE  Aggregate(ts, g) = Aggregate(rs, g)
  <1> DEFINE Group(k) == {r \in Rows : Restrict(r, g) = k}
             keys(us) == {Restrict(us[i], g) : i \in LivePlaces(us)}
  <1>1. /\ \A i \in LivePlaces(rs) : rs[i] \in Rows
        /\ \A i \in LivePlaces(ts) : ts[i] \in Rows
    BY LiveFacts
  <1>2. {ts[i] : i \in LivePlaces(ts)} = {rs[i] : i \in LivePlaces(rs)}
    BY SameRowsCount
  <1>3. \A i \in LivePlaces(ts) : \E j \in LivePlaces(rs) : ts[i] = rs[j]
    BY <1>2
  <1>4. \A j \in LivePlaces(rs) : \E i \in LivePlaces(ts) : ts[i] = rs[j]
    BY <1>2
  <1>5. keys(ts) = keys(rs)
    BY <1>3, <1>4
  <1>6. ASSUME NEW k
        PROVE  Cardinality({i \in LivePlaces(ts) : Restrict(ts[i], g) = k})
                 = Cardinality({i \in LivePlaces(rs) : Restrict(rs[i], g) = k})
    <2>1. {i \in LivePlaces(ts) : Restrict(ts[i], g) = k} = Holders(ts, Group(k))
      BY <1>1 DEF Holders
    <2>2. {i \in LivePlaces(rs) : Restrict(rs[i], g) = k} = Holders(rs, Group(k))
      BY <1>1 DEF Holders
    <2> HIDE DEF Group
    <2>3. Cardinality(Holders(ts, Group(k))) = Cardinality(Holders(rs, Group(k)))
      BY SameRowsCount
    <2> QED BY <2>1, <2>2, <2>3
  <1>7. /\ Aggregate(ts, g) = [k \in keys(ts) |-> Cardinality({i \in LivePlaces(ts) : Restrict(ts[i], g) = k})]
        /\ Aggregate(rs, g) = [k \in keys(rs) |-> Cardinality({i \in LivePlaces(rs) : Restrict(rs[i], g) = k})]
    BY DEF Aggregate
  <1> HIDE DEF keys
  <1> QED BY <1>5, <1>6, <1>7

\* Fewer columns of a row do not depend on whether the others went before.
LEMMA RestrictTwice ==
    ASSUME NEW r, NEW h, NEW g \in SUBSET h
    PROVE  Restrict(Restrict(r, h), g) = Restrict(r, g)
  BY DEF Restrict

\* The sums of counts over groups of groups are the counts of the base table.
LEMMA Regrouped ==
    ASSUME NEW rs \in Seq(Rows \union {Deleted}), NEW h \in SUBSET Columns, NEW g \in SUBSET h,
           projection.counts = Aggregate(rs, h)
    PROVE  AggregateProjection(g) = Aggregate(rs, g)
  <1> DEFINE counts == projection.counts
             B(j) == {i \in LivePlaces(rs) : Restrict(rs[i], h) = j}
             J(k) == {j \in DOMAIN counts : Restrict(j, g) = k}
             P(k) == UNION {{<<j, n>> : n \in 1 .. counts[j]} : j \in J(k)}
             T(k) == {i \in LivePlaces(rs) : Restrict(rs[i], g) = k}
  <1>1. /\ DOMAIN counts = {Restrict(rs[i], h) : i \in LivePlaces(rs)}
        /\ \A j \in DOMAIN counts : counts[j] = Cardinality(B(j))
    BY DEF Aggregate
  <1>2. {Restrict(j, g) : j \in DOMAIN counts} = {Restrict(rs[i], g) : i \in LivePlaces(rs)}
    <2> HIDE DEF counts
    <2> QED BY <1>1, RestrictTwice
  <1>3. \A j : B(j) \in SUBSET DOMAIN rs
    BY DEF LivePlaces
  <1> HIDE DEF counts
  <1>4. ASSUME NEW k PROVE Total(counts, J(k)) = Cardinality(T(k))
    <2> DEFINE f == [p \in P(k) |-> Nth(B(p[1]), p[2])]
               rank(j, i) == Cardinality({m \in B(j) : m <= i})
    <2>1. \A j : /\ B(j) \in SUBSET Nat /\ IsFiniteSet(B(j)) /\ Cardinality(B(j)) \in Nat
                 /\ \A i \in B(j) : \E n \in 1 .. Cardinality(B(j)) : Nth(B(j), n) = i
      <3>1. ASSUME NEW S \in SUBSET DOMAIN rs
            PROVE  /\ S \in SUBSET Nat /\ IsFiniteSet(S) /\ Cardinality(S) \in Nat
                   /\ \A i \in S : \E n \in 1 .. Cardinality(S) : Nth(S, n) = i
        <4>1. DOMAIN rs = 1 .. Len(rs)
          BY LiveFacts
        <4> QED BY <4>1, SelectionFacts
      <3> HIDE DEF B
      <3> QED BY <1>3, <3>1
    <2>2. \A p \in P(k) : /\ p = <<p[1], p[2]>> /\ p[1] \in J(k)
                          /\ p[2] \in 1 .. Cardinality(B(p[1]))
      <3> HIDE DEF B
      <3> QED BY <1>1
    <2>3. \A j \in J(k) : \A n \in 1 .. Cardinality(B(j)) : <<j, n>> \in P(k)
      <3> HIDE DEF B
      <3> QED BY <1>1
    <2>4. ASSUME NEW j, NEW n \in 1 .. Cardinality(B(j))
          PROVE  /\ Nth(B(j), n) \in B(j)
                 /\ rank(j, Nth(B(j), n)) = n
      <3> HIDE DEF B
      <3> QED BY <2>1, NthPlace
    <2> HIDE DEF P, rank
    <2>5. ASSUME NEW p \in P(k)
          PROVE  /\ f[p] \in LivePlaces(rs) /\ Restrict(rs[f[p]], h) = p[1]
                 /\ rank(p[1], f[p]) = p[2]
      <3>1. f[p] = Nth(B(p[1]), p[2])
        OBVIOUS
      <3>2. /\ Nth(B(p[1]), p[2]) \in B(p[1])
            /\ rank(p[1], Nth(B(p[1]), p[2])) = p[2]
        <4> HIDE DEF B
        <4> QED BY <2>2, <2>4
      <3> QED BY <3>1, <3>2
    <2>6. f \in [P(k) -> T(k)]
      <3> SUFFICES ASSUME NEW p \in P(k) PROVE f[p] \in T(k)
        OBVIOUS
      <3> HIDE DEF f
      <3>1. Restrict(rs[f[p]], g) = Restrict(p[1], g)
        <4>1. Restrict(rs[f[p]], h) = p[1]
          BY <2>5
        <4> QED BY <4>1, RestrictTwice
      <3> QED BY <2>2, <2>5, <3>1
    <2>7. ASSUME NEW p \in P(k), NEW q \in P(k), f[p] = f[q]
          PROVE  p = q
      <3> HIDE DEF f, B
      <3>1. p[1] = q[1]
        BY <2>5, <2>7
      <3>2. p[2] = q[2]
        BY <2>5, <2>7, <3>1
      <3> QED BY <2>2, <3>1, <3>2
    <2> HIDE DEF f
    <2>8. \A i \in T(k) : \E p \in P(k) : f[p] = i
      <3> SUFFICES ASSUME NEW i \in T(k) PROVE \E p \in P(k) : f[p] = i
        OBVIOUS
      <3> DEFINE j == Restrict(rs[i], h)
      <3>1. i \in LivePlaces(rs) /\ i \in B(j) /\ j \in J(k)
        BY <1>1, RestrictTwice
      <3> HIDE DEF j
      <3>2. PICK n \in 1 .. Cardinality(B(j)) : Nth(B(j), n) = i
        BY <2>1, <3>1
      <3>3. <<j, n>> \in P(k)
        BY <2>3, <3>1
      <3>4. f[<<j, n>>] = Nth(B(j), n)
        BY <3>3 DEF f
      <3> QED BY <3>2, <3>3, <3>4
    <2>9. f \in Bijection(P(k), T(k))
      <3> HIDE DEF T
      <3> QED BY <2>6, <2>7, <2>8 DEF Bijection, Injection, Surjection, IsInjective
    <2>10. IsFiniteSet(T(k))
      BY LiveFacts, FS_Subset
    <2> HIDE DEF T
    <2>11. ExistsBijection(T(k), P(k))
      BY <2>9, Fun_ExistsBijSymmetric DEF ExistsBijection
    <2>12. Cardinality(P(k)) = Cardinality(T(k))
      BY <2>10, <2>11, FS_Bijection
    <2> QED BY <2>12 DEF Total, P
  <1>5. /\ AggregateProjection(g) = [k \in {Restrict(j, g) : j \in DOMAIN counts} |-> Total(counts, J(k))]
        /\ Aggregate(rs, g) = [k \in {Restrict(rs[i], g) : i \in LivePlaces(rs)} |-> Cardinality(T(k))]
    BY DEF AggregateProjection, Aggregate, counts
  <1> HIDE DEF J, T
  <1> QED BY <1>2, <1>4, <1>5

\* The projection says what the base table says.
Current == projection.counts = Aggregate(rows, projection.cols)

\* Why a stale projection is not served: the table has more places than were
\* registered.
TokenInv ==
    ~overtaken =>
        /\ (\E c \in Calls : At(c, "register")) => Current
        /\ Current \/ registered.group_set = {} \/ Len(rows) > registered.base_rows
        /\ (\A c \in Calls : ~At(c, "register")) /\ registered.group_set # {}
             => registered.base_rows <= Len(rows)
        /\ \A c \in Calls : call[c].at \in Steps("project") => call[c].gone = {}

LEMMA InitTokenInv == Init => TokenInv
  BY DEF Init, TokenInv, At, Idle, Steps, Unregistered

\* A query is served from a projection that says what the base table says.
LEMMA ServedByCurrent ==
    ASSUME TypeInv, TokenInv
    PROVE  FreshUnlessOvertaken
  <1> SUFFICES ASSUME ~overtaken, NEW q \in Queries, Serves(q)
               PROVE  AggregateProjection(q.groups) = Aggregate(rows, q.groups)
    BY DEF FreshUnlessOvertaken, ServedIsFresh
  <1>1. rows \in Seq(Rows \union {Deleted}) /\ projection.cols \in SUBSET Columns /\ Len(rows) \in Nat
    BY DEF TypeInv, TypeOK
  <1>2. /\ registered.group_set # {} /\ registered.base_rows = Len(rows)
        /\ q.groups \in SUBSET projection.cols
    BY DEF Serves
  <1>3. projection.counts = Aggregate(rows, projection.cols)
    BY <1>1, <1>2 DEF TokenInv, Current
  <1> QED BY <1>1, <1>2, <1>3, Regrouped

\* A step that is not of raw_project, nor a rewrite of the table.
LEMMA TokenStays ==
    ASSUME TokenInv, UNCHANGED <<rows, projection, registered, overtaken>>,
           \A c \in Calls : \/ call'[c] = call[c]
                            \/ call[c].at # "register" /\ call'[c].at \notin {"copy", "register"}
                            \/ call[c].at # "register" /\ call'[c].at = "copy" /\ call'[c].gone = {}
    PROVE  TokenInv'
  <1>1. \A c \in Calls : At(c, "register") <=> At(c, "register")'
    BY DEF At
  <1>2. ~overtaken => \A c \in Calls : (call[c].at \in Steps("project") => call[c].gone = {})'
    BY DEF TokenInv, Steps
  <1>3. Current' <=> Current
    BY DEF Current
  <1> QED BY <1>1, <1>2, <1>3 DEF TokenInv

LEMMA TokenInvStep == TypeInv /\ SnapInv /\ TokenInv /\ [Next]_vars => TokenInv'
  <1> SUFFICES ASSUME TypeInv, SnapInv, TokenInv, [Next]_vars PROVE TokenInv'
    OBVIOUS
  <1>0. /\ rows \in Seq(Rows \union {Deleted}) /\ Len(rows) \in Nat /\ call \in [Calls -> Holding]
        /\ registered.base_rows \in Nat /\ projection.cols \in SUBSET Columns
    BY DEF TypeInv, TypeOK
  <1> HIDE DEF Holding
  <1>1. ASSUME NEW c \in Calls, NEW l, Goto(c, l), UNCHANGED <<rows, projection, registered, overtaken>>,
               call[c].at # "register",
               l.at \notin {"copy", "register"} \/ (l.at = "copy" /\ l.gone = {})
        PROVE  TokenInv'
    <2>1. \A d \in Calls : call'[d] = IF d = c THEN l ELSE call[d]
      BY <1>0, <1>1 DEF Goto
    <2> QED BY <1>1, <2>1, TokenStays
  <1>2. ASSUME NEW c \in Calls,
               \/ Rank(c) \/ LastOptimize(c) \/ Begin(c) \/ Record(c) \/ Pick(c) \/ CopyFails(c)
               \/ Snapshot(c) \/ ReadSaved(c) \/ Load(c)
        PROVE  TokenInv'
    BY <1>1, <1>2 DEF Rank, LastOptimize, Begin, Record, Pick, CopyFails, Snapshot, ReadSaved, Load, Enter, At,
                      Idle, storeVars, cacheVars, historyVars
  <1>3. ASSUME NEW c \in Calls, Shape(c) PROVE TokenInv'
    BY <1>1, <1>3 DEF Shape, At, storeVars, cacheVars, historyVars
  <1>4. ASSUME NEW c \in Calls, Fail(c) PROVE TokenInv'
    BY <1>1, <1>4 DEF Fail, Idle, storeVars, cacheVars, historyVars
  <1>5. ASSUME NEW c \in Calls, Replace(c) PROVE TokenInv'
    <2>1. call[c] \in [at : {"replace", "insert", "merge"}, stats : Statistics] /\ call[c].at = "replace"
      BY <1>0, <1>5, HeldAt DEF Replace, At
    <2> QED BY <1>1, <1>5, <2>1 DEF Replace, cacheVars, historyVars
  <1>6. ASSUME NEW c \in Calls, InsertStats(c) PROVE TokenInv'
    BY <1>1, <1>6 DEF InsertStats, At, Idle, cacheVars, historyVars
  <1>7. ASSUME NEW r \in Rows, Insert(r) PROVE TokenInv'
    <2> SUFFICES ASSUME ~overtaken' PROVE TokenInv'
      BY DEF TokenInv
    <2>1. ~overtaken /\ \A c \in Calls : ~At(c, "register")
      BY <1>7 DEF Insert
    <2>2. Len(rows') = Len(rows) + 1
      BY <1>0, <1>7 DEF Insert
    <2>3. call' = call /\ registered' = registered
      BY <1>7 DEF Insert, cacheVars
    <2>4. registered.group_set # {} => registered.base_rows < Len(rows')
      BY <1>0, <2>1, <2>2 DEF TokenInv
    <2>5. \A c \in Calls : call[c].at \in Steps("project") => call[c].gone = {}
      BY <2>1 DEF TokenInv
    <2>6. registered.group_set # {} => Len(rows') > registered.base_rows /\ registered.base_rows <= Len(rows')
      BY <1>0, <2>2, <2>4
    <2> QED BY <2>1, <2>3, <2>5, <2>6 DEF TokenInv, At
  <1>8. ASSUME NEW c \in Calls, CommitTail(c) PROVE TokenInv'
    <2>1. At(c, "transaction") /\ ~call[c].moved /\ Moved(c, FALSE)
      BY <1>8 DEF CommitTail
    <2>2. UNCHANGED <<projection, registered, overtaken>>
      BY <1>8 DEF CommitTail, cacheVars, historyVars
    <2>3. rows' \in Seq(Rows \union {Deleted}) /\ SameRows(rows', rows)
      BY <1>8, CommitTailRows DEF TailMoved
    <2>4. Current' <=> Current
      BY <1>0, <2>2, <2>3, SameRowsAggregate DEF Current
    <2>5. Len(rows') \in Nat /\ Len(rows') >= Len(rows)
      <3>1. TailMoved(rows', rows, TailPlaces(c))
        BY <1>8, CommitTailRows
      <3>2. Cardinality(TailPlaces(c)) \in Nat /\ Len(rows') = Len(rows) + Cardinality(TailPlaces(c))
        BY <3>1 DEF TailMoved
      <3> QED BY <1>0, <3>2
    <2>6. \A d \in Calls : \/ call'[d] = call[d]
                           \/ call[d].at = "transaction" /\ call'[d].at = "record"
      BY <2>1 DEF Moved, At
    <2>7. \A d \in Calls : (At(d, "register") <=> At(d, "register")')
      BY <2>6 DEF At
    <2>8. ~overtaken => \A d \in Calls : (call[d].at \in Steps("project") => call[d].gone = {})'
      BY <2>6 DEF TokenInv, Steps
    <2>9. /\ Len(rows) > registered.base_rows => Len(rows') > registered'.base_rows
          /\ registered.base_rows <= Len(rows) => registered'.base_rows <= Len(rows')
      BY <1>0, <2>2, <2>5
    <2> HIDE DEF Current
    <2> QED BY <2>2, <2>4, <2>7, <2>8, <2>9 DEF TokenInv
  <1>9. ASSUME NEW c \in Calls, CommitFull(c) PROVE TokenInv'
    BY <1>9 DEF CommitFull, TokenInv
  <1>10. ASSUME NEW c \in Calls, Copy(c) PROVE TokenInv'
    <2> SUFFICES ASSUME ~overtaken' PROVE TokenInv'
      BY DEF TokenInv
    <2>1. \A d \in Calls : call[d].at \in Steps("project") => call[d].gone = {}
      BY <1>10 DEF Copy, TokenInv
    <2>2. call[c] \in [at : {"copy", "register"}, group : GroupSets, gone : SUBSET Nat] /\ call[c].at = "copy"
      BY <1>0, <1>10, HeldAt DEF Copy, At
    <2>3. \A d \in Calls : call'[d] = IF d = c THEN [call[c] EXCEPT !.at = "register"] ELSE call[d]
      BY <1>0, <1>10 DEF Copy, Goto
    <2>4. Current'
      <3> DEFINE g == call[c].group
      <3>1. rows' = rows /\ g \in SUBSET Columns
        BY <1>10, <2>2, ConstantsType DEF Copy
      <3>2. CASE projection' = [cols |-> g, counts |-> Aggregate(rows, g)]
        BY <3>1, <3>2 DEF Current
      <3>3. CASE /\ Serves(Aggregation(c)) /\ projection' = [cols |-> g, counts |-> AggregateProjection(g)]
                 /\ ~overtaken
        <4>1. /\ registered.group_set # {} /\ registered.base_rows = Len(rows)
              /\ g \in SUBSET projection.cols
          BY <3>3 DEF Serves, Aggregation
        <4>2. projection.counts = Aggregate(rows, projection.cols)
          BY <1>0, <3>3, <4>1 DEF TokenInv, Current
        <4>3. AggregateProjection(g) = Aggregate(rows, g)
          BY <1>0, <4>1, <4>2, Regrouped
        <4> QED BY <3>1, <3>3, <4>3 DEF Current
      <3> QED BY <1>10, <3>2, <3>3 DEF Copy
    <2>5. \A d \in Calls : (call[d].at \in Steps("project") => call[d].gone = {})'
      BY <2>1, <2>2, <2>3 DEF Steps
    <2>6. At(c, "register")'
      BY <2>2, <2>3 DEF At
    <2> HIDE DEF Current
    <2> QED BY <2>4, <2>5, <2>6 DEF TokenInv
  <1>11. ASSUME NEW c \in Calls, Register(c) PROVE TokenInv'
    <2> SUFFICES ASSUME ~overtaken' PROVE TokenInv'
      BY DEF TokenInv
    <2>1. ~overtaken /\ UNCHANGED <<rows, projection>> /\ At(c, "register")
      BY <1>11 DEF Register, storeVars, historyVars
    <2>2. Current /\ call[c].gone = {}
      BY <2>1 DEF TokenInv, At, Steps
    <2>3. Current'
      BY <2>1, <2>2 DEF Current
    <2>4. registered'.base_rows = Len(rows')
      BY <1>11, <2>1, <2>2 DEF Register
    <2>5. \A d \in Calls : call'[d] = IF d = c THEN Idle ELSE call[d]
      BY <1>0, <1>11 DEF Register, Goto
    <2>6. \A d \in Calls : (call[d].at \in Steps("project") => call[d].gone = {})'
      BY <2>1, <2>5 DEF TokenInv, Steps, Idle
    <2>7. registered'.base_rows <= Len(rows')
      BY <1>0, <2>1, <2>4
    <2> HIDE DEF Current
    <2> QED BY <2>3, <2>6, <2>7 DEF TokenInv
  <1>12. ASSUME Restart PROVE TokenInv'
    BY <1>12 DEF Restart, TokenInv, At, Steps, Idle, Unregistered
  <1>13. ASSUME (\E q \in Queries : Query(q)) \/ (\E g \in GroupSets : CollectGroupSet(g)) \/ UNCHANGED vars
         PROVE  TokenInv'
    <2>1. UNCHANGED <<rows, projection, registered, overtaken, call>>
      BY <1>13 DEF Query, CollectGroupSet, vars, storeVars, cacheVars, historyVars
    <2> QED BY <2>1, TokenStays
  <1> QED BY <1>2, <1>3, <1>4, <1>5, <1>6, <1>7, <1>8, <1>9, <1>10, <1>11, <1>12, <1>13 DEF Next

\* A query that is rewritten onto the projection gets the answer of the base
\* table, unless a row came between raw_project's copy and its count or
\* raw_optimize replaced the table, since raw_project last read the base table: a
\* copy that is served from the projection it replaces is as good as that.
THEOREM ServedUnlessOvertaken == Spec => []FreshUnlessOvertaken
  <1>1. TypeInv /\ TokenInv => FreshUnlessOvertaken
    BY ServedByCurrent
  <1> QED
    BY <1>1, InitTypeInv, InitSnapInv, InitTokenInv, TypeInvStep, SnapInvStep, TokenInvStep, PTL DEF Spec

--------------------------------------------------------------------------------
(* The recorded outcome *)

\* There is a deleted row before a live one.
Holed(rs) == \E i, j \in DOMAIN rs : i < j /\ rs[i] = Deleted /\ rs[j] # Deleted
\* The first k places are live and in order.
Sorted(key, k, rs) ==
    /\ k <= Len(rs)
    /\ \A i \in 1 .. k : rs[i] # Deleted
    /\ \A i, j \in 1 .. k : i < j => ~Less(key, rs[j], rs[i])
\* The outcome may be relied on by the next call.
Good(key, k, rs) == k = 0 \/ Holed(rs) \/ Sorted(key, k, rs)

LEMMA SortedPrefix ==
    ASSUME NEW rs \in Seq(Rows \union {Deleted}), NEW k \in Nat, NEW key, Sorted(key, k, rs)
    PROVE  IsOrdered(key, SubSeq(rs, 1, k))
  <1> DEFINE s == SubSeq(rs, 1, k)
  <1>1. Len(rs) \in Nat /\ k <= Len(rs)
    BY DEF Sorted
  <1>2. DOMAIN s = 1 .. k /\ \A i \in 1 .. k : s[i] = rs[i]
    <2>1. CASE k = 0
      BY <2>1
    <2>2. CASE k # 0
      BY <1>1, <2>2
    <2> QED BY <2>1, <2>2
  <1> HIDE DEF s
  <1>3. IsOrdered(key, s)
    BY <1>2 DEF IsOrdered, Sorted
  <1> QED BY <1>3 DEF s

\* What is true of a table stays true when a row is appended.
LEMMA AppendKeeps ==
    ASSUME NEW rs \in Seq(Rows \union {Deleted}), NEW r \in Rows
    PROVE  /\ Holed(rs) => Holed(Append(rs, r))
           /\ \A k \in Nat : \A key : Sorted(key, k, rs) => Sorted(key, k, Append(rs, r))
           /\ Cardinality(LivePlaces(rs)) <= Cardinality(LivePlaces(Append(rs, r)))
  <1> DEFINE ts == Append(rs, r)
             L == Len(rs)
  <1>1. /\ L \in Nat /\ DOMAIN rs = 1 .. L /\ DOMAIN ts = 1 .. L + 1 /\ Len(ts) = L + 1
        /\ \A i \in 1 .. L : ts[i] = rs[i]
        /\ ts \in Seq(Rows \union {Deleted})
    OBVIOUS
  <1> HIDE DEF ts
  <1>2. \A i \in 1 .. L : i \in 1 .. L + 1
    BY <1>1
  <1>3. Holed(rs) => Holed(ts)
    BY <1>1, <1>2 DEF Holed
  <1>4. ASSUME NEW k \in Nat, NEW key, Sorted(key, k, rs) PROVE Sorted(key, k, ts)
    <2>1. k <= L /\ \A i \in 1 .. k : i \in 1 .. L
      BY <1>1, <1>4 DEF Sorted
    <2>2. \A i \in 1 .. k : ts[i] = rs[i]
      BY <1>1, <2>1
    <2>3. k <= Len(ts)
      BY <1>1, <2>1
    <2> QED BY <1>4, <2>2, <2>3 DEF Sorted
  <1>5. LivePlaces(rs) \subseteq LivePlaces(ts)
    BY <1>1, <1>2 DEF LivePlaces
  <1>6. IsFiniteSet(LivePlaces(ts))
    BY <1>1, LiveFacts
  <1>7. Cardinality(LivePlaces(rs)) <= Cardinality(LivePlaces(ts))
    BY <1>5, <1>6, FS_Subset
  <1> QED BY <1>3, <1>4, <1>7 DEF ts

\* A table with as many live rows as max(rowid) + 1 has no holes.
LEMMA NotHoled ==
    ASSUME NEW rs \in Seq(Rows \union {Deleted}),
           Cardinality(LivePlaces(rs)) = Max({0} \union LivePlaces(rs))
    PROVE  ~Holed(rs)
  <1> DEFINE T == {0} \union LivePlaces(rs)
             m == Max(T)
  <1>1. /\ DOMAIN rs = 1 .. Len(rs) /\ Len(rs) \in Nat /\ LivePlaces(rs) \subseteq 1 .. Len(rs)
        /\ IsFiniteSet(LivePlaces(rs))
    BY LiveFacts
  <1>2. IsFiniteSet(T)
    <2>1. IsFiniteSet(LivePlaces(rs) \union {0})
      BY <1>1, FS_AddElement
    <2>2. T = LivePlaces(rs) \union {0}
      OBVIOUS
    <2> QED BY <2>1, <2>2
  <1>3. m \in Nat /\ \A i \in LivePlaces(rs) : i <= m
    <2>1. T \in SUBSET Nat /\ T # {}
      BY <1>1
    <2>2. m \in T /\ \A x \in T : m >= x
      BY <1>2, <2>1, MinMax
    <2> HIDE DEF m
    <2>3. m \in Nat
      BY <2>1, <2>2
    <2>4. ASSUME NEW i \in LivePlaces(rs) PROVE i <= m
      <3>1. i \in T /\ i \in Nat
        BY <1>1
      <3>2. m >= i
        BY <2>2, <3>1
      <3> QED BY <2>3, <3>1, <3>2
    <2> QED BY <2>3, <2>4
  <1> HIDE DEF m
  <1>4. LivePlaces(rs) \subseteq 1 .. m
    BY <1>1, <1>3
  <1>5. IsFiniteSet(1 .. m) /\ Cardinality(1 .. m) = m
    BY <1>3, Places
  <1>6. Cardinality(LivePlaces(rs)) = Cardinality(1 .. m)
    BY <1>5 DEF m
  <1>7. LivePlaces(rs) = 1 .. m
    BY <1>4, <1>5, <1>6, FS_Subset
  <1>8. ASSUME NEW i \in DOMAIN rs, NEW j \in DOMAIN rs, i < j, rs[j] # Deleted PROVE rs[i] # Deleted
    <2>1. j \in LivePlaces(rs)
      BY <1>8 DEF LivePlaces
    <2>2. i \in 1 .. m
      BY <1>1, <1>3, <1>7, <1>8, <2>1
    <2> QED BY <1>7, <2>2 DEF LivePlaces
  <1> QED BY <1>8 DEF Holed

\* There is a live row behind the place last.
LEMMA SomeTail ==
    ASSUME NEW rs \in Seq(Rows \union {Deleted}), NEW last \in Nat, last < Cardinality(LivePlaces(rs))
    PROVE  \E i \in LivePlaces(rs) : i > last
  <1>1. LivePlaces(rs) \subseteq 1 .. Len(rs) /\ Len(rs) \in Nat /\ Cardinality(LivePlaces(rs)) \in Nat
    BY LiveFacts
  <1>2. SUFFICES ASSUME \A i \in LivePlaces(rs) : ~(i > last) PROVE FALSE
    OBVIOUS
  <1>3. LivePlaces(rs) \subseteq 1 .. last
    BY <1>1, <1>2
  <1>4. IsFiniteSet(1 .. last) /\ Cardinality(1 .. last) = last
    BY Places
  <1>5. Cardinality(LivePlaces(rs)) <= last
    BY <1>3, <1>4, FS_Subset
  <1> QED BY <1>1, <1>5

\* Why a recorded outcome can be trusted: what it counts is in order, or the
\* table has holes and the next call will see that.  One call of raw_optimize at
\* a time carries the outcome from its look at the table to its record.
OutcomeInv ==
    /\ \A c, d \in Calls : call[c].at \in Steps("optimize") /\ call[d].at \in Steps("optimize") => c = d
    /\ (\A c \in Calls : ~At(c, "record")) => Good(optimized.order_by, optimized.row_count, rows)
    /\ \A c \in Calls : At(c, "record") =>
          /\ Good(call[c].key, call[c].count, rows)
          /\ call[c].mode = "noop" => Sorted(call[c].key, call[c].count, rows)
    /\ \A c \in Calls : At(c, "shape") =>
          call[c].last = 0 \/ (call[c].key = optimized.order_by /\ call[c].last = optimized.row_count)
    /\ \A c \in Calls : At(c, "begin") =>
          /\ call[c].count <= Cardinality(LivePlaces(rows))
          /\ call[c].mode = "incremental" => call[c].last < call[c].count
    /\ \A c \in Calls : At(c, "transaction") =>
          /\ call[c].count <= Cardinality(LivePlaces(call[c].snap))
          /\ call[c].mode = "incremental" => call[c].last < call[c].count

LEMMA InitOutcomeInv == Init => OutcomeInv
  BY DEF Init, OutcomeInv, At, Idle, Steps, NotOptimized, Good

\* A step that is not of raw_optimize, or its failure.
LEMMA OutcomeStays ==
    ASSUME OutcomeInv, UNCHANGED <<rows, optimized>>,
           \A c \in Calls : \/ call'[c] = call[c]
                            \/ call[c].at # "record" /\ call'[c].at \notin Steps("optimize")
    PROVE  OutcomeInv'
  <1>1. \A c \in Calls : call'[c].at \in Steps("optimize") => call'[c] = call[c]
    OBVIOUS
  <1>2. \A c \in Calls : At(c, "record") <=> At(c, "record")'
    BY <1>1 DEF At, Steps
  <1>3. (\A c, d \in Calls : call[c].at \in Steps("optimize") /\ call[d].at \in Steps("optimize") => c = d)'
    BY <1>1 DEF OutcomeInv
  <1> HIDE DEF Good, Sorted
  <1>4. ((\A c \in Calls : ~At(c, "record")) => Good(optimized.order_by, optimized.row_count, rows))'
    BY <1>2 DEF OutcomeInv
  <1>5. \A c \in Calls : call'[c].at \in {"record", "shape", "begin", "transaction"} => call'[c] = call[c]
    BY <1>1 DEF Steps
  <1> QED BY <1>3, <1>4, <1>5 DEF OutcomeInv, At

\* A step of the only call of raw_optimize.
LEMMA OutcomeOf ==
    ASSUME NEW c \in Calls, \A d \in Calls : d # c => call'[d].at \notin Steps("optimize"),
           call'[c].at # "record" => Good(optimized'.order_by, optimized'.row_count, rows'),
           call'[c].at = "record" =>
              /\ Good(call'[c].key, call'[c].count, rows')
              /\ call'[c].mode = "noop" => Sorted(call'[c].key, call'[c].count, rows'),
           call'[c].at = "shape" =>
              call'[c].last = 0 \/ (call'[c].key = optimized'.order_by /\ call'[c].last = optimized'.row_count),
           call'[c].at = "begin" =>
              /\ call'[c].count <= Cardinality(LivePlaces(rows'))
              /\ call'[c].mode = "incremental" => call'[c].last < call'[c].count,
           call'[c].at = "transaction" =>
              /\ call'[c].count <= Cardinality(LivePlaces(call'[c].snap))
              /\ call'[c].mode = "incremental" => call'[c].last < call'[c].count
    PROVE  OutcomeInv'
  <1>1. \A d \in Calls : call'[d].at \in {"record", "shape", "begin", "transaction"} => d = c
    BY DEF Steps
  <1>2. (\A d, e \in Calls : call[d].at \in Steps("optimize") /\ call[e].at \in Steps("optimize") => d = e)'
    OBVIOUS
  <1> HIDE DEF Good, Sorted
  <1>3. ((\A d \in Calls : ~At(d, "record")) => Good(optimized.order_by, optimized.row_count, rows))'
    BY DEF At
  <1> QED BY <1>1, <1>2, <1>3 DEF OutcomeInv, At

LEMMA OutcomeInvStep ==
    ASSUME <<"optimize", "optimize">> \in Apart
    PROVE  TypeInv /\ SnapInv /\ OutcomeInv /\ [Next]_vars => OutcomeInv'
  <1> SUFFICES ASSUME TypeInv, SnapInv, OutcomeInv, [Next]_vars PROVE OutcomeInv'
    OBVIOUS
  <1>0. /\ rows \in Seq(Rows \union {Deleted}) /\ Len(rows) \in Nat /\ call \in [Calls -> Holding]
        /\ optimized.row_count \in Nat
    BY DEF TypeInv, TypeOK
  <1> HIDE DEF Holding
  <1>a. ASSUME NEW c \in Calls, call[c].at \in Steps("optimize")
        PROVE  \A d \in Calls : d # c => call[d].at \notin Steps("optimize")
    BY <1>a DEF OutcomeInv
  <1>b. ASSUME NEW c \in Calls, NEW l, Goto(c, l)
        PROVE  call'[c] = l /\ \A d \in Calls : d # c => call'[d] = call[d]
    BY <1>0, <1>b DEF Goto
  <1>c. ASSUME NEW c \in Calls, call[c].at \in Steps("optimize") \ {"record"}
        PROVE  Good(optimized.order_by, optimized.row_count, rows)
    <2>1. \A d \in Calls : ~At(d, "record")
      BY <1>a, <1>c DEF At, Steps
    <2> QED BY <2>1 DEF OutcomeInv
  <1> HIDE DEF Good, Sorted, Holed
  <1>1. ASSUME NEW r \in Rows, Insert(r) PROVE OutcomeInv'
    <2>1. rows' = Append(rows, r) /\ optimized' = optimized /\ call' = call
      BY <1>1 DEF Insert, cacheVars
    <2>2. /\ Holed(rows) => Holed(rows')
          /\ \A k \in Nat : \A key : Sorted(key, k, rows) => Sorted(key, k, rows')
          /\ Cardinality(LivePlaces(rows)) <= Cardinality(LivePlaces(rows'))
      BY <1>0, <2>1, AppendKeeps
    <2>3. \A k \in Nat : \A key : Good(key, k, rows) => Good(key, k, rows')
      BY <2>2 DEF Good
    <2>4. \A c \in Calls : At(c, "record") => call[c].count \in Nat
      BY <1>0, HeldAt DEF At
    <2>5. /\ Cardinality(LivePlaces(rows)) \in Nat /\ Cardinality(LivePlaces(rows')) \in Nat
      <3>1. rows' \in Seq(Rows \union {Deleted})
        BY <1>0, <2>1
      <3> QED BY <1>0, <3>1, LiveFacts
    <2>6. \A c \in Calls : At(c, "begin") => call[c].count <= Cardinality(LivePlaces(rows'))
      <3> SUFFICES ASSUME NEW c \in Calls, At(c, "begin") PROVE call[c].count <= Cardinality(LivePlaces(rows'))
        OBVIOUS
      <3>1. call[c].count \in Nat
        BY <1>0, HeldAt DEF At
      <3>2. call[c].count <= Cardinality(LivePlaces(rows))
        BY DEF OutcomeInv
      <3> QED BY <2>2, <2>5, <3>1, <3>2
    <2>7. /\ (\A c \in Calls : ~At(c, "record")) => Good(optimized.order_by, optimized.row_count, rows')
          /\ \A c \in Calls : At(c, "record") =>
                /\ Good(call[c].key, call[c].count, rows')
                /\ call[c].mode = "noop" => Sorted(call[c].key, call[c].count, rows')
      BY <1>0, <2>2, <2>3, <2>4 DEF OutcomeInv
    <2> QED BY <2>1, <2>6, <2>7 DEF OutcomeInv, At
  <1>2. ASSUME NEW c \in Calls, Rank(c) PROVE OutcomeInv'
    <2> DEFINE l == [at |-> "last", key |-> OrderBy(stats), last |-> 0]
    <2>1. \A d \in Calls : call[d].at \notin Steps("optimize")
      BY <1>2 DEF Rank, Enter, Exported
    <2>2. call'[c] = l /\ \A d \in Calls : d # c => call'[d] = call[d]
      BY <1>2, <1>b DEF Rank
    <2>3. Good(optimized.order_by, optimized.row_count, rows)
      BY <2>1 DEF OutcomeInv, At, Steps
    <2>4. UNCHANGED <<rows, optimized>>
      BY <1>2 DEF Rank, storeVars, cacheVars
    <2>5. call'[c].at = "last"
      BY <2>2
    <2> HIDE DEF l
    <2> QED BY <2>1, <2>2, <2>3, <2>4, <2>5, OutcomeOf
  <1>3. ASSUME NEW c \in Calls, LastOptimize(c) PROVE OutcomeInv'
    <2> DEFINE l == [at |-> "shape", key |-> call[c].key,
                     last |-> IF optimized.order_by = call[c].key THEN optimized.row_count ELSE 0]
    <2>1. call[c].at \in Steps("optimize") \ {"record"}
      BY <1>3 DEF LastOptimize, At, Steps
    <2>2. call'[c] = l /\ \A d \in Calls : d # c => call'[d] = call[d]
      BY <1>3, <1>b DEF LastOptimize
    <2>3. /\ call'[c].at = "shape"
          /\ call'[c].last = 0 \/ (call'[c].key = optimized.order_by /\ call'[c].last = optimized.row_count)
      BY <2>2
    <2>4. UNCHANGED <<rows, optimized>>
      BY <1>3 DEF LastOptimize, storeVars, cacheVars
    <2>5. Good(optimized.order_by, optimized.row_count, rows)
      BY <1>c, <2>1
    <2>6. \A d \in Calls : d # c => call'[d].at \notin Steps("optimize")
      BY <1>a, <2>1, <2>2
    <2> HIDE DEF l
    <2> QED BY <2>3, <2>4, <2>5, <2>6, OutcomeOf
  <1>4. ASSUME NEW c \in Calls, Shape(c) PROVE OutcomeInv'
    <2> DEFINE n == Cardinality(LivePlaces(rows))
               grown == call[c].last > 0 /\ n = Max({0} \union LivePlaces(rows))
    <2>1. call[c].at = "shape" /\ call[c].at \in Steps("optimize") \ {"record"}
      BY <1>4 DEF Shape, At, Steps
    <2>2. call[c].last \in Nat /\ n \in Nat
      BY <1>0, <2>1, HeldAt, LiveFacts
    <2>3. \E mode \in Modes :
             /\ Goto(c, [at |-> IF mode = "noop" THEN "record" ELSE "begin",
                         key |-> call[c].key, last |-> call[c].last, count |-> n, mode |-> mode])
             /\ mode = "noop" => grown /\ n = call[c].last
             /\ mode = "incremental" => n > call[c].last
      <3> DEFINE mode == CASE grown /\ n = call[c].last -> "noop"
                           [] grown /\ n > call[c].last -> "incremental"
                           [] OTHER -> "full"
      <3>1. Goto(c, [at |-> IF mode = "noop" THEN "record" ELSE "begin",
                     key |-> call[c].key, last |-> call[c].last, count |-> n, mode |-> mode])
        BY <1>4 DEF Shape
      <3> HIDE DEF grown, n
      <3>2. /\ mode \in Modes
            /\ mode = "noop" => grown /\ n = call[c].last
            /\ mode = "incremental" => n > call[c].last
        <4>1. CASE grown /\ n = call[c].last
          BY <4>1 DEF Modes
        <4>2. CASE grown /\ n > call[c].last
          <5>1. n # call[c].last
            BY <2>2, <4>2
          <5>2. mode = "incremental"
            BY <4>2, <5>1
          <5> QED BY <4>2, <5>2 DEF Modes
        <4>3. CASE ~(grown /\ n = call[c].last) /\ ~(grown /\ n > call[c].last)
          BY <4>3 DEF Modes
        <4> QED BY <4>1, <4>2, <4>3
      <3> HIDE DEF mode
      <3> QED BY <3>1, <3>2
    <2>4. PICK mode \in Modes :
             /\ Goto(c, [at |-> IF mode = "noop" THEN "record" ELSE "begin",
                         key |-> call[c].key, last |-> call[c].last, count |-> n, mode |-> mode])
             /\ mode = "noop" => grown /\ n = call[c].last
             /\ mode = "incremental" => n > call[c].last
      BY <2>3
    <2>5. Good(optimized.order_by, optimized.row_count, rows)
      BY <1>c, <2>1
    <2>6. UNCHANGED <<rows, optimized>>
      BY <1>4 DEF Shape, storeVars, cacheVars
    <2>7. mode = "noop" => Sorted(call[c].key, n, rows)
      <3> SUFFICES ASSUME mode = "noop" PROVE Sorted(call[c].key, n, rows)
        OBVIOUS
      <3>1. n = Max({0} \union LivePlaces(rows)) /\ n = call[c].last /\ call[c].last > 0
        BY <2>4
      <3>2. ~Holed(rows)
        BY <1>0, <3>1, NotHoled
      <3>3. call[c].key = optimized.order_by /\ call[c].last = optimized.row_count
        BY <2>1, <2>2, <3>1 DEF OutcomeInv, At
      <3> HIDE DEF n
      <3>4. optimized.row_count # 0
        BY <2>2, <3>1, <3>3
      <3>5. Sorted(optimized.order_by, optimized.row_count, rows)
        BY <2>5, <3>2, <3>4 DEF Good
      <3> QED BY <3>1, <3>3, <3>5
    <2> DEFINE l == [at |-> IF mode = "noop" THEN "record" ELSE "begin",
                     key |-> call[c].key, last |-> call[c].last, count |-> n, mode |-> mode]
    <2>8. call'[c] = l /\ \A d \in Calls : d # c => call'[d] = call[d]
      BY <1>b, <2>4
    <2>9. \A d \in Calls : d # c => call'[d].at \notin Steps("optimize")
      BY <1>a, <2>1, <2>8
    <2> HIDE DEF n, grown
    <2>10. /\ l.at = IF mode = "noop" THEN "record" ELSE "begin"
           /\ l.key = call[c].key /\ l.last = call[c].last /\ l.count = n /\ l.mode = mode
      OBVIOUS
    <2> HIDE DEF l
    <2>11. call'[c].at = "record" =>
              /\ Good(call'[c].key, call'[c].count, rows')
              /\ call'[c].mode = "noop" => Sorted(call'[c].key, call'[c].count, rows')
      BY <2>6, <2>7, <2>8, <2>10 DEF Good
    <2>12. call'[c].at = "begin" =>
              /\ call'[c].count <= Cardinality(LivePlaces(rows'))
              /\ call'[c].mode = "incremental" => call'[c].last < call'[c].count
      BY <2>2, <2>4, <2>6, <2>8, <2>10 DEF n
    <2>13. call'[c].at \in {"record", "begin"}
      BY <2>8, <2>10
    <2> QED BY <2>5, <2>6, <2>9, <2>11, <2>12, <2>13, OutcomeOf
  <1>5. ASSUME NEW c \in Calls, Begin(c) PROVE OutcomeInv'
    <2> DEFINE l == [at |-> "transaction", key |-> call[c].key, last |-> call[c].last,
                     count |-> call[c].count, mode |-> call[c].mode, snap |-> rows,
                     inserted |-> inserted, moved |-> FALSE]
    <2>1. call[c].at = "begin" /\ call[c].at \in Steps("optimize") \ {"record"}
      BY <1>5 DEF Begin, At, Steps
    <2>2. call'[c] = l /\ \A d \in Calls : d # c => call'[d] = call[d]
      BY <1>5, <1>b DEF Begin
    <2>3. UNCHANGED <<rows, optimized>>
      BY <1>5 DEF Begin, storeVars, cacheVars
    <2>4. Good(optimized.order_by, optimized.row_count, rows)
      BY <1>c, <2>1
    <2>5. \A d \in Calls : d # c => call'[d].at \notin Steps("optimize")
      BY <1>a, <2>1, <2>2
    <2>6. /\ call'[c].at = "transaction"
          /\ call'[c].count <= Cardinality(LivePlaces(call'[c].snap))
          /\ call'[c].mode = "incremental" => call'[c].last < call'[c].count
      BY <2>1, <2>2 DEF OutcomeInv, At
    <2> HIDE DEF l
    <2> QED BY <2>3, <2>4, <2>5, <2>6, OutcomeOf
  <1>6. ASSUME NEW c \in Calls, CommitTail(c) \/ CommitFull(c) PROVE OutcomeInv'
    <2>1. At(c, "transaction") /\ ~call[c].moved /\ call[c].at \in Steps("optimize")
      BY <1>6 DEF CommitTail, CommitFull, At, Steps
    <2>2. /\ call[c].key \in Orders /\ call[c].snap \in Seq(Rows \union {Deleted})
          /\ call[c].last \in Nat /\ call[c].count \in Nat
      BY <2>1, CommitFacts
    <2>3. /\ call[c].count <= Cardinality(LivePlaces(call[c].snap))
          /\ call[c].mode = "incremental" => call[c].last < call[c].count
      BY <2>1 DEF OutcomeInv
    <2>4. Cardinality(LivePlaces(call[c].snap)) \in Nat
      BY <2>2, LiveFacts
    <2>5. Good(call[c].key, call[c].count, rows') /\ call[c].mode # "noop"
      <3>1. CASE CommitTail(c)
        <4> DEFINE P == TailPlaces(c)
                   C == Cardinality(P)
        <4>1. call[c].mode = "incremental"
          BY <3>1 DEF CommitTail
        <4>2. call[c].last < Cardinality(LivePlaces(call[c].snap))
          BY <2>2, <2>3, <2>4, <4>1
        <4>3. PICK i \in LivePlaces(call[c].snap) : i > call[c].last
          BY <2>2, <4>2, SomeTail
        <4>4. i \in P
          BY <4>3 DEF TailPlaces
        <4>5. P \in SUBSET LivePlaces(call[c].snap) /\ TailMoved(rows', rows, P) /\ P \subseteq DOMAIN rows
          BY <3>1, CommitTailRows
        <4> HIDE DEF P
        <4>6. /\ C \in Nat /\ rows' \in Seq(Rows \union {Deleted}) /\ Len(rows') = Len(rows) + C
              /\ \A m \in 1 .. Len(rows) : rows'[m] = IF m \in P THEN Deleted ELSE rows[m]
              /\ \A m \in 1 .. C : rows'[Len(rows) + m] \in Rows
          BY <4>5 DEF TailMoved
        <4>7. C # 0
          <5>1. IsFiniteSet(P)
            BY <2>2, <4>5, LiveFacts, FS_Subset
          <5> QED BY <4>4, <5>1, FS_EmptySet
        <4> HIDE DEF C
        <4>8. 1 \in 1 .. C /\ Len(rows) + 1 \in 1 .. Len(rows') /\ DOMAIN rows' = 1 .. Len(rows')
          BY <1>0, <4>6, <4>7
        <4>9. i \in 1 .. Len(rows) /\ i \in 1 .. Len(rows') /\ i < Len(rows) + 1
          <5>1. i \in DOMAIN rows /\ DOMAIN rows = 1 .. Len(rows)
            BY <1>0, <4>4, <4>5
          <5> QED BY <1>0, <4>6, <5>1
        <4>10. rows'[i] = Deleted /\ rows'[Len(rows) + 1] # Deleted
          BY <4>4, <4>6, <4>8, <4>9, ConstantsType
        <4>11. Holed(rows')
          BY <4>8, <4>9, <4>10 DEF Holed
        <4> QED BY <4>1, <4>11 DEF Good
      <3>2. CASE CommitFull(c)
        <4>1. call[c].mode = "full"
              /\ rows' = OrderedBy(call[c].key, Selection(call[c].snap, LivePlaces(call[c].snap)))
          BY <3>2 DEF CommitFull
        <4>2. /\ rows' \in Seq(Rows) /\ Len(rows') = Cardinality(LivePlaces(call[c].snap))
              /\ IsOrdered(call[c].key, rows')
          BY <2>2, <4>1, AllSortedFacts
        <4>3. /\ call[c].count <= Len(rows') /\ DOMAIN rows' = 1 .. Len(rows') /\ Len(rows') \in Nat
              /\ \A m \in 1 .. Len(rows') : rows'[m] \in Rows
          BY <2>3, <4>2
        <4>4. \A m \in 1 .. call[c].count : m \in 1 .. Len(rows')
          BY <2>2, <4>3
        <4>5. \A m \in 1 .. call[c].count : rows'[m] # Deleted
          BY <4>3, <4>4, ConstantsType
        <4>6. \A m, k \in 1 .. call[c].count : m < k => ~Less(call[c].key, rows'[k], rows'[m])
          BY <4>2, <4>3, <4>4 DEF IsOrdered
        <4>7. Sorted(call[c].key, call[c].count, rows')
          BY <4>3, <4>5, <4>6 DEF Sorted
        <4> QED BY <4>1, <4>7 DEF Good
      <3> QED BY <1>6, <3>1, <3>2
    <2>6. PICK replaced \in BOOLEAN : Moved(c, replaced)
      BY <1>6 DEF CommitTail, CommitFull
    <2>7. /\ call'[c] = [at |-> "record", key |-> call[c].key, last |-> call[c].last,
                         count |-> call[c].count, mode |-> call[c].mode]
      BY <2>6 DEF Moved
    <2>8. ASSUME NEW d \in Calls, d # c PROVE call'[d].at \notin Steps("optimize")
      <3>1. call[d].at \notin Steps("optimize")
        BY <1>a, <2>1, <2>8
      <3>2. CASE call'[d] = call[d]
        BY <3>1, <3>2
      <3>3. CASE call'[d] # call[d]
        <4>1. call[d].at \in Steps("project") /\ call'[d] = [call[d] EXCEPT !.gone = {Len(rows)}]
          BY <2>6, <2>8, <3>1, <3>3 DEF Moved, At, Steps
        <4>2. call[d] \in [at : {"copy", "register"}, group : GroupSets, gone : SUBSET Nat]
          BY <1>0, <4>1, HeldAt DEF Steps
        <4> QED BY <4>1, <4>2 DEF Steps
      <3> QED BY <3>2, <3>3
    <2>9. /\ call'[c].at = "record" /\ call'[c].key = call[c].key /\ call'[c].count = call[c].count
          /\ call'[c].mode = call[c].mode
      BY <2>7
    <2>10. Good(call'[c].key, call'[c].count, rows') /\ call'[c].mode # "noop"
      BY <2>5, <2>9
    <2> QED BY <2>8, <2>9, <2>10, OutcomeOf
  <1>7. ASSUME NEW c \in Calls, Record(c) PROVE OutcomeInv'
    <2>1. call[c].at = "record" /\ call[c].at \in Steps("optimize")
      BY <1>7 DEF Record, At, Steps
    <2>2. call'[c] = Idle /\ \A d \in Calls : d # c => call'[d] = call[d]
      BY <1>7, <1>b DEF Record
    <2>3. rows' = rows /\ optimized'.order_by = call[c].key /\ optimized'.row_count = call[c].count
      BY <1>7 DEF Record, storeVars
    <2>4. Good(call[c].key, call[c].count, rows)
      BY <2>1 DEF OutcomeInv, At
    <2>5. \A d \in Calls : d # c => call'[d].at \notin Steps("optimize")
      BY <1>a, <2>1, <2>2
    <2>6. call'[c].at = "idle"
      BY <2>2 DEF Idle
    <2>7. Good(optimized'.order_by, optimized'.row_count, rows')
      BY <2>3, <2>4
    <2> QED BY <2>5, <2>6, <2>7, OutcomeOf
  <1>8. ASSUME NEW c \in Calls, NEW l, Goto(c, l), UNCHANGED <<rows, optimized>>,
               call[c].at # "record", l.at \notin Steps("optimize")
        PROVE  OutcomeInv'
    BY <1>8, <1>b, OutcomeStays
  <1>9. ASSUME NEW c \in Calls,
               \/ Fail(c) \/ Pick(c) \/ CopyFails(c) \/ Register(c)
               \/ Snapshot(c) \/ InsertStats(c) \/ ReadSaved(c) \/ Load(c)
        PROVE  OutcomeInv'
    BY <1>8, <1>9 DEF Fail, Pick, CopyFails, Register, Snapshot, InsertStats, ReadSaved, Load, Enter, At, Idle,
                      Steps, storeVars, cacheVars
  <1>10. ASSUME NEW c \in Calls, Copy(c) PROVE OutcomeInv'
    <2>1. call[c] \in [at : {"copy", "register"}, group : GroupSets, gone : SUBSET Nat] /\ call[c].at = "copy"
      BY <1>0, <1>10, HeldAt DEF Copy, At
    <2>2. rows' = rows /\ optimized' = optimized /\ Goto(c, [call[c] EXCEPT !.at = "register"])
      BY <1>10 DEF Copy, cacheVars
    <2> QED BY <1>8, <2>1, <2>2 DEF Steps
  <1>11. ASSUME NEW c \in Calls, Replace(c) PROVE OutcomeInv'
    <2>1. call[c] \in [at : {"replace", "insert", "merge"}, stats : Statistics] /\ call[c].at = "replace"
      BY <1>0, <1>11, HeldAt DEF Replace, At
    <2> QED BY <1>8, <1>11, <2>1 DEF Replace, Steps, cacheVars
  <1>12. ASSUME Restart PROVE OutcomeInv'
    BY <1>12 DEF Restart, OutcomeInv, At, Steps, Idle, NotOptimized, Good
  <1>13. ASSUME (\E q \in Queries : Query(q)) \/ (\E g \in GroupSets : CollectGroupSet(g)) \/ UNCHANGED vars
         PROVE  OutcomeInv'
    <2>1. UNCHANGED <<rows, optimized, call>>
      BY <1>13 DEF Query, CollectGroupSet, vars, storeVars, cacheVars
    <2> QED BY <2>1, OutcomeStays
  <1> QED BY <1>1, <1>2, <1>3, <1>4, <1>5, <1>6, <1>7, <1>9, <1>10, <1>11, <1>12, <1>13 DEF Next

\* When raw_optimize finds nothing to do, the rows it counted are in the order of
\* its key, whatever was appended since they were sorted and wherever an earlier
\* call failed, if calls of raw_optimize do not overlap.
THEOREM NoopMeansOrdered ==
    ASSUME <<"optimize", "optimize">> \in Apart
    PROVE  Spec => []NoopIsOrdered
  <1>1. TypeInv /\ OutcomeInv => NoopIsOrdered
    <2> SUFFICES ASSUME TypeInv, OutcomeInv, NEW c \in Calls, At(c, "record"), call[c].mode = "noop"
                 PROVE  IsOrdered(call[c].key, SubSeq(rows, 1, call[c].count))
      BY DEF NoopIsOrdered
    <2>1. rows \in Seq(Rows \union {Deleted}) /\ call[c].count \in Nat
      BY HeldAt DEF TypeInv, TypeOK, At
    <2>2. Sorted(call[c].key, call[c].count, rows)
      BY DEF OutcomeInv
    <2> QED BY <2>1, <2>2, SortedPrefix
  <1> QED
    BY <1>1, InitTypeInv, InitSnapInv, InitOutcomeInv, TypeInvStep, SnapInvStep, OutcomeInvStep, PTL DEF Spec
================================================================================
