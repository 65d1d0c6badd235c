------------------------------- MODULE QueueFacts -------------------------------
(***************************************************************************)
(* Lemmas about queues: sequences without repetitions that grow by one     *)
(* element or by another queue and shrink by their head; about the         *)
(* selection of some places of a sequence; and about rankings.             *)
(***************************************************************************)
EXTENDS Integers, Sequences, Functions, Selection, FiniteSetTheorems, TLAPS

\* The empty queue holds nothing.
LEMMA EmptyQueue == Range(<<>>) = {} /\ IsInjective(<<>>)
  BY DEF Range, IsInjective

\* A queue grows by a request it does not hold.
LEMMA AppendedQueue ==
    ASSUME NEW S, NEW q \in Seq(S), NEW e \in S, e \notin Range(q), IsInjective(q)
    PROVE  /\ Range(Append(q, e)) = Range(q) \union {e}
           /\ IsInjective(Append(q, e))
  <1> DEFINE a == Append(q, e)
  <1>1. /\ Len(q) \in Nat /\ DOMAIN q = 1..Len(q)
        /\ DOMAIN a = 1..(Len(q) + 1)
        /\ \A i \in 1..Len(q) : a[i] = q[i]
        /\ a[Len(q) + 1] = e
    OBVIOUS
  <1> HIDE DEF a
  <1>2. \A i \in 1..(Len(q) + 1) : i \in 1..Len(q) \/ i = Len(q) + 1
    BY <1>1
  <1>3. \A i \in 1..Len(q) : i \in 1..(Len(q) + 1) /\ i # Len(q) + 1
    BY <1>1
  <1>4. Len(q) + 1 \in 1..(Len(q) + 1)
    BY <1>1
  <1>5. Range(a) = Range(q) \union {e}
    BY <1>1, <1>2, <1>3, <1>4 DEF Range
  <1>6. IsInjective(a)
    BY <1>1, <1>2 DEF IsInjective, Range
  <1> QED
    BY <1>5, <1>6 DEF a

\* A batch shrinks by its head.
LEMMA ShortenedQueue ==
    ASSUME NEW S, NEW q \in Seq(S), q # <<>>, IsInjective(q)
    PROVE  /\ Head(q) \in Range(q)
           /\ Range(Tail(q)) = Range(q) \ {Head(q)}
           /\ IsInjective(Tail(q))
  <1> DEFINE z == Tail(q)
  <1>1. /\ Len(q) \in Nat /\ Len(q) > 0 /\ DOMAIN q = 1..Len(q)
        /\ DOMAIN z = 1..(Len(q) - 1)
        /\ \A i \in 1..(Len(q) - 1) : z[i] = q[i + 1]
        /\ Head(q) = q[1]
    OBVIOUS
  <1> HIDE DEF z
  <1>2. \A i \in 1..(Len(q) - 1) : i + 1 \in 1..Len(q) /\ i + 1 # 1
    BY <1>1
  <1>3. \A i \in 1..Len(q) : i = 1 \/ (i - 1 \in 1..(Len(q) - 1) /\ (i - 1) + 1 = i)
    BY <1>1
  <1>4. 1 \in 1..Len(q)
    BY <1>1
  <1>5. Range(z) \subseteq Range(q) \ {Head(q)}
    BY <1>1, <1>2, <1>4 DEF Range, IsInjective
  <1>6. ASSUME NEW i \in 1..Len(q), q[i] # Head(q)
        PROVE  q[i] \in Range(z)
    <2>1. i - 1 \in 1..(Len(q) - 1) /\ (i - 1) + 1 = i
      BY <1>1, <1>3, <1>6
    <2>2. z[i - 1] = q[i]
      BY <1>1, <2>1
    <2> QED
      BY <1>1, <2>1, <2>2 DEF Range
  <1>7. Range(q) \ {Head(q)} \subseteq Range(z)
    BY <1>1, <1>6 DEF Range
  <1>8. ASSUME NEW i \in 1..(Len(q) - 1), NEW j \in 1..(Len(q) - 1), z[i] = z[j]
        PROVE  i = j
    <2>1. i + 1 = j + 1
      BY <1>1, <1>2, <1>8 DEF IsInjective
    <2> QED
      BY <1>1, <2>1
  <1>9. IsInjective(z)
    BY <1>1, <1>8 DEF IsInjective
  <1>10. Head(q) \in Range(q)
    BY <1>1, <1>4 DEF Range
  <1> QED
    BY <1>5, <1>7, <1>9, <1>10 DEF z

\* A queue grows by another one that it shares nothing with.
LEMMA JoinedQueue ==
    ASSUME NEW S, NEW q \in Seq(S), NEW u \in Seq(S)
    PROVE  /\ q \o u \in Seq(S)
           /\ Range(q \o u) = Range(q) \union Range(u)
           /\ IsInjective(q) /\ IsInjective(u) /\ Range(q) \intersect Range(u) = {}
                => IsInjective(q \o u)
  <1> DEFINE c == q \o u
  <1>1. /\ Len(q) \in Nat /\ Len(u) \in Nat
        /\ DOMAIN q = 1..Len(q) /\ DOMAIN u = 1..Len(u)
        /\ DOMAIN c = 1..(Len(q) + Len(u))
        /\ \A i \in 1..(Len(q) + Len(u)) :
             c[i] = IF i <= Len(q) THEN q[i] ELSE u[i - Len(q)]
        /\ c \in Seq(S)
    OBVIOUS
  <1> HIDE DEF c
  <1>2. \A i \in 1..Len(q) : i \in 1..(Len(q) + Len(u)) /\ i <= Len(q)
    BY <1>1
  <1>3. \A i \in 1..Len(u) : /\ Len(q) + i \in 1..(Len(q) + Len(u))
                             /\ ~(Len(q) + i <= Len(q)) /\ (Len(q) + i) - Len(q) = i
    BY <1>1
  <1>4. \A i \in 1..(Len(q) + Len(u)) :
          IF i <= Len(q) THEN i \in 1..Len(q) ELSE i - Len(q) \in 1..Len(u)
    BY <1>1
  <1>5. Range(c) \subseteq Range(q) \union Range(u)
    BY <1>1, <1>4 DEF Range
  <1>6. Range(q) \subseteq Range(c)
    BY <1>1, <1>2 DEF Range
  <1>7. Range(u) \subseteq Range(c)
    <2> SUFFICES ASSUME NEW i \in 1..Len(u) PROVE u[i] \in Range(c)
      BY <1>1 DEF Range
    <2>1. c[Len(q) + i] = u[i]
      BY <1>1, <1>3
    <2> QED
      BY <1>1, <1>3, <2>1 DEF Range
  <1>8. ASSUME IsInjective(q), IsInjective(u), Range(q) \intersect Range(u) = {},
               NEW i \in DOMAIN c, NEW j \in DOMAIN c, c[i] = c[j]
        PROVE  i = j
    <2>1. \A k \in 1..Len(q) : q[k] \in Range(q)
      BY <1>1 DEF Range
    <2>2. \A k \in 1..Len(u) : u[k] \in Range(u)
      BY <1>1 DEF Range
    <2>3. CASE i <= Len(q) /\ j <= Len(q)
      BY <1>1, <1>4, <1>8, <2>3 DEF IsInjective
    <2>4. CASE ~(i <= Len(q)) /\ ~(j <= Len(q))
      <3>1. i - Len(q) = j - Len(q)
        BY <1>1, <1>4, <1>8, <2>4 DEF IsInjective
      <3> QED
        BY <1>1, <3>1
    <2>5. CASE i <= Len(q) /\ ~(j <= Len(q))
      BY <1>1, <1>4, <1>8, <2>1, <2>2, <2>5
    <2>6. CASE ~(i <= Len(q)) /\ j <= Len(q)
      BY <1>1, <1>4, <1>8, <2>1, <2>2, <2>6
    <2> QED
      BY <2>3, <2>4, <2>5, <2>6
  <1>9. IsInjective(q) /\ IsInjective(u) /\ Range(q) \intersect Range(u) = {} => IsInjective(c)
    BY <1>8 DEF IsInjective
  <1> QED
    BY <1>1, <1>5, <1>6, <1>7, <1>9 DEF c

--------------------------------------------------------------------------------
\* The places up to one.
LEMMA UptoPlace ==
    ASSUME NEW places \in SUBSET Nat, NEW i \in Nat, NEW k \in Nat
    PROVE  /\ i <= k => {j \in places : j <= i} \subseteq {j \in places : j <= k}
           /\ k \in places => k \in {j \in places : j <= k}
           /\ i < k => k \notin {j \in places : j <= i}
  <1>1. ASSUME i <= k, NEW j \in places, j <= i PROVE j <= k
    <2>1. j \in Nat
      OBVIOUS
    <2> QED BY <1>1, <2>1
  <1>2. i <= k => {j \in places : j <= i} \subseteq {j \in places : j <= k}
    BY <1>1
  <1>3. k <= k /\ (i < k => ~(k <= i))
    OBVIOUS
  <1> QED BY <1>2, <1>3

\* Every number up to how many places there are is the rank of one of them.
LEMMA NthPlace ==
    ASSUME NEW places \in SUBSET Nat, IsFiniteSet(places),
           NEW n \in 1 .. Cardinality(places)
    PROVE  /\ Nth(places, n) \in places
           /\ Cardinality({j \in places : j <= Nth(places, n)}) = n
  <1> DEFINE Upto(i) == {j \in places : j <= i}
             rank == [i \in places |-> Cardinality(Upto(i))]
             C == Cardinality(places)
  <1>1. C \in Nat /\ IsFiniteSet(1 .. C) /\ Cardinality(1 .. C) = C
    BY FS_CardinalityType, FS_Interval
  <1>2. \A i \in places : /\ IsFiniteSet(Upto(i)) /\ Cardinality(Upto(i)) \in 1 .. C
    <2> SUFFICES ASSUME NEW i \in places
                 PROVE  IsFiniteSet(Upto(i)) /\ Cardinality(Upto(i)) \in 1 .. C
      OBVIOUS
    <2>1. IsFiniteSet(Upto(i)) /\ Cardinality(Upto(i)) <= C
      BY FS_Subset
    <2>2. Cardinality(Upto(i)) # 0
      BY <2>1, FS_EmptySet
    <2> QED BY <1>1, <2>1, <2>2, FS_CardinalityType
  <1>3. rank \in [places -> 1 .. C]
    BY <1>2
  <1>4. ASSUME NEW i \in places, NEW k \in places, i < k
        PROVE  rank[i] # rank[k]
    <2>0. i \in Nat /\ k \in Nat
      OBVIOUS
    <2>1. Upto(i) \subseteq Upto(k) /\ k \in Upto(k) /\ k \notin Upto(i)
      BY <1>4, <2>0, UptoPlace
    <2>2. Upto(i) # Upto(k) /\ Upto(i) \in SUBSET Upto(k)
      BY <2>1
    <2> HIDE DEF Upto
    <2>3. Cardinality(Upto(k)) # Cardinality(Upto(i))
      BY <1>2, <2>2, FS_Subset
    <2> QED BY <2>3
  <1>5. \A i, k \in places : rank[i] = rank[k] => i = k
    BY <1>4
  <1> HIDE DEF rank, Upto, C
  <1>6. rank \in Injection(places, 1 .. C)
    BY <1>3, <1>5 DEF Injection, IsInjective
  <1>7. rank \in Surjection(places, 1 .. C)
    BY <1>1, <1>6, FS_Injection DEF C
  <1>8. \E i \in places : rank[i] = n
    BY <1>7 DEF Surjection, C
  <1>9. \E i \in places : Cardinality({j \in places : j <= i}) = n
    BY <1>8 DEF rank, Upto
  <1> QED BY <1>9 DEF Nth

\* The ranks are in the order of the places.
LEMMA NthGrows ==
    ASSUME NEW places \in SUBSET Nat, IsFiniteSet(places),
           NEW n \in 1 .. Cardinality(places), NEW m \in 1 .. Cardinality(places), n < m
    PROVE  Nth(places, n) < Nth(places, m)
  <1> DEFINE i == Nth(places, n)
             k == Nth(places, m)
  <1>1. /\ i \in places /\ Cardinality({j \in places : j <= i}) = n
        /\ k \in places /\ Cardinality({j \in places : j <= k}) = m
    BY NthPlace
  <1> HIDE DEF i, k
  <1>2. ASSUME k <= i PROVE FALSE
    <2>1. {j \in places : j <= k} \subseteq {j \in places : j <= i}
      <3>1. i \in Nat /\ k \in Nat
        BY <1>1
      <3> QED BY <1>2, <3>1, UptoPlace
    <2>2. IsFiniteSet({j \in places : j <= i})
      BY FS_Subset
    <2>3. m <= n
      BY <1>1, <2>1, <2>2, FS_Subset
    <2>4. m \in Int /\ n \in Int
      OBVIOUS
    <2> QED BY <2>3, <2>4
  <1>3. i \in Nat /\ k \in Nat
    BY <1>1
  <1> QED BY <1>2, <1>3 DEF i, k

\* A selection holds what the sequence holds at the places, each once.
LEMMA SelectionFacts ==
    ASSUME NEW S, NEW s \in Seq(S), NEW places \in SUBSET DOMAIN s
    PROVE  /\ IsFiniteSet(places) /\ Cardinality(places) \in Nat
           /\ Selection(s, places) \in Seq(S)
           /\ DOMAIN Selection(s, places) = 1 .. Cardinality(places)
           /\ Len(Selection(s, places)) = Cardinality(places)
           /\ \A n \in 1 .. Cardinality(places) : /\ Nth(places, n) \in places
                                                  /\ Selection(s, places)[n] = s[Nth(places, n)]
           /\ \A i \in places : \E n \in 1 .. Cardinality(places) : Nth(places, n) = i
           /\ \A n, m \in 1 .. Cardinality(places) :
                 n < m => Nth(places, n) < Nth(places, m)
  <1> DEFINE C == Cardinality(places)
             t == Selection(s, places)
  <1>1. /\ Len(s) \in Nat /\ DOMAIN s = 1 .. Len(s)
        /\ \A i \in DOMAIN s : s[i] \in S
    OBVIOUS
  <1>2. places \in SUBSET Nat /\ IsFiniteSet(places) /\ C \in Nat
    <2>1. IsFiniteSet(1 .. Len(s))
      BY <1>1, FS_Interval
    <2>2. IsFiniteSet(places)
      BY <1>1, <2>1, FS_Subset
    <2> QED BY <1>1, <2>2, FS_CardinalityType
  <1>3. \A n \in 1 .. C : Nth(places, n) \in places
    BY <1>2, NthPlace
  <1>4. /\ t = [n \in 1 .. C |-> s[Nth(places, n)]]
        /\ DOMAIN t = 1 .. C
        /\ \A n \in 1 .. C : t[n] = s[Nth(places, n)] /\ t[n] \in S
    BY <1>1, <1>3 DEF Selection
  <1>5. t \in Seq(S) /\ Len(t) = C
    <2>1. t \in [1 .. C -> S]
      BY <1>4
    <2> HIDE DEF t, C
    <2> QED BY <1>2, <2>1
  <1>6. ASSUME NEW i \in places
        PROVE  \E n \in 1 .. C : Nth(places, n) = i
    <2> DEFINE Upto(x) == {j \in places : j <= x}
               n == Cardinality(Upto(i))
    <2>0. i \in Nat
      BY <1>2
    <2>1. IsFiniteSet(Upto(i)) /\ n \in Nat /\ n <= C
      BY <1>2, FS_Subset, FS_CardinalityType
    <2>2. n # 0
      <3>1. i \in Upto(i)
        BY <1>2, <2>0, UptoPlace
      <3> HIDE DEF Upto
      <3> QED BY <2>1, <3>1, FS_EmptySet
    <2>3. n \in 1 .. C
      BY <1>2, <2>1, <2>2
    <2> DEFINE k == Nth(places, n)
    <2>4. k \in places /\ Cardinality(Upto(k)) = n
      BY <1>2, <2>3, NthPlace
    <2>5. k \in Nat
      BY <1>2, <2>4
    <2> HIDE DEF k, n
    <2>6. ASSUME k < i PROVE FALSE
      <3>1. Upto(k) \subseteq Upto(i) /\ i \in Upto(i) /\ i \notin Upto(k)
        BY <1>2, <2>0, <2>5, <2>6, UptoPlace
      <3> HIDE DEF Upto
      <3> QED BY <2>1, <2>4, <3>1, FS_Subset DEF n
    <2>7. ASSUME i < k PROVE FALSE
      <3>1. Upto(i) \subseteq Upto(k) /\ k \in Upto(k) /\ k \notin Upto(i)
        BY <1>2, <2>0, <2>4, <2>5, <2>7, UptoPlace
      <3>2. IsFiniteSet(Upto(k))
        BY <1>2, FS_Subset
      <3> HIDE DEF Upto
      <3> QED BY <2>4, <3>1, <3>2, FS_Subset DEF n
    <2>8. k = i
      BY <2>0, <2>5, <2>6, <2>7
    <2> QED BY <2>3, <2>8 DEF k
  <1>7. \A n, m \in 1 .. C : n < m => Nth(places, n) < Nth(places, m)
    BY <1>2, NthGrows
  <1> QED BY <1>2, <1>3, <1>4, <1>5, <1>6, <1>7

\* A selection of a sequence without repetitions has none.
LEMMA SelectionRange ==
    ASSUME NEW S, NEW s \in Seq(S), NEW places \in SUBSET DOMAIN s
    PROVE  /\ Range(Selection(s, places)) = {s[i] : i \in places}
           /\ \A m, n \in DOMAIN Selection(s, places) :
                 Selection(s, places)[m] = Selection(s, places)[n] /\ m # n =>
                   \E i, j \in places : i # j /\ s[i] = s[j]
  <1> DEFINE C == Cardinality(places)
             t == Selection(s, places)
  <1>1. /\ C \in Nat /\ DOMAIN t = 1 .. C
        /\ \A n \in 1 .. C : Nth(places, n) \in places /\ t[n] = s[Nth(places, n)]
        /\ \A i \in places : \E n \in 1 .. C : Nth(places, n) = i
        /\ \A n, m \in 1 .. C : n < m => Nth(places, n) < Nth(places, m)
    BY SelectionFacts
  <1>2. \A i \in places : i \in Nat
    OBVIOUS
  <1> HIDE DEF C, t
  <1>3. Range(t) = {s[i] : i \in places}
    BY <1>1 DEF Range
  <1>4. \A n, m \in 1 .. C : n # m => Nth(places, n) # Nth(places, m)
    <2> SUFFICES ASSUME NEW n \in 1 .. C, NEW m \in 1 .. C, n # m
                 PROVE  Nth(places, n) # Nth(places, m)
      OBVIOUS
    <2>1. n < m \/ m < n
      BY <1>1
    <2>2. Nth(places, n) < Nth(places, m) \/ Nth(places, m) < Nth(places, n)
      BY <1>1, <2>1
    <2> QED BY <1>1, <1>2, <2>2
  <1>5. \A m, n \in DOMAIN t : t[m] = t[n] /\ m # n =>
                                  \E i, j \in places : i # j /\ s[i] = s[j]
    BY <1>1, <1>4
  <1> QED BY <1>3, <1>5 DEF t

\* What a queue holds, with or without repetitions, as it grows and shrinks.
LEMMA QueueHolds ==
    ASSUME NEW S, NEW q \in Seq(S)
    PROVE  /\ \A e \in S : Range(Append(q, e)) = Range(q) \union {e}
           /\ q # <<>> => Head(q) \in Range(q) /\ Range(Tail(q)) \subseteq Range(q)
  <1>1. ASSUME NEW e \in S
        PROVE  Range(Append(q, e)) = Range(q) \union {e}
    <2> DEFINE a == Append(q, e)
    <2>1. /\ Len(q) \in Nat /\ DOMAIN q = 1..Len(q)
          /\ DOMAIN a = 1..(Len(q) + 1)
          /\ \A i \in 1..Len(q) : a[i] = q[i]
          /\ a[Len(q) + 1] = e
      OBVIOUS
    <2> HIDE DEF a
    <2>2. \A i \in 1..(Len(q) + 1) : i \in 1..Len(q) \/ i = Len(q) + 1
      BY <2>1
    <2>3. \A i \in 1..Len(q) : i \in 1..(Len(q) + 1)
      BY <2>1
    <2>4. Len(q) + 1 \in 1..(Len(q) + 1)
      BY <2>1
    <2>5. Range(a) = Range(q) \union {e}
      BY <2>1, <2>2, <2>3, <2>4 DEF Range
    <2> QED BY <2>5 DEF a
  <1>2. ASSUME q # <<>>
        PROVE  Head(q) \in Range(q) /\ Range(Tail(q)) \subseteq Range(q)
    <2> DEFINE z == Tail(q)
    <2>1. /\ Len(q) \in Nat /\ Len(q) > 0 /\ DOMAIN q = 1..Len(q)
          /\ DOMAIN z = 1..(Len(q) - 1)
          /\ \A i \in 1..(Len(q) - 1) : z[i] = q[i + 1]
          /\ Head(q) = q[1]
      BY <1>2
    <2> HIDE DEF z
    <2>2. \A i \in 1..(Len(q) - 1) : i + 1 \in 1..Len(q)
      BY <2>1
    <2>3. 1 \in 1..Len(q)
      BY <2>1
    <2>4. Range(z) \subseteq Range(q)
      BY <2>1, <2>2 DEF Range
    <2> QED BY <2>1, <2>3, <2>4 DEF Range, z
  <1> QED BY <1>1, <1>2

\* All a queue holds is its head and what is left without it.
LEMMA TailHolds ==
    ASSUME NEW S, NEW q \in Seq(S), q # <<>>
    PROVE  Range(q) \subseteq Range(Tail(q)) \union {Head(q)}
  <1> DEFINE z == Tail(q)
  <1>1. /\ Len(q) \in Nat /\ Len(q) > 0 /\ DOMAIN q = 1..Len(q)
        /\ DOMAIN z = 1..(Len(q) - 1)
        /\ \A i \in 1..(Len(q) - 1) : z[i] = q[i + 1]
        /\ Head(q) = q[1]
    OBVIOUS
  <1> HIDE DEF z
  <1>2. \A i \in 1..Len(q) : i = 1 \/ (i - 1 \in 1..(Len(q) - 1) /\ (i - 1) + 1 = i)
    BY <1>1
  <1>3. \A i \in 1..Len(q) : q[i] = Head(q) \/ \E j \in DOMAIN z : q[i] = z[j]
    BY <1>1, <1>2
  <1> QED BY <1>1, <1>3 DEF Range, z

\* A queue without its head is another one.
LEMMA TailShorter ==
    ASSUME NEW S, NEW q \in Seq(S), q # <<>>
    PROVE  Tail(q) # q
  <1>1. Len(Tail(q)) = Len(q) - 1 /\ Len(q) \in Nat
    OBVIOUS
  <1>2. ASSUME Tail(q) = q PROVE FALSE
    BY <1>1, <1>2
  <1> QED BY <1>2

\* before puts any two elements of S in one order.
TotalOn(before, S) ==
    /\ \A x, y \in S : x # y => (<<x, y>> \in before \/ <<y, x>> \in before)
    /\ \A x, y \in S : x # y /\ <<x, y>> \in before => <<y, x>> \notin before
    /\ \A x, y, z \in S : x # y /\ y # z /\ x # z /\ <<x, y>> \in before /\ <<y, z>> \in before
                            => <<x, z>> \in before

\* A ranking has every element once, and those before it at lower ranks.
LEMMA RankedFacts ==
    ASSUME NEW S, IsFiniteSet(S), NEW before, TotalOn(before, S)
    PROVE  /\ Cardinality(S) \in Nat
           /\ Ranked(S, before) \in Bijection(1 .. Cardinality(S), S)
           /\ \A m, n \in 1 .. Cardinality(S) :
                  m < n => <<Ranked(S, before)[m], Ranked(S, before)[n]>> \in before
  <1> DEFINE Upto(x) == {y \in S : y = x \/ <<y, x>> \in before}
             rank == [x \in S |-> Cardinality(Upto(x))]
             C == Cardinality(S)
             r == Ranked(S, before)
  <1>1. C \in Nat /\ IsFiniteSet(1 .. C) /\ Cardinality(1 .. C) = C
    BY FS_CardinalityType, FS_Interval
  <1>2. \A x \in S : /\ IsFiniteSet(Upto(x)) /\ Cardinality(Upto(x)) \in 1 .. C
    <2> SUFFICES ASSUME NEW x \in S
                 PROVE  IsFiniteSet(Upto(x)) /\ Cardinality(Upto(x)) \in 1 .. C
      OBVIOUS
    <2>1. IsFiniteSet(Upto(x)) /\ Cardinality(Upto(x)) <= C
      BY FS_Subset
    <2>2. Cardinality(Upto(x)) # 0
      BY <2>1, FS_EmptySet
    <2> QED BY <1>1, <2>1, <2>2, FS_CardinalityType
  <1>3. ASSUME NEW x \in S, NEW y \in S, x # y, <<x, y>> \in before
        PROVE  rank[x] < rank[y]
    <2>1. Upto(x) \subseteq Upto(y)
      <3> SUFFICES ASSUME NEW z \in S, z = x \/ <<z, x>> \in before
                   PROVE  z = y \/ <<z, y>> \in before
        OBVIOUS
      <3> QED BY <1>3 DEF TotalOn
    <2>2. y \in Upto(y) /\ y \notin Upto(x)
      BY <1>3 DEF TotalOn
    <2>3. Upto(x) # Upto(y) /\ Upto(x) \in SUBSET Upto(y)
      BY <2>1, <2>2
    <2> HIDE DEF Upto
    <2>4. Cardinality(Upto(x)) <= Cardinality(Upto(y)) /\ Cardinality(Upto(y)) # Cardinality(Upto(x))
      BY <1>2, <2>3, FS_Subset
    <2> QED BY <1>1, <1>2, <2>4
  <1>4. rank \in [S -> 1 .. C]
    BY <1>2
  <1> HIDE DEF Upto
  <1>5. \A x, y \in S : rank[x] = rank[y] => x = y
    <2> SUFFICES ASSUME NEW x \in S, NEW y \in S, x # y PROVE rank[x] # rank[y]
      OBVIOUS
    <2>1. rank[x] \in Nat /\ rank[y] \in Nat
      BY <1>1, <1>4
    <2>2. rank[x] < rank[y] \/ rank[y] < rank[x]
      BY <1>3 DEF TotalOn
    <2> QED BY <2>1, <2>2
  <1>6. rank \in Injection(S, 1 .. C)
    BY <1>4, <1>5 DEF Injection, IsInjective
  <1>7. rank \in Surjection(S, 1 .. C)
    BY <1>1, <1>6, FS_Injection
  <1>8. \A n \in 1 .. C : r[n] \in S /\ rank[r[n]] = n
    <2> SUFFICES ASSUME NEW n \in 1 .. C PROVE r[n] \in S /\ rank[r[n]] = n
      OBVIOUS
    <2>1. \E x \in S : rank[x] = n
      BY <1>7 DEF Surjection
    <2>2. \E x \in S : Cardinality(Upto(x)) = n
      BY <2>1
    <2>3. r[n] = CHOOSE x \in S : Cardinality(Upto(x)) = n
      BY DEF Ranked, Upto
    <2> QED BY <2>2, <2>3
  <1>9. r = [n \in 1 .. C |-> CHOOSE x \in S : Cardinality(Upto(x)) = n]
    BY DEF Ranked, Upto
  <1>10. DOMAIN r = 1 .. C
    BY DEF Ranked
  <1> HIDE DEF rank, C, r
  <1>11. r \in [1 .. C -> S]
    BY <1>8, <1>9
  <1>12. r \in Injection(1 .. C, S)
    <2>1. \A m, n \in 1 .. C : r[m] = r[n] => m = n
      BY <1>8
    <2> QED BY <1>10, <1>11, <2>1 DEF Injection, IsInjective
  <1>13. r \in Surjection(1 .. C, S)
    <2>1. \A x \in S : rank[x] \in 1 .. C /\ r[rank[x]] = x
      BY <1>4, <1>5, <1>8
    <2> QED BY <1>11, <2>1 DEF Surjection
  <1>14. ASSUME NEW m \in 1 .. C, NEW n \in 1 .. C, m < n
         PROVE  <<r[m], r[n]>> \in before
    <2>1. /\ r[m] \in S /\ r[n] \in S /\ rank[r[m]] = m /\ rank[r[n]] = n
          /\ m \in Nat /\ n \in Nat
      BY <1>1, <1>8
    <2>2. r[m] # r[n] /\ <<r[n], r[m]>> \notin before
      BY <1>3, <1>14, <2>1
    <2> QED BY <2>1, <2>2 DEF TotalOn
  <1> QED BY <1>1, <1>12, <1>13, <1>14 DEF Bijection, r, C

\* A finite set of numbers has a least and a greatest one.
LEMMA Extremes ==
    ASSUME NEW T \in SUBSET Nat, IsFiniteSet(T), T # {}
    PROVE  /\ \E m \in T : \A x \in T : m <= x
           /\ \E m \in T : \A x \in T : m >= x
  <1> DEFINE before == {p \in T \X T : p[1] < p[2]}
             C == Cardinality(T)
             r == Ranked(T, before)
  <1>1. \A x, y \in T : <<x, y>> \in before <=> x < y
    OBVIOUS
  <1> HIDE DEF before
  <1>2. \A x \in T : x \in Nat
    OBVIOUS
  <1>3. TotalOn(before, T)
    BY <1>1, <1>2 DEF TotalOn
  <1>4. /\ C \in Nat /\ r \in Bijection(1 .. C, T)
        /\ \A m, n \in 1 .. C : m < n => r[m] < r[n]
    <2>1. /\ C \in Nat /\ r \in Bijection(1 .. C, T)
          /\ \A m, n \in 1 .. C : m < n => <<r[m], r[n]>> \in before
      BY <1>3, RankedFacts
    <2>2. \A m \in 1 .. C : r[m] \in T
      BY <2>1 DEF Bijection, Surjection
    <2> HIDE DEF C, r
    <2>3. ASSUME NEW m \in 1 .. C, NEW n \in 1 .. C, m < n PROVE r[m] < r[n]
      BY <1>1, <2>1, <2>2, <2>3
    <2> QED BY <2>1, <2>3
  <1>5. C # 0
    BY FS_EmptySet
  <1> HIDE DEF C, r
  <1>6. /\ \A m \in 1 .. C : r[m] \in T
        /\ \A x \in T : \E m \in 1 .. C : r[m] = x
    BY <1>4 DEF Bijection, Surjection
  <1>7. \A m \in 1 .. C : r[m] \in Nat
    BY <1>2, <1>6
  <1>8. \A m \in 1 .. C : r[1] <= r[m] /\ r[C] >= r[m]
    <2> SUFFICES ASSUME NEW m \in 1 .. C PROVE r[1] <= r[m] /\ r[C] >= r[m]
      OBVIOUS
    <2>1. 1 \in 1 .. C /\ C \in 1 .. C /\ (m = 1 \/ 1 < m) /\ (m = C \/ m < C)
      BY <1>4, <1>5
    <2> QED BY <1>4, <1>7, <2>1
  <1>9. r[1] \in T /\ r[C] \in T
    BY <1>4, <1>5, <1>6
  <1>10. \A x \in T : r[1] <= x /\ r[C] >= x
    <2> SUFFICES ASSUME NEW x \in T PROVE r[1] <= x /\ r[C] >= x
      OBVIOUS
    <2>1. PICK m \in 1 .. C : r[m] = x
      BY <1>6
    <2> QED BY <1>8, <2>1
  <1>11. (\A x \in T : r[1] <= x) /\ (\A x \in T : r[C] >= x)
    BY <1>10
  <1> QED BY <1>9, <1>11
================================================================================
