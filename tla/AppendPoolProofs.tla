---------------------------- MODULE AppendPoolProofs ----------------------------
(***************************************************************************)
(* Theorems about AppendPool, for any number of consumers and workers, any *)
(* stream of batches, any capacity and any faults.                         *)
(***************************************************************************)
EXTENDS AppendPool, QueueFacts

--------------------------------------------------------------------------------
(* The inductive invariant, in the parts that are proved one after the other *)

\* A consumer has a batch in hand except between two and after a failure; past the
\* schema work that batch has columns.
Hand(c) ==
    /\ pc[c] \notin {"ready", "failed"} => todo[c] # <<>>
    /\ pc[c] = "failed" => todo[c] = <<>>
    /\ pc[c] \in {"drain", "evolve", "submit", "inside", "dangling", "hung", "append", "racing"}
         => Content[Current(c)] # NoColumns

HandInv ==
    /\ \A c \in Consumers : Hand(c)
    /\ pc[Main] \in {"ready", "drain"}
    /\ pc[Main] = "drain" => ConsumersDone

\* No two columns of a layout have the same name.
Distinct(layout) ==
    \A i, j \in DOMAIN layout : NameAt(layout, i) = NameAt(layout, j) => i = j

TypeInv == TypeOK /\ HandInv /\ Distinct(table) /\ IsFiniteSet(Batches)

\* The steps that stop and replace the pool are taken under schema_lock.
LockInv ==
    /\ \A c \in Consumers : pc[c] \in {"drain", "evolve"} => schema_lock = c
    /\ schema_lock # Main

\* Nothing of a pool is left when there is none.
NoneLeft ==
    /\ queue = <<>> /\ stopped = FALSE /\ error = FALSE
    /\ \A w \in Workers : worker[w] = "exit" /\ collection[w] = {}
    /\ layout_cache = [w \in Workers |-> NoLayout]

\* Somebody drains the pool, or the statement is going to fail.
Stopping == Doomed \/ pc[Main] = "drain" \/ \E c \in Consumers : pc[c] = "drain"

\* Where threads are tells whether there is a pool.  A worker leaves a pool only
\* when it is stopped, and then with an exception or when nothing is queued.
PoolInv ==
    /\ ~pool => NoneLeft
    /\ \A c \in Consumers : /\ pc[c] = "drain" => pool /\ stopped
                            /\ pc[c] = "evolve" => ~pool
                            /\ pc[c] = "inside" => pool
    /\ pc[Main] = "drain" => pool /\ stopped
    /\ stopped => Stopping
    /\ \A w \in Workers : /\ worker[w] = "append" <=> parsed[w] # None
                          /\ worker[w] # "append" => pending[w] = <<>>
                          /\ pool /\ worker[w] = "exit" => stopped /\ (queue = <<>> \/ error)

\* What the other parts rest on.
CoreInv == TypeInv /\ LockInv /\ PoolInv

IsPrefixOf(s, t) == Len(s) <= Len(t) /\ \A i \in 1 .. Len(s) : s[i] = t[i]

\* What worker w's collection has once ExtendWorker is done.
Extended(w) == local_types[w] \o pending[w]

\* The pool publishes the table's layout, every worker has a prefix of it that fits
\* what it has taken, and a cached layout is the collection's.
LayoutInv ==
    /\ created => table # NoColumns
    /\ pool => types = table /\ table # NoColumns
    /\ \A c \in Consumers : pc[c] \in {"submit", "inside", "append", "racing"} =>
                                Fits(table, Current(c))
    /\ \A b \in Range(queue) : Content[b] # NoColumns /\ Fits(table, b)
    /\ \A w \in Workers :
           /\ pool => IsPrefixOf(Extended(w), table)
           /\ worker[w] = "append" => /\ Content[parsed[w]] # NoColumns
                                      /\ Fits(Extended(w), parsed[w])
           /\ layout_cache[w].shape # NoColumns => layout_cache[w].layout = local_types[w]
    /\ ~misplaced

\* No batch is at two places.
PlaceInv ==
    /\ \A c \in Consumers : IsInjective(todo[c])
    /\ IsInjective(queue)
    /\ \A c, d \in Consumers : c # d => Range(todo[c]) \intersect Range(todo[d]) = {}
    /\ \A v, w \in Workers : v # w => /\ parsed[v] # None => parsed[v] # parsed[w]
                                      /\ collection[v] \intersect collection[w] = {}
    /\ \A c \in Consumers : /\ Range(todo[c]) \intersect Range(queue) = {}
                            /\ Range(todo[c]) \intersect inserted = {}
    /\ \A c \in Consumers, w \in Workers : /\ parsed[w] \notin Range(todo[c])
                                           /\ collection[w] \intersect Range(todo[c]) = {}
    /\ Range(queue) \intersect inserted = {}
    /\ \A v \in Workers : /\ parsed[v] \notin Range(queue) \union inserted
                          /\ collection[v] \intersect (Range(queue) \union inserted) = {}
                          /\ \A w \in Workers : parsed[v] \notin collection[w]

\* b is at some place.
Kept(b) ==
    \/ \E c \in Consumers : b \in Range(todo[c])
    \/ b \in Range(queue)
    \/ \E w \in Workers : parsed[w] = b \/ b \in collection[w]
    \/ b \in inserted

\* A batch that meets a stopped pool, or none, has been overtaken by a drain.
OvertakenInv ==
    \A c \in Consumers :
        /\ pc[c] = "drain" => Overtaken(c) \subseteq overtaken
        /\ pc[c] \in {"dangling", "racing"} => Current(c) \in overtaken
        /\ pc[c] = "submit" /\ ~pool => Current(c) \in overtaken

KeptInv ==
    /\ OvertakenInv
    /\ \A b \in Batches : Kept(b) \/ Doomed \/ Content[b] = NoColumns \/ b \in overtaken

\* The batches whose errors c has yet to count.
Uncounted(c) == IF pc[c] \in {"ready", "count", "failed"} THEN Range(todo[c])
                ELSE Range(todo[c]) \ {Current(c)}

Counted == {b \in Malformed : \A c \in Consumers : b \notin Uncounted(c)}

\* The batches without columns that are done with: their errors count twice.
Recounted == {b \in Malformed : /\ Content[b] = NoColumns
                                /\ \A c \in Consumers : b \notin Range(todo[c])}

ErrorBound == Cardinality(Counted) + Cardinality(Recounted) + (IF created THEN 1 ELSE 0)

CountInv ==
    /\ overtaken = {} => rows = Cardinality(inserted)
    /\ errors <= ErrorBound
    /\ \A c \in Consumers : pc[c] = "count" => seen[c] <= ErrorBound

--------------------------------------------------------------------------------
(* Layouts *)

\* A layout: a sequence of columns, no two of the same name.
IsLayout(layout) == layout \in Seq(Columns) /\ Distinct(layout)

LEMMA ColumnType ==
    ASSUME NEW column \in Columns
    PROVE  column = [name |-> column.name, width |-> column.width] /\ column.width \in Nat
  BY PoolAssumption DEF PoolAssumption

\* Both the table's first layout and the columns of a batch are layouts.
LEMMA GivenLayouts ==
    /\ \A t \in Tables : IsLayout(t)
    /\ \A b \in Batches : IsLayout(Content[b])
  <1>1. \A layout \in Tables \union Range(Content) : IsLayout(layout)
    BY PoolAssumption DEF PoolAssumption, IsLayout, Distinct
  <1>2. \A b \in Batches : Content[b] \in Range(Content)
    BY PoolAssumption DEF PoolAssumption, Range
  <1> QED BY <1>1, <1>2

LEMMA LayoutPlaces ==
    ASSUME NEW layout \in Seq(Columns)
    PROVE  /\ Len(layout) \in Nat /\ DOMAIN layout = 1 .. Len(layout)
           /\ \A i \in DOMAIN layout : layout[i] \in Columns /\ layout[i].width \in Nat
           /\ layout = NoColumns <=> Len(layout) = 0
  BY ColumnType DEF NoColumns

\* A name has one width in a layout.
LEMMA WidthOfName ==
    ASSUME NEW layout, IsLayout(layout), NEW i \in DOMAIN layout
    PROVE  WidthIn(layout, NameAt(layout, i)) = layout[i].width
  <1> DEFINE k == CHOOSE k \in DOMAIN layout : NameAt(layout, k) = NameAt(layout, i)
  <1>1. k \in DOMAIN layout /\ NameAt(layout, k) = NameAt(layout, i)
    OBVIOUS
  <1>2. k = i
    BY <1>1 DEF IsLayout, Distinct
  <1> QED BY <1>2 DEF WidthIn

\* Widening, by places.
LEMMA WidensAt ==
    ASSUME NEW layout, IsLayout(layout), NEW b \in Batches
    PROVE  Widens(layout, b) <=>
               \E i \in DOMAIN Content[b], j \in DOMAIN layout :
                   /\ NameAt(layout, j) = NameAt(Content[b], i)
                   /\ layout[j].width < Content[b][i].width
  <1>1. ASSUME NEW i \in DOMAIN Content[b], NameAt(Content[b], i) \in Names(layout)
        PROVE  \E j \in DOMAIN layout :
                   /\ NameAt(layout, j) = NameAt(Content[b], i)
                   /\ WidthIn(layout, NameAt(Content[b], i)) = layout[j].width
    <2>1. PICK j \in DOMAIN layout : NameAt(layout, j) = NameAt(Content[b], i)
      BY <1>1 DEF Names, NameAt
    <2>2. WidthIn(layout, NameAt(layout, j)) = layout[j].width
      BY WidthOfName
    <2> QED BY <2>1, <2>2
  <1>2. ASSUME NEW i \in DOMAIN Content[b], NEW j \in DOMAIN layout,
               NameAt(layout, j) = NameAt(Content[b], i)
        PROVE  /\ NameAt(Content[b], i) \in Names(layout)
               /\ WidthIn(layout, NameAt(Content[b], i)) = layout[j].width
    <2>1. WidthIn(layout, NameAt(layout, j)) = layout[j].width
      BY WidthOfName
    <2>2. NameAt(layout, j) \in Names(layout)
      BY DEF Names, NameAt
    <2> QED BY <1>2, <2>1, <2>2
  <1> QED BY <1>1, <1>2 DEF Widens

\* Fitting, by places.
LEMMA FitsAt ==
    ASSUME NEW layout, IsLayout(layout), NEW b \in Batches
    PROVE  Fits(layout, b) <=>
               \A i \in DOMAIN Content[b] : \E j \in DOMAIN layout :
                   /\ NameAt(layout, j) = NameAt(Content[b], i)
                   /\ layout[j].width >= Content[b][i].width
  <1>1. /\ \A i \in DOMAIN Content[b] : Content[b][i].width \in Nat
        /\ \A j \in DOMAIN layout : layout[j].width \in Nat
    BY GivenLayouts, LayoutPlaces DEF IsLayout
  <1>2. Names(Content[b]) \subseteq Names(layout) <=>
            \A i \in DOMAIN Content[b] : \E j \in DOMAIN layout :
                NameAt(layout, j) = NameAt(Content[b], i)
    BY DEF Names, NameAt
  <1>3. ASSUME NEW i \in DOMAIN Content[b], NEW j \in DOMAIN layout, NEW k \in DOMAIN layout,
               NameAt(layout, j) = NameAt(Content[b], i), NameAt(layout, k) = NameAt(Content[b], i)
        PROVE  j = k
    BY <1>3 DEF IsLayout, Distinct
  <1>4. ASSUME NEW i \in DOMAIN Content[b], NEW j \in DOMAIN layout
        PROVE  layout[j].width >= Content[b][i].width <=> ~(layout[j].width < Content[b][i].width)
    BY <1>1
  <1> QED BY <1>2, <1>3, <1>4, WidensAt DEF Fits

\* What is added: the columns of the batch whose names are new, each once.
LEMMA AddsFacts ==
    ASSUME NEW layout, IsLayout(layout), NEW b \in Batches
    PROVE  /\ IsLayout(Adds(layout, b))
           /\ \A n \in DOMAIN Adds(layout, b) :
                  \E i \in DOMAIN Content[b] : /\ Adds(layout, b)[n] = Content[b][i]
                                               /\ NameAt(Content[b], i) \notin Names(layout)
           /\ \A i \in DOMAIN Content[b] : NameAt(Content[b], i) \notin Names(layout) =>
                  \E n \in DOMAIN Adds(layout, b) : Adds(layout, b)[n] = Content[b][i]
  <1> DEFINE s == Content[b]
             places == {i \in DOMAIN s : NameAt(s, i) \notin Names(layout)}
             t == Selection(s, places)
  <1>1. t = Adds(layout, b)
    BY DEF Adds
  <1>2. s \in Seq(Columns) /\ Distinct(s) /\ places \in SUBSET DOMAIN s
    BY GivenLayouts DEF IsLayout
  <1> HIDE DEF t, s, places
  <1>3. /\ t \in Seq(Columns)
        /\ \A n \in DOMAIN t : Nth(places, n) \in places /\ t[n] = s[Nth(places, n)]
        /\ \A i \in places : \E n \in DOMAIN t : Nth(places, n) = i
    BY <1>2, SelectionFacts DEF t
  <1>4. \A n, m \in DOMAIN t : t[m] = t[n] /\ m # n =>
            \E i, j \in places : i # j /\ s[i] = s[j]
    BY <1>2, SelectionRange DEF t
  <1>5. Distinct(t)
    <2> SUFFICES ASSUME NEW m \in DOMAIN t, NEW n \in DOMAIN t, NameAt(t, m) = NameAt(t, n)
                 PROVE  m = n
      BY DEF Distinct
    <2>1. Nth(places, m) = Nth(places, n)
      BY <1>2, <1>3 DEF Distinct, NameAt
    <2>2. t[m] = t[n]
      BY <1>3, <2>1
    <2>3. ASSUME m # n PROVE FALSE
      <3>1. PICK i \in places, j \in places : i # j /\ s[i] = s[j]
        BY <1>4, <2>2, <2>3
      <3> QED BY <1>2, <3>1 DEF Distinct, NameAt
    <2> QED BY <2>3
  <1> QED BY <1>1, <1>3, <1>5 DEF IsLayout, s, places

\* The layout after the ALTERs, by places.
LEMMA EvolvedAt ==
    ASSUME NEW layout, IsLayout(layout), NEW b \in Batches
    PROVE  /\ Evolved(layout, b) \in Seq(Columns)
           /\ Len(Evolved(layout, b)) = Len(layout) + Len(Adds(layout, b))
           /\ \A j \in 1 .. Len(layout) :
                  /\ NameAt(Evolved(layout, b), j) = NameAt(layout, j)
                  /\ Evolved(layout, b)[j].width >= layout[j].width
                  /\ \A i \in DOMAIN Content[b] : NameAt(Content[b], i) = NameAt(layout, j) =>
                         Evolved(layout, b)[j].width >= Content[b][i].width
                  /\ ~Widens(layout, b) => Evolved(layout, b)[j] = layout[j]
           /\ \A n \in 1 .. Len(Adds(layout, b)) :
                  Evolved(layout, b)[Len(layout) + n] = Adds(layout, b)[n]
  <1> DEFINE m == Len(layout)
             adds == Adds(layout, b)
             name(j) == NameAt(layout, j)
             wider(j) == /\ name(j) \in Names(Content[b])
                         /\ WidthIn(Content[b], name(j)) > layout[j].width
             width(j) == IF wider(j) THEN WidthIn(Content[b], name(j)) ELSE layout[j].width
             head == [j \in DOMAIN layout |-> [name |-> name(j), width |-> width(j)]]
  <1>1. Evolved(layout, b) = head \o adds
    BY DEF Evolved
  <1>2. /\ m \in Nat /\ DOMAIN layout = 1 .. m
        /\ \A j \in DOMAIN layout : /\ layout[j] \in Columns /\ layout[j].width \in Nat
                                    /\ layout[j] = [name |-> name(j), width |-> layout[j].width]
    BY LayoutPlaces, ColumnType DEF IsLayout, NameAt
  <1>3. ASSUME NEW j \in DOMAIN layout, name(j) \in Names(Content[b])
        PROVE  \E i \in DOMAIN Content[b] : /\ NameAt(Content[b], i) = name(j)
                                            /\ WidthIn(Content[b], name(j)) = Content[b][i].width
                                            /\ Content[b][i] \in Columns
                                            /\ Content[b][i] = [name |-> name(j), width |-> Content[b][i].width]
    <2>1. PICK i \in DOMAIN Content[b] : NameAt(Content[b], i) = name(j)
      BY <1>3 DEF Names, NameAt
    <2>2. WidthIn(Content[b], NameAt(Content[b], i)) = Content[b][i].width
      BY GivenLayouts, WidthOfName
    <2>3. Content[b][i] \in Columns
      BY GivenLayouts, LayoutPlaces DEF IsLayout
    <2> QED BY <2>1, <2>2, <2>3, ColumnType DEF NameAt
  <1>4. ASSUME NEW j \in DOMAIN layout
        PROVE  /\ head[j] \in Columns
               /\ head[j].name = name(j)
               /\ head[j].width = width(j)
    <2>1. CASE wider(j)
      <3>1. PICK i \in DOMAIN Content[b] :
                /\ WidthIn(Content[b], name(j)) = Content[b][i].width
                /\ Content[b][i] \in Columns
                /\ Content[b][i] = [name |-> name(j), width |-> Content[b][i].width]
        BY <1>3, <2>1
      <3>2. head[j] = [name |-> name(j), width |-> WidthIn(Content[b], name(j))]
        BY <2>1
      <3> QED BY <2>1, <3>1, <3>2
    <2>2. CASE ~wider(j)
      <3>1. head[j] = [name |-> name(j), width |-> layout[j].width]
        BY <2>2
      <3> QED BY <1>2, <2>2, <3>1
    <2> QED BY <2>1, <2>2
  <1>5. ASSUME NEW j \in DOMAIN layout, NEW i \in DOMAIN Content[b],
               NameAt(Content[b], i) = name(j)
        PROVE  /\ name(j) \in Names(Content[b])
               /\ WidthIn(Content[b], name(j)) = Content[b][i].width
               /\ Content[b][i].width \in Nat
    <2>1. WidthIn(Content[b], NameAt(Content[b], i)) = Content[b][i].width
      BY GivenLayouts, WidthOfName
    <2>2. Content[b][i].width \in Nat
      BY GivenLayouts, LayoutPlaces DEF IsLayout
    <2>3. NameAt(Content[b], i) \in Names(Content[b])
      BY DEF Names, NameAt
    <2> QED BY <1>5, <2>1, <2>2, <2>3
  <1>6. ASSUME NEW j \in DOMAIN layout
        PROVE  /\ width(j) >= layout[j].width
               /\ \A i \in DOMAIN Content[b] : NameAt(Content[b], i) = name(j) =>
                      width(j) >= Content[b][i].width
               /\ ~Widens(layout, b) => width(j) = layout[j].width
    <2>1. layout[j].width \in Nat
      BY <1>2
    <2>2. \A i \in DOMAIN Content[b] : NameAt(Content[b], i) = name(j) =>
              width(j) >= Content[b][i].width
      BY <1>5, <2>1
    <2>3. wider(j) => \E i \in DOMAIN Content[b] :
              NameAt(Content[b], i) = name(j) /\ layout[j].width < Content[b][i].width
      BY <1>3, <1>5, <2>1
    <2>4. wider(j) => Widens(layout, b)
      BY <2>3, WidensAt
    <2>5. width(j) >= layout[j].width
      <3>1. wider(j) => WidthIn(Content[b], name(j)) \in Nat
        BY <1>3, <1>5
      <3> QED BY <2>1, <3>1
    <2> QED BY <2>2, <2>4, <2>5
  <1>7. /\ head \in Seq(Columns) /\ Len(head) = m /\ DOMAIN head = 1 .. m
        /\ adds \in Seq(Columns) /\ Len(adds) \in Nat
    <2>1. head \in [1 .. m -> Columns]
      BY <1>2, <1>4
    <2>2. adds \in Seq(Columns)
      BY AddsFacts DEF IsLayout
    <2> HIDE DEF head, adds, m
    <2>3. head \in Seq(Columns) /\ Len(head) = m
      BY <1>2, <2>1
    <2> QED BY <2>1, <2>2, <2>3
  <1>8. ASSUME NEW j \in DOMAIN layout, ~Widens(layout, b)
        PROVE  head[j] = layout[j]
    BY <1>2, <1>6, <1>8
  <1> HIDE DEF head, adds, m, width
  <1>9. /\ head \o adds \in Seq(Columns)
        /\ Len(head \o adds) = m + Len(adds)
        /\ \A j \in 1 .. m : (head \o adds)[j] = head[j]
        /\ \A n \in 1 .. Len(adds) : (head \o adds)[m + n] = adds[n]
    <2>1. \A n \in 1 .. Len(adds) : (head \o adds)[m + n] = adds[n]
      <3> SUFFICES ASSUME NEW n \in 1 .. Len(adds) PROVE (head \o adds)[m + n] = adds[n]
        OBVIOUS
      <3>1. m + n \in 1 .. (Len(head) + Len(adds)) /\ ~(m + n <= Len(head)) /\ (m + n) - Len(head) = n
        BY <1>2, <1>7
      <3> QED BY <1>7, <3>1
    <2> QED BY <1>2, <1>7, <2>1
  <1>10. ASSUME NEW j \in 1 .. m
         PROVE  /\ NameAt(head \o adds, j) = NameAt(layout, j)
                /\ (head \o adds)[j].width >= layout[j].width
                /\ \A i \in DOMAIN Content[b] : NameAt(Content[b], i) = NameAt(layout, j) =>
                       (head \o adds)[j].width >= Content[b][i].width
                /\ ~Widens(layout, b) => (head \o adds)[j] = layout[j]
    <2>1. j \in DOMAIN layout /\ (head \o adds)[j] = head[j]
      BY <1>2, <1>9
    <2> QED BY <1>4, <1>6, <1>8, <2>1 DEF NameAt
  <1> QED BY <1>1, <1>9, <1>10 DEF adds, m

\* Every place of the evolved layout is one of the layout or a column added.
LEMMA EvolvedPlace ==
    ASSUME NEW layout, IsLayout(layout), NEW b \in Batches, NEW k \in DOMAIN Evolved(layout, b)
    PROVE  \/ k \in DOMAIN layout /\ NameAt(Evolved(layout, b), k) = NameAt(layout, k)
           \/ \E n \in DOMAIN Adds(layout, b) :
                  k = Len(layout) + n /\ Evolved(layout, b)[k] = Adds(layout, b)[n]
  <1>1. /\ Len(layout) \in Nat /\ DOMAIN layout = 1 .. Len(layout)
        /\ Len(Adds(layout, b)) \in Nat /\ DOMAIN Adds(layout, b) = 1 .. Len(Adds(layout, b))
    BY AddsFacts, LayoutPlaces DEF IsLayout
  <1>2. DOMAIN Evolved(layout, b) = 1 .. (Len(layout) + Len(Adds(layout, b)))
    BY EvolvedAt, LayoutPlaces
  <1>3. CASE k <= Len(layout)
    <2>1. k \in 1 .. Len(layout)
      BY <1>1, <1>2, <1>3
    <2> QED BY <1>1, <2>1, EvolvedAt
  <1>4. CASE ~(k <= Len(layout))
    <2>1. k - Len(layout) \in 1 .. Len(Adds(layout, b)) /\ k = Len(layout) + (k - Len(layout))
      BY <1>1, <1>2, <1>4
    <2>2. Evolved(layout, b)[Len(layout) + (k - Len(layout))] = Adds(layout, b)[k - Len(layout)]
      BY <2>1, EvolvedAt
    <2> QED BY <1>1, <2>1, <2>2
  <1> QED BY <1>3, <1>4

\* The places of the evolved layout that stand for the others.
LEMMA PlaceEvolved ==
    ASSUME NEW layout, IsLayout(layout), NEW b \in Batches
    PROVE  /\ DOMAIN layout \subseteq DOMAIN Evolved(layout, b)
           /\ \A n \in DOMAIN Adds(layout, b) :
                  /\ Len(layout) + n \in DOMAIN Evolved(layout, b)
                  /\ Evolved(layout, b)[Len(layout) + n] = Adds(layout, b)[n]
  <1>1. /\ Len(layout) \in Nat /\ DOMAIN layout = 1 .. Len(layout)
        /\ Len(Adds(layout, b)) \in Nat /\ DOMAIN Adds(layout, b) = 1 .. Len(Adds(layout, b))
    BY AddsFacts, LayoutPlaces DEF IsLayout
  <1>2. DOMAIN Evolved(layout, b) = 1 .. (Len(layout) + Len(Adds(layout, b)))
    BY EvolvedAt, LayoutPlaces
  <1>3. \A n \in 1 .. Len(Adds(layout, b)) : Len(layout) + n \in DOMAIN Evolved(layout, b)
    BY <1>1, <1>2
  <1>4. 1 .. Len(layout) \subseteq DOMAIN Evolved(layout, b)
    BY <1>1, <1>2
  <1> QED BY <1>1, <1>3, <1>4, EvolvedAt

\* The ALTERs leave a layout that fits the batch and whatever fitted before.
LEMMA EvolvedFacts ==
    ASSUME NEW layout, IsLayout(layout), NEW b \in Batches
    PROVE  /\ IsLayout(Evolved(layout, b))
           /\ Fits(Evolved(layout, b), b)
           /\ \A d \in Batches : Fits(layout, d) => Fits(Evolved(layout, b), d)
           /\ layout # NoColumns => Evolved(layout, b) # NoColumns
           /\ ~Widens(layout, b) => Evolved(layout, b) = layout \o Adds(layout, b)
  <1> DEFINE e == Evolved(layout, b)
             adds == Adds(layout, b)
             m == Len(layout)
  <1>1. /\ m \in Nat /\ DOMAIN layout = 1 .. m /\ IsLayout(adds)
        /\ Len(adds) \in Nat /\ DOMAIN adds = 1 .. Len(adds)
        /\ \A j \in DOMAIN layout : layout[j].width \in Nat
    BY AddsFacts, LayoutPlaces DEF IsLayout
  <1>2. e \in Seq(Columns) /\ Len(e) = m + Len(adds)
    BY EvolvedAt
  <1>3. /\ \A j \in DOMAIN layout : /\ j \in DOMAIN e
                                    /\ NameAt(e, j) = NameAt(layout, j)
                                    /\ e[j].width >= layout[j].width
                                    /\ e[j].width \in Nat
        /\ \A k \in DOMAIN e : e[k].width \in Nat
    BY <1>1, <1>2, PlaceEvolved, EvolvedAt, LayoutPlaces
  <1>4. Distinct(e)
    <2> SUFFICES ASSUME NEW k \in DOMAIN e, NEW l \in DOMAIN e, NameAt(e, k) = NameAt(e, l)
                 PROVE  k = l
      BY DEF Distinct
    <2>1. ASSUME NEW j \in DOMAIN layout, NEW n \in DOMAIN adds, NameAt(layout, j) = NameAt(adds, n)
          PROVE  FALSE
      <3>1. PICK i \in DOMAIN Content[b] : /\ adds[n] = Content[b][i]
                                           /\ NameAt(Content[b], i) \notin Names(layout)
        BY AddsFacts
      <3> QED BY <2>1, <3>1 DEF NameAt, Names
    <2>2. CASE k \in DOMAIN layout /\ NameAt(e, k) = NameAt(layout, k)
      <3>1. CASE l \in DOMAIN layout /\ NameAt(e, l) = NameAt(layout, l)
        BY <2>2, <3>1 DEF IsLayout, Distinct
      <3>2. ASSUME NEW n \in DOMAIN adds, e[l] = adds[n] PROVE FALSE
        BY <2>1, <2>2, <3>2 DEF NameAt
      <3> QED BY <3>1, <3>2, EvolvedPlace
    <2>3. ASSUME NEW n \in DOMAIN adds, k = m + n, e[k] = adds[n]
          PROVE  k = l
      <3>1. CASE l \in DOMAIN layout /\ NameAt(e, l) = NameAt(layout, l)
        BY <2>1, <2>3, <3>1 DEF NameAt
      <3>2. ASSUME NEW p \in DOMAIN adds, l = m + p, e[l] = adds[p] PROVE k = l
        <4>1. NameAt(adds, n) = NameAt(adds, p)
          BY <2>3, <3>2 DEF NameAt
        <4> QED BY <1>1, <2>3, <3>2, <4>1 DEF IsLayout, Distinct
      <3> QED BY <3>1, <3>2, EvolvedPlace
    <2> QED BY <2>2, <2>3, EvolvedPlace
  <1>5. IsLayout(e)
    BY <1>2, <1>4 DEF IsLayout
  <1>6. ASSUME NEW i \in DOMAIN Content[b]
        PROVE  \E k \in DOMAIN e : /\ NameAt(e, k) = NameAt(Content[b], i)
                                   /\ e[k].width >= Content[b][i].width
    <2>1. CASE NameAt(Content[b], i) \in Names(layout)
      <3>1. PICK j \in DOMAIN layout : NameAt(layout, j) = NameAt(Content[b], i)
        BY <2>1 DEF Names, NameAt
      <3>2. e[j].width >= Content[b][i].width
        BY <1>1, <3>1, EvolvedAt
      <3> QED BY <1>3, <3>1, <3>2
    <2>2. CASE NameAt(Content[b], i) \notin Names(layout)
      <3>1. PICK n \in DOMAIN adds : adds[n] = Content[b][i]
        BY <2>2, AddsFacts
      <3>2. m + n \in DOMAIN e /\ e[m + n] = adds[n]
        BY PlaceEvolved
      <3>3. e[m + n].width \in Nat
        BY <1>3, <3>2
      <3>4. NameAt(e, m + n) = NameAt(Content[b], i) /\ e[m + n].width >= Content[b][i].width
        BY <3>1, <3>2, <3>3 DEF NameAt
      <3> QED BY <3>2, <3>4
    <2> QED BY <2>1, <2>2
  <1>7. Fits(e, b)
    BY <1>5, <1>6, FitsAt
  <1>8. ASSUME NEW d \in Batches, Fits(layout, d) PROVE Fits(e, d)
    <2> SUFFICES ASSUME NEW i \in DOMAIN Content[d]
                 PROVE  \E k \in DOMAIN e : /\ NameAt(e, k) = NameAt(Content[d], i)
                                            /\ e[k].width >= Content[d][i].width
      BY <1>5, FitsAt
    <2>1. PICK j \in DOMAIN layout : /\ NameAt(layout, j) = NameAt(Content[d], i)
                                     /\ layout[j].width >= Content[d][i].width
      BY <1>8, FitsAt
    <2>2. Content[d][i].width \in Nat
      BY GivenLayouts, LayoutPlaces DEF IsLayout
    <2>3. e[j].width >= Content[d][i].width
      BY <1>1, <1>3, <2>1, <2>2
    <2> QED BY <1>3, <2>1, <2>3
  <1>9. layout # NoColumns => e # NoColumns
    <2>1. layout # NoColumns => Len(layout) # 0
      BY LayoutPlaces DEF IsLayout
    <2>2. e = NoColumns => Len(e) = 0
      BY <1>2, LayoutPlaces
    <2> QED BY <1>1, <1>2, <2>1, <2>2
  <1>10. ASSUME ~Widens(layout, b) PROVE e = layout \o adds
    <2>1. \A j \in 1 .. m : e[j] = layout[j]
      BY <1>10, EvolvedAt
    <2>2. \A n \in 1 .. Len(adds) : e[m + n] = adds[n]
      BY EvolvedAt
    <2>3. /\ layout \in Seq(Columns) /\ adds \in Seq(Columns)
      BY <1>1 DEF IsLayout
    <2> HIDE DEF e, adds
    <2>4. /\ layout \o adds \in Seq(Columns) /\ Len(layout \o adds) = Len(e)
          /\ \A k \in 1 .. Len(e) : (layout \o adds)[k] = IF k <= m THEN layout[k] ELSE adds[k - m]
      BY <1>1, <1>2, <2>3
    <2>5. ASSUME NEW k \in 1 .. Len(e) PROVE e[k] = (layout \o adds)[k]
      <3>1. CASE k <= m
        BY <1>1, <1>2, <2>1, <2>4, <3>1
      <3>2. CASE ~(k <= m)
        <4>1. k - m \in 1 .. Len(adds) /\ m + (k - m) = k
          BY <1>1, <1>2, <3>2
        <4>2. e[m + (k - m)] = adds[k - m]
          BY <2>2, <4>1
        <4> QED BY <2>4, <3>2, <4>1, <4>2
      <3> QED BY <3>1, <3>2
    <2> QED BY <1>2, <2>4, <2>5
  <1> QED BY <1>5, <1>7, <1>8, <1>9, <1>10

--------------------------------------------------------------------------------
(* Typing *)

\* Next, by its actions.
LEMMA NextCases ==
    ASSUME Next
    PROVE  \/ \E c \in Consumers :
                  \/ ReadErrors(c) \/ WriteErrors(c) \/ Abandon(c)
                  \/ IngestNoColumns(c) \/ Create(c) \/ Evolve(c) \/ EvolveThrows(c)
                  \/ LookAtPool(c) \/ Submit(c) \/ Dangle(c) \/ AppendNative(c) \/ AppendUnlocked(c)
                  \/ DrainToWiden(c) \/ DrainedToWiden(c) \/ DrainThrows(c)
           \/ \E w \in Workers : Take(w) \/ AppendBatch(w) \/ WorkerThrows(w)
           \/ Finish \/ End \/ FlusherThrows
  BY DEF Next, ConsumerStep, WorkerStep, MainStep

\* A stream is finite.
LEMMA FiniteBatches ==
    ASSUME NEW a \in Assignments
    PROVE  IsFiniteSet(Batches)
  <1> DEFINE f == [c \in Consumers |-> Range(a[c])]
             parts == {Range(a[c]) : c \in Consumers}
  <1>1. /\ a \in [Consumers -> Seq(Batches)]
        /\ UNION parts = Batches
        /\ IsFiniteSet(Consumers)
    BY PoolAssumption DEF PoolAssumption
  <1>2. f \in Surjection(Consumers, parts)
    BY DEF Surjection
  <1>3. IsFiniteSet(parts)
    BY <1>1, <1>2, FS_Surjection
  <1>4. ASSUME NEW c \in Consumers
        PROVE  IsFiniteSet(Range(a[c]))
    <2>1. a[c] \in Seq(Batches) /\ DOMAIN a[c] = 1 .. Len(a[c]) /\ Len(a[c]) \in Nat
      BY <1>1
    <2>2. a[c] \in Surjection(DOMAIN a[c], Range(a[c]))
      BY <2>1 DEF Surjection, Range
    <2>3. IsFiniteSet(DOMAIN a[c])
      BY <2>1, FS_Interval
    <2> QED BY <2>2, <2>3, FS_Surjection
  <1>5. \A part \in parts : IsFiniteSet(part)
    BY <1>4
  <1> QED BY <1>1, <1>3, <1>5, FS_UNION

\* A consumer's batch, and what is left after it.
LEMMA CurrentType ==
    ASSUME TypeOK, NEW c \in Consumers, todo[c] # <<>>
    PROVE  /\ Current(c) \in Batches /\ Current(c) \in Range(todo[c])
           /\ Tail(todo[c]) \in Seq(Batches)
           /\ Content[Current(c)] \in Seq(Columns)
  <1>1. todo[c] \in Seq(Batches)
    BY DEF TypeOK
  <1>2. Head(todo[c]) \in Batches /\ Tail(todo[c]) \in Seq(Batches)
    BY <1>1
  <1>3. todo[c][1] = Head(todo[c]) /\ 1 \in DOMAIN todo[c]
    BY <1>1
  <1> QED BY <1>2, <1>3, GivenLayouts DEF Current, Range, IsLayout

\* A consumer that can take a step is in the way of Finish.
LEMMA MainWaits ==
    ASSUME HandInv, NEW c \in Consumers, todo[c] # <<>>
    PROVE  pc[Main] = "ready"
  BY DEF HandInv, Hand, ConsumersDone, Returned

\* A consumer that moves leaves the others' hands alone.
LEMMA HandMoves ==
    ASSUME HandInv, NEW c \in Consumers, todo[c] # <<>>,
           pc'[Main] = pc[Main],
           Hand(c)',
           \A d \in Consumers \ {c} :
               /\ todo'[d] = todo[d]
               /\ pc'[d] = pc[d] \/ (pc[d] = "inside" /\ pc'[d] = "dangling")
    PROVE  HandInv'
  <1>1. pc'[Main] = "ready"
    BY MainWaits
  <1>2. \A d \in Consumers \ {c} : Hand(d)'
    BY DEF HandInv, Hand, Current
  <1> QED BY <1>1, <1>2 DEF HandInv

\* Nothing a consumer has is disturbed.
LEMMA HandKept ==
    ASSUME HandInv, UNCHANGED <<pc, todo>>
    PROVE  HandInv'
  BY DEF HandInv, Hand, Current, ConsumersDone, Returned

\* The two ways to be done with a batch.
LEMMA DoneType ==
    ASSUME TypeOK, HandInv, NEW c \in Consumers, todo[c] # <<>>,
           Done(c) \/ Throw(c)
    PROVE  /\ todo' \in [Consumers -> Seq(Batches)]
           /\ pc' \in [Consumers \union {Main} -> {"ready", "count", "lock", "drain", "evolve", "submit",
                                                   "inside", "dangling", "hung", "append", "racing", "failed"}]
           /\ schema_lock' \in Consumers \union {Main, None}
           /\ HandInv'
           /\ \A d \in Consumers \ {c} : todo'[d] = todo[d] /\ pc'[d] = pc[d]
           /\ pc'[Main] = pc[Main]
           /\ \/ pc'[c] = "ready" /\ todo'[c] = Tail(todo[c])
              \/ pc'[c] = "failed" /\ todo'[c] = <<>>
  <1>1. /\ c \in Consumers \union {Main} /\ c # Main
        /\ Tail(todo[c]) \in Seq(Batches)
    BY CurrentType, PoolAssumption DEF PoolAssumption
  <1>2. /\ \A d \in Consumers \ {c} : todo'[d] = todo[d] /\ pc'[d] = pc[d]
        /\ pc'[Main] = pc[Main]
        /\ \/ pc'[c] = "ready" /\ todo'[c] = Tail(todo[c])
           \/ pc'[c] = "failed" /\ todo'[c] = <<>>
    BY <1>1 DEF Done, Throw, Goto, TypeOK
  <1>3. HandInv'
    BY <1>2, HandMoves DEF Hand
  <1>4. todo' \in [Consumers -> Seq(Batches)]
    <2>1. <<>> \in Seq(Batches)
      OBVIOUS
    <2> QED BY <1>1, <2>1 DEF Done, Throw, TypeOK
  <1>5. schema_lock' \in Consumers \union {Main, None}
    BY DEF Done, Throw, Unlocked, TypeOK
  <1>6. pc' = [pc EXCEPT ![c] = "ready"] \/ pc' = [pc EXCEPT ![c] = "failed"]
    BY DEF Done, Throw, Goto
  <1>7. pc' \in [Consumers \union {Main} -> {"ready", "count", "lock", "drain", "evolve", "submit",
                                             "inside", "dangling", "hung", "append", "racing", "failed"}]
    BY <1>6 DEF TypeOK
  <1> QED BY <1>2, <1>3, <1>4, <1>5, <1>7

\* TypeOK, in two halves.
PoolTyped ==
    /\ pool \in BOOLEAN /\ stopped \in BOOLEAN /\ error \in BOOLEAN
    /\ types \in Seq(Columns)
    /\ queue \in Seq(Batches) /\ Len(queue) <= Capacity
    /\ producer_cv \subseteq Consumers /\ worker_cv \subseteq Workers
    /\ worker \in [Workers -> {"pop", "append", "exit"}]
    /\ parsed \in [Workers -> Batches \union {None}]
    /\ pending \in [Workers -> Seq(Columns)]
    /\ local_types \in [Workers -> Seq(Columns)]
    /\ layout_cache \in [Workers -> [shape : Seq(Columns), layout : Seq(Columns)]]
    /\ collection \in [Workers -> SUBSET Batches]

PCs == {"ready", "count", "lock", "drain", "evolve", "submit",
        "inside", "dangling", "hung", "append", "racing", "failed"}

IngestorTyped ==
    /\ table \in Seq(Columns)
    /\ schema_lock \in Consumers \union {Main, None}
    /\ todo \in [Consumers -> Seq(Batches)]
    /\ pc \in [Consumers \union {Main} -> PCs]
    /\ seen \in [Consumers -> Nat] /\ rows \in Nat /\ errors \in Nat
    /\ created \in BOOLEAN
    /\ inserted \subseteq Batches
    /\ outcome \in {"running", "succeeded", "failed", "crashed"}
    /\ overtaken \subseteq Batches
    /\ misplaced \in BOOLEAN

LEMMA TypeHalves == TypeOK <=> PoolTyped /\ IngestorTyped
  BY DEF TypeOK, PoolTyped, IngestorTyped, PCs

LEMMA TypeHalvesNext == TypeOK' <=> PoolTyped' /\ IngestorTyped'
  BY DEF TypeOK, PoolTyped, IngestorTyped, PCs

LEMMA PoolTypeKept ==
    ASSUME PoolTyped, UNCHANGED poolVars
    PROVE  PoolTyped'
  BY DEF PoolTyped, poolVars, queueVars, workerVars

LEMMA EnsurePoolType ==
    ASSUME PoolTyped, NEW layout \in Seq(Columns), NEW b, EnsurePool(layout, b)
    PROVE  PoolTyped'
  <1>1. CASE pool \/ b \notin Large
    BY <1>1, PoolTypeKept DEF EnsurePool
  <1>2. CASE ~(pool \/ b \notin Large)
    BY <1>2 DEF EnsurePool, PoolTyped, queueVars
  <1> QED BY <1>1, <1>2

LEMMA PublishType ==
    ASSUME PoolTyped, NEW adds \in Seq(Columns), PublishColumns(adds)
    PROVE  PoolTyped'
  <1>1. types' \in Seq(Columns)
    BY DEF PoolTyped, PublishColumns
  <1>2. layout_cache' \in [Workers -> [shape : Seq(Columns), layout : Seq(Columns)]]
    <2>1. NoColumns \in Seq(Columns)
      BY DEF NoColumns
    <2> QED BY <2>1 DEF PoolTyped, PublishColumns
  <1> QED BY <1>1, <1>2 DEF PoolTyped, PublishColumns, queueVars

LEMMA SubmitPoolType ==
    ASSUME PoolTyped, NEW c \in Consumers, Current(c) \in Batches, Submit(c)
    PROVE  PoolTyped'
  <1>1. /\ UNCHANGED <<pool, types, stopped, error, workerVars>>
        /\ \/ producer_cv' = producer_cv \union {c} /\ UNCHANGED <<queue, worker_cv>>
           \/ UNCHANGED <<queue, producer_cv, worker_cv>>
           \/ /\ Room /\ queue' = Append(queue, Current(c))
              /\ NotifyWorker /\ UNCHANGED producer_cv
    BY DEF Submit
  <1>2. queue' \in Seq(Batches) /\ Len(queue') <= Capacity
    <2>1. Capacity \in Nat /\ queue \in Seq(Batches) /\ Len(queue) <= Capacity
      BY PoolAssumption DEF PoolAssumption, PoolTyped
    <2>2. CASE Room /\ queue' = Append(queue, Current(c))
      <3>1. Len(queue) < Capacity
        BY <2>2 DEF Room
      <3> QED BY <2>1, <2>2, <3>1
    <2> QED BY <1>1, <2>1, <2>2
  <1>3. producer_cv' \subseteq Consumers /\ worker_cv' \subseteq Workers
    BY <1>1 DEF PoolTyped, NotifyWorker
  <1> QED BY <1>1, <1>2, <1>3 DEF PoolTyped, workerVars

\* The rest of a longer layout.
LEMMA BeyondType ==
    ASSUME NEW s \in Seq(Columns), NEW t \in Seq(Columns)
    PROVE  Beyond(t, s) \in Seq(Columns)
  <1>1. Len(s) \in Nat /\ Len(t) \in Nat /\ \A i \in Len(s) + 1 .. Len(t) : t[i] \in Columns
    OBVIOUS
  <1> QED BY <1>1 DEF Beyond

LEMMA TakeType ==
    ASSUME PoolTyped, NEW w \in Workers, Take(w)
    PROVE  PoolTyped'
  <1>1. UNCHANGED <<pool, types, stopped, error, local_types, layout_cache, collection>>
    BY DEF Take
  <1>2. CASE /\ worker_cv' = worker_cv \union {w}
             /\ UNCHANGED <<queue, producer_cv, worker, parsed, pending>>
    BY <1>1, <1>2 DEF PoolTyped
  <1>3. CASE /\ worker' = [worker EXCEPT ![w] = "exit"]
             /\ UNCHANGED <<queue, producer_cv, worker_cv, parsed, pending>>
    BY <1>1, <1>3 DEF PoolTyped
  <1>4. CASE /\ queue # <<>>
             /\ parsed' = [parsed EXCEPT ![w] = Head(queue)]
             /\ queue' = Tail(queue)
             /\ pending' = [pending EXCEPT ![w] = Beyond(types, local_types[w])]
             /\ worker' = [worker EXCEPT ![w] = "append"]
             /\ NotifyProducer
             /\ UNCHANGED worker_cv
    <2>1. /\ Head(queue) \in Batches /\ Tail(queue) \in Seq(Batches)
          /\ Len(Tail(queue)) <= Capacity
      <3>1. Capacity \in Nat
        BY PoolAssumption DEF PoolAssumption
      <3> QED BY <1>4, <3>1 DEF PoolTyped
    <2>2. Beyond(types, local_types[w]) \in Seq(Columns)
      BY BeyondType DEF PoolTyped
    <2>3. producer_cv' \subseteq Consumers
      BY <1>4 DEF PoolTyped, NotifyProducer
    <2> QED BY <1>1, <1>4, <2>1, <2>2, <2>3 DEF PoolTyped
  <1> QED BY <1>2, <1>3, <1>4 DEF Take

LEMMA AppendBatchType ==
    ASSUME PoolTyped, NEW w \in Workers, parsed[w] \in Batches, AppendBatch(w)
    PROVE  PoolTyped'
  <1>1. /\ Extended(w) \in Seq(Columns) /\ NoColumns \in Seq(Columns)
        /\ Content[parsed[w]] \in Seq(Columns)
    BY GivenLayouts DEF PoolTyped, Extended, NoColumns, IsLayout
  <1>2. Layout(w) \in Seq(Columns)
    BY <1>1 DEF Layout, Extended, PoolTyped
  <1>3. /\ local_types' = [local_types EXCEPT ![w] = Extended(w)]
        /\ layout_cache' = [layout_cache EXCEPT ![w] = [shape |-> Content[parsed[w]], layout |-> Layout(w)]]
        /\ collection' = [collection EXCEPT ![w] = @ \union {parsed[w]}]
        /\ parsed' = [parsed EXCEPT ![w] = None]
        /\ pending' = [pending EXCEPT ![w] = NoColumns]
        /\ worker' = [worker EXCEPT ![w] = "pop"]
        /\ UNCHANGED <<pool, types, queueVars>>
    BY DEF AppendBatch, Extended
  <1> QED BY <1>1, <1>2, <1>3 DEF PoolTyped, queueVars

LEMMA WorkerThrowsType ==
    ASSUME PoolTyped, NEW w \in Workers, WorkerThrows(w)
    PROVE  PoolTyped'
  <1>1. NoColumns \in Seq(Columns)
    BY DEF NoColumns
  <1> QED BY <1>1 DEF PoolTyped, WorkerThrows, StopWithError

LEMMA StopPoolType ==
    ASSUME PoolTyped, StopPool
    PROVE  PoolTyped'
  BY DEF PoolTyped, StopPool, workerVars

LEMMA PoolGoneType ==
    ASSUME PoolTyped, PoolGone
    PROVE  PoolTyped'
  <1>1. NoColumns \in Seq(Columns) /\ <<>> \in Seq(Batches) /\ Len(<<>>) = 0 /\ Capacity \in Nat
    BY PoolAssumption DEF NoColumns, PoolAssumption
  <1>2. NoLayout \in [shape : Seq(Columns), layout : Seq(Columns)]
    BY <1>1 DEF NoLayout
  <1>3. queue' \in Seq(Batches) /\ Len(queue') <= Capacity
    BY <1>1 DEF PoolGone
  <1>4. /\ local_types' \in [Workers -> Seq(Columns)]
        /\ layout_cache' \in [Workers -> [shape : Seq(Columns), layout : Seq(Columns)]]
        /\ collection' \in [Workers -> SUBSET Batches]
    BY <1>1, <1>2 DEF PoolGone
  <1> QED BY <1>1, <1>3, <1>4 DEF PoolTyped, PoolGone

LEMMA MergeType ==
    ASSUME TypeOK, IsFiniteSet(Batches), Merge
    PROVE  /\ PoolTyped'
           /\ inserted' \subseteq Batches /\ rows' \in Nat /\ misplaced' \in BOOLEAN
  <1>1. PoolTyped'
    BY TypeHalves, PoolGoneType DEF Merge
  <1>2. Collected \subseteq Batches
    BY DEF Collected, Range, TypeOK
  <1>3. Cardinality(Collected) \in Nat
    BY <1>2, FS_Subset, FS_CardinalityType
  <1>4. inserted' \subseteq Batches /\ rows' \in Nat
    BY <1>2, <1>3 DEF Merge, TypeOK
  <1>5. misplaced' \in BOOLEAN
    BY DEF Merge, TypeOK
  <1> QED BY <1>1, <1>4, <1>5

\* A consumer goes on with the batch it has.
LEMMA GotoType ==
    ASSUME TypeOK, HandInv, NEW c \in Consumers, todo[c] # <<>>,
           NEW where \in PCs \ {"ready", "failed"},
           Goto(c, where), UNCHANGED todo,
           Content[Current(c)] # NoColumns \/ where \in {"count", "lock"}
    PROVE  /\ pc' \in [Consumers \union {Main} -> PCs]
           /\ pc'[c] = where /\ pc'[Main] = pc[Main]
           /\ \A d \in Consumers \ {c} : pc'[d] = pc[d]
           /\ HandInv'
  <1>1. c \in Consumers \union {Main} /\ c # Main
    BY PoolAssumption DEF PoolAssumption
  <1>2. /\ pc'[c] = where /\ pc'[Main] = pc[Main]
        /\ \A d \in Consumers \ {c} : pc'[d] = pc[d]
    BY <1>1 DEF Goto, TypeOK
  <1>3. Hand(c)'
    <2>1. Content[Current(c)'] # NoColumns \/ where \in {"count", "lock"}
      BY DEF Current
    <2> QED BY <1>2, <2>1 DEF Hand, PCs
  <1>4. pc' \in [Consumers \union {Main} -> PCs]
    BY DEF Goto, TypeOK, PCs
  <1> QED BY <1>2, <1>3, <1>4, HandMoves

\* A consumer that is past its first step has a batch.
LEMMA InHand ==
    ASSUME CoreInv, NEW c \in Consumers, pc[c] \notin {"ready", "failed"}
    PROVE  /\ todo[c] # <<>>
           /\ Current(c) \in Batches /\ Current(c) \in Range(todo[c])
           /\ IsLayout(Content[Current(c)])
           /\ pc[Main] = "ready"
           /\ pc[c] \in {"drain", "evolve", "submit", "inside", "dangling", "hung", "append", "racing"}
                => Content[Current(c)] # NoColumns
  <1>1. todo[c] # <<>>
    BY DEF CoreInv, TypeInv, HandInv, Hand
  <1>2. Current(c) \in Batches /\ Current(c) \in Range(todo[c])
    BY <1>1, CurrentType DEF CoreInv, TypeInv
  <1> QED BY <1>1, <1>2, GivenLayouts, MainWaits DEF CoreInv, TypeInv, HandInv, Hand

LEMMA CountType ==
    ASSUME CoreInv, NEW c \in Consumers, ReadErrors(c) \/ WriteErrors(c)
    PROVE  TypeInv'
  <1>1. /\ UNCHANGED <<table, schema_lock, todo, rows, created, inserted, poolVars, outcome, historyVars>>
        /\ \/ Goto(c, "count")
           \/ Goto(c, "lock")
        /\ todo[c] # <<>>
    BY DEF ReadErrors, WriteErrors, At, CoreInv, TypeInv, HandInv, Hand
  <1>2. pc' \in [Consumers \union {Main} -> PCs] /\ HandInv'
    BY <1>1, GotoType DEF CoreInv, TypeInv, PCs
  <1>3. seen' \in [Consumers -> Nat] /\ errors' \in Nat
    <2>1. \A b : ParseErrors(b) \in Nat
      BY DEF ParseErrors
    <2>2. /\ seen \in [Consumers -> Nat] /\ errors \in Nat
          /\ \/ seen' = [seen EXCEPT ![c] = errors] /\ errors' = errors
             \/ /\ seen' = [seen EXCEPT ![c] = 0]
                /\ errors' = seen[c] + ParseErrors(Current(c))
      BY DEF ReadErrors, WriteErrors, CoreInv, TypeInv, TypeOK
    <2> HIDE DEF CoreInv
    <2> QED BY <2>1, <2>2
  <1>4. PoolTyped' /\ IngestorTyped'
    BY <1>1, <1>2, <1>3, TypeHalves, PoolTypeKept DEF CoreInv, TypeInv, IngestorTyped, historyVars
  <1> QED BY <1>1, <1>2, <1>4, TypeHalvesNext DEF CoreInv, TypeInv, Distinct

LEMMA AbandonType ==
    ASSUME CoreInv, NEW c \in Consumers, Abandon(c)
    PROVE  TypeInv'
  <1>1. /\ UNCHANGED <<table, schema_lock, pc, counters, inserted, poolVars, outcome, historyVars>>
        /\ pc[c] = "ready" /\ todo[c] # <<>>
        /\ todo' = [todo EXCEPT ![c] = <<>>]
    BY DEF Abandon, At
  <1>2. todo' \in [Consumers -> Seq(Batches)]
    <2>1. <<>> \in Seq(Batches)
      OBVIOUS
    <2> QED BY <1>1, <2>1 DEF CoreInv, TypeInv, TypeOK
  <1>3. HandInv'
    <2>1. Hand(c)' /\ pc'[Main] = pc[Main]
          /\ \A d \in Consumers \ {c} : todo'[d] = todo[d] /\ pc'[d] = pc[d]
      BY <1>1 DEF Hand, CoreInv, TypeInv, TypeOK
    <2> QED BY <1>1, <2>1, HandMoves DEF CoreInv, TypeInv
  <1>4. PoolTyped' /\ IngestorTyped'
    BY <1>1, <1>2, TypeHalves, PoolTypeKept DEF CoreInv, TypeInv, IngestorTyped, counters, historyVars
  <1> QED BY <1>1, <1>3, <1>4, TypeHalvesNext DEF CoreInv, TypeInv, Distinct

LEMMA IngestNoColumnsType ==
    ASSUME CoreInv, NEW c \in Consumers, IngestNoColumns(c)
    PROVE  TypeInv'
  <1>1. /\ UNCHANGED <<table, created, inserted, poolVars, outcome, historyVars, rows, seen>>
        /\ Done(c) \/ Throw(c)
        /\ pc[c] = "lock"
        /\ errors' = errors + ParseErrors(Current(c))
    BY DEF IngestNoColumns, Locks, At, CountAgain
  <1>2. errors' \in Nat
    BY <1>1 DEF ParseErrors, CoreInv, TypeInv, TypeOK
  <1>3. /\ todo' \in [Consumers -> Seq(Batches)]
        /\ pc' \in [Consumers \union {Main} -> PCs]
        /\ schema_lock' \in Consumers \union {Main, None}
        /\ HandInv'
    BY <1>1, InHand, DoneType DEF CoreInv, TypeInv, PCs
  <1>4. PoolTyped' /\ IngestorTyped'
    BY <1>1, <1>2, <1>3, TypeHalves, PoolTypeKept DEF CoreInv, TypeInv, IngestorTyped, historyVars
  <1> QED BY <1>1, <1>3, <1>4, TypeHalvesNext DEF CoreInv, TypeInv, Distinct

LEMMA ThrowsType ==
    ASSUME CoreInv, NEW c \in Consumers, EvolveThrows(c) \/ DrainThrows(c)
    PROVE  TypeInv'
  <1>1. /\ UNCHANGED <<table, counters, inserted, poolVars, outcome, historyVars>>
        /\ Throw(c)
        /\ pc[c] \in {"lock", "evolve", "drain"}
    BY DEF EvolveThrows, DrainThrows, Locks, At
  <1>2. /\ todo' \in [Consumers -> Seq(Batches)]
        /\ pc' \in [Consumers \union {Main} -> PCs]
        /\ schema_lock' \in Consumers \union {Main, None}
        /\ HandInv'
    BY <1>1, InHand, DoneType DEF CoreInv, TypeInv, PCs
  <1>3. PoolTyped' /\ IngestorTyped'
    BY <1>1, <1>2, TypeHalves, PoolTypeKept DEF CoreInv, TypeInv, IngestorTyped, counters, historyVars
  <1> QED BY <1>1, <1>2, <1>3, TypeHalvesNext DEF CoreInv, TypeInv, Distinct

LEMMA LookAtPoolType ==
    ASSUME CoreInv, NEW c \in Consumers, LookAtPool(c)
    PROVE  TypeInv'
  <1>1. /\ UNCHANGED <<table, schema_lock, todo, rows, errors, created, inserted, poolVars, outcome, historyVars>>
        /\ Goto(c, "inside") \/ Goto(c, "racing")
        /\ seen' \in [Consumers -> Nat]
        /\ pc[c] = "submit"
    BY DEF LookAtPool, At, CoreInv, TypeInv, TypeOK
  <1>2. pc' \in [Consumers \union {Main} -> PCs] /\ HandInv'
    BY <1>1, InHand, GotoType DEF CoreInv, TypeInv, PCs
  <1>3. PoolTyped' /\ IngestorTyped'
    BY <1>1, <1>2, TypeHalves, PoolTypeKept DEF CoreInv, TypeInv, IngestorTyped, historyVars
  <1> QED BY <1>1, <1>2, <1>3, TypeHalvesNext DEF CoreInv, TypeInv, Distinct

LEMMA SubmitType ==
    ASSUME CoreInv, NEW c \in Consumers, Submit(c)
    PROVE  TypeInv'
  <1>1. /\ UNCHANGED <<table, counters, inserted, outcome, historyVars>>
        /\ Done(c) \/ UNCHANGED <<todo, pc, schema_lock>>
        /\ pc[c] = "inside"
    BY DEF Submit, At
  <1>2. Current(c) \in Batches /\ todo[c] # <<>>
    BY <1>1, InHand
  <1>3. PoolTyped'
    BY <1>2, SubmitPoolType, TypeHalves DEF CoreInv, TypeInv
  <1>4. /\ todo' \in [Consumers -> Seq(Batches)]
        /\ pc' \in [Consumers \union {Main} -> PCs]
        /\ schema_lock' \in Consumers \union {Main, None}
        /\ HandInv'
    <2>1. CASE Done(c)
      BY <1>2, <2>1, DoneType DEF CoreInv, TypeInv, PCs
    <2>2. CASE UNCHANGED <<todo, pc, schema_lock>>
      BY <2>2, HandKept DEF CoreInv, TypeInv, TypeOK, PCs
    <2> QED BY <1>1, <2>1, <2>2
  <1>5. IngestorTyped'
    BY <1>1, <1>4, TypeHalves DEF CoreInv, TypeInv, IngestorTyped, counters, historyVars
  <1> QED BY <1>1, <1>3, <1>4, <1>5, TypeHalvesNext DEF CoreInv, TypeInv, Distinct

LEMMA DangleType ==
    ASSUME CoreInv, NEW c \in Consumers, Dangle(c)
    PROVE  TypeInv'
  <1>1. /\ UNCHANGED <<table, counters, inserted, poolVars, historyVars>>
        /\ \/ Done(c) \/ UNCHANGED <<todo, pc, schema_lock>>
           \/ Goto(c, "hung") /\ UNCHANGED <<todo, schema_lock>>
        /\ pc[c] = "dangling" /\ outcome = "running"
        /\ outcome' \in {"running", "succeeded", "failed", "crashed"}
    BY DEF Dangle, At
  <1>2. todo[c] # <<>>
    BY <1>1, InHand
  <1>3. /\ todo' \in [Consumers -> Seq(Batches)]
        /\ pc' \in [Consumers \union {Main} -> PCs]
        /\ schema_lock' \in Consumers \union {Main, None}
        /\ HandInv'
    <2>1. CASE Done(c)
      BY <1>2, <2>1, DoneType DEF CoreInv, TypeInv, PCs
    <2>2. CASE UNCHANGED <<todo, pc, schema_lock>>
      BY <2>2, HandKept DEF CoreInv, TypeInv, TypeOK, PCs
    <2>3. CASE Goto(c, "hung") /\ UNCHANGED <<todo, schema_lock>>
      <3>1. Content[Current(c)] # NoColumns /\ "hung" \in PCs \ {"ready", "failed"}
        BY <1>1, InHand DEF PCs
      <3> QED BY <1>2, <2>3, <3>1, GotoType DEF CoreInv, TypeInv, TypeOK
    <2> QED BY <1>1, <2>1, <2>2, <2>3
  <1>4. PoolTyped' /\ IngestorTyped'
    BY <1>1, <1>3, TypeHalves, PoolTypeKept DEF CoreInv, TypeInv, IngestorTyped, counters, historyVars
  <1> QED BY <1>1, <1>3, <1>4, TypeHalvesNext DEF CoreInv, TypeInv, Distinct

LEMMA AppendType ==
    ASSUME CoreInv, NEW c \in Consumers, AppendNative(c) \/ AppendUnlocked(c)
    PROVE  TypeInv'
  <1>1. /\ UNCHANGED <<table, errors, created, poolVars, overtaken>>
        /\ Done(c) \/ Throw(c) \/ UNCHANGED <<todo, pc, schema_lock>>
        /\ pc[c] \in {"append", "racing"}
        /\ inserted' \in {inserted, inserted \union {Current(c)}}
        /\ rows' \in {rows, rows + 1, seen[c] + 1}
        /\ seen' \in {seen, [seen EXCEPT ![c] = 0]}
        /\ misplaced' \in {misplaced, misplaced \/ ~Fits(table, Current(c))}
        /\ outcome' \in {outcome, "crashed"}
    BY DEF AppendNative, AppendUnlocked, At
  <1>2. todo[c] # <<>> /\ Current(c) \in Batches
    BY <1>1, InHand
  <1>3. /\ todo' \in [Consumers -> Seq(Batches)]
        /\ pc' \in [Consumers \union {Main} -> PCs]
        /\ schema_lock' \in Consumers \union {Main, None}
        /\ HandInv'
    <2>1. CASE Done(c) \/ Throw(c)
      BY <1>2, <2>1, DoneType DEF CoreInv, TypeInv, PCs
    <2>2. CASE UNCHANGED <<todo, pc, schema_lock>>
      BY <2>2, HandKept DEF CoreInv, TypeInv, TypeOK, PCs
    <2> QED BY <1>1, <2>1, <2>2
  <1>4. /\ inserted' \subseteq Batches /\ rows' \in Nat /\ seen' \in [Consumers -> Nat]
        /\ misplaced' \in BOOLEAN
        /\ outcome' \in {"running", "succeeded", "failed", "crashed"}
    <2>1. seen \in [Consumers -> Nat] /\ rows \in Nat /\ inserted \subseteq Batches
      BY DEF CoreInv, TypeInv, TypeOK
    <2>2. misplaced' \in BOOLEAN /\ outcome' \in {"running", "succeeded", "failed", "crashed"}
      BY <1>1 DEF CoreInv, TypeInv, TypeOK
    <2>3. seen' \in [Consumers -> Nat]
      BY <1>1, <2>1
    <2> QED BY <1>1, <1>2, <2>1, <2>2, <2>3
  <1>5. PoolTyped' /\ IngestorTyped'
    BY <1>1, <1>3, <1>4, TypeHalves, PoolTypeKept DEF CoreInv, TypeInv, IngestorTyped
  <1> QED BY <1>1, <1>3, <1>5, TypeHalvesNext DEF CoreInv, TypeInv, Distinct

LEMMA CreateType ==
    ASSUME CoreInv, NEW c \in Consumers, Create(c)
    PROVE  TypeInv'
  <1>1. /\ UNCHANGED <<rows, seen, todo, inserted, outcome, historyVars>>
        /\ pc[c] = "lock" /\ Content[Current(c)] # NoColumns
        /\ errors' = errors + ParseErrors(Current(c))
        /\ table' = Content[Current(c)] /\ created' = TRUE /\ schema_lock' = c
        /\ EnsurePool(Content[Current(c)], Current(c))
        /\ Goto(c, "submit") \/ Goto(c, "append")
    BY DEF Create, Locks, At, CountAgain
  <1>2. todo[c] # <<>> /\ IsLayout(Content[Current(c)])
    BY <1>1, InHand
  <1>3. pc' \in [Consumers \union {Main} -> PCs] /\ HandInv'
    BY <1>1, <1>2, GotoType DEF CoreInv, TypeInv, PCs
  <1>4. PoolTyped'
    BY <1>1, <1>2, TypeHalves, EnsurePoolType DEF CoreInv, TypeInv, IsLayout
  <1>5. errors' \in Nat
    BY <1>1 DEF ParseErrors, CoreInv, TypeInv, TypeOK
  <1>6. IngestorTyped'
    BY <1>1, <1>2, <1>3, <1>5, TypeHalves DEF CoreInv, TypeInv, IngestorTyped, historyVars, IsLayout
  <1> QED BY <1>1, <1>2, <1>3, <1>4, <1>6, TypeHalvesNext DEF CoreInv, TypeInv, IsLayout

LEMMA EvolveType ==
    ASSUME CoreInv, NEW c \in Consumers, Evolve(c)
    PROVE  TypeInv'
  <1> DEFINE b == Current(c)
  <1>1. /\ UNCHANGED <<todo, counters, inserted, outcome, historyVars>>
        /\ pc[c] \in {"lock", "evolve"}
        /\ pc[c] = "lock" => Content[b] # NoColumns
        /\ table' = Evolved(table, b) /\ schema_lock' = None
        /\ IF pool THEN PublishColumns(Adds(table, b)) ELSE EnsurePool(Evolved(table, b), b)
        /\ Goto(c, "submit") \/ Goto(c, "append")
    BY DEF Evolve, Locks, At
  <1>2. todo[c] # <<>> /\ b \in Batches /\ IsLayout(table) /\ Content[b] # NoColumns
    BY <1>1, InHand DEF CoreInv, TypeInv, TypeOK, IsLayout
  <1>3. IsLayout(Evolved(table, b)) /\ IsLayout(Adds(table, b))
    BY <1>2, EvolvedFacts, AddsFacts
  <1>4. pc' \in [Consumers \union {Main} -> PCs] /\ HandInv'
    BY <1>1, <1>2, GotoType DEF CoreInv, TypeInv, PCs
  <1>5. PoolTyped'
    BY <1>1, <1>3, TypeHalves, EnsurePoolType, PublishType DEF CoreInv, TypeInv, IsLayout
  <1>6. IngestorTyped'
    BY <1>1, <1>3, <1>4, TypeHalves DEF CoreInv, TypeInv, IngestorTyped, counters, historyVars, IsLayout
  <1> QED BY <1>1, <1>3, <1>4, <1>5, <1>6, TypeHalvesNext DEF CoreInv, TypeInv, IsLayout

LEMMA DrainToWidenType ==
    ASSUME CoreInv, NEW c \in Consumers, DrainToWiden(c)
    PROVE  TypeInv'
  <1>1. /\ UNCHANGED <<table, todo, counters, inserted, outcome, misplaced>>
        /\ pc[c] = "lock" /\ Content[Current(c)] # NoColumns
        /\ StopPool /\ schema_lock' = c /\ Goto(c, "drain")
        /\ overtaken' = overtaken \union Overtaken(c)
    BY DEF DrainToWiden, Locks, At
  <1>2. todo[c] # <<>>
    BY <1>1, InHand
  <1>3. pc' \in [Consumers \union {Main} -> PCs] /\ HandInv'
    BY <1>1, <1>2, GotoType DEF CoreInv, TypeInv, PCs
  <1>4. Overtaken(c) \subseteq Batches
    <2>1. \A d \in Consumers : pc[d] \in {"submit", "inside"} => Current(d) \in Batches
      BY InHand
    <2> QED BY <2>1 DEF Overtaken
  <1>5. PoolTyped'
    BY <1>1, TypeHalves, StopPoolType DEF CoreInv, TypeInv
  <1>6. IngestorTyped'
    BY <1>1, <1>3, <1>4, TypeHalves DEF CoreInv, TypeInv, IngestorTyped, counters
  <1> QED BY <1>1, <1>3, <1>5, <1>6, TypeHalvesNext DEF CoreInv, TypeInv, Distinct

\* The threads inside Submit are left dangling, the others stay where they are.
LEMMA GotoWithoutPoolType ==
    ASSUME TypeOK, NEW t \in Consumers \union {Main}, NEW where \in PCs,
           GotoWithoutPool(t, where)
    PROVE  /\ pc' \in [Consumers \union {Main} -> PCs]
           /\ pc'[t] = where
           /\ \A u \in (Consumers \union {Main}) \ {t} :
                  pc'[u] = IF pc[u] = "inside" THEN "dangling" ELSE pc[u]
  <1>1. DOMAIN pc = Consumers \union {Main} /\ \A u \in DOMAIN pc : pc[u] \in PCs
    BY DEF TypeOK, PCs
  <1>2. "dangling" \in PCs
    BY DEF PCs
  <1> QED BY <1>1, <1>2 DEF GotoWithoutPool

LEMMA DrainedToWidenType ==
    ASSUME CoreInv, NEW c \in Consumers, DrainedToWiden(c)
    PROVE  TypeInv'
  <1>1. /\ UNCHANGED <<table, schema_lock, todo, seen, errors, created, outcome, overtaken>>
        /\ pc[c] = "drain" /\ Merge /\ GotoWithoutPool(c, "evolve")
    BY DEF DrainedToWiden, At
  <1>2. todo[c] # <<>> /\ pc[Main] = "ready" /\ Content[Current(c)] # NoColumns
    BY <1>1, InHand
  <1>3. /\ pc' \in [Consumers \union {Main} -> PCs]
        /\ pc'[c] = "evolve"
        /\ \A u \in (Consumers \union {Main}) \ {c} :
               pc'[u] = IF pc[u] = "inside" THEN "dangling" ELSE pc[u]
    <2>1. "evolve" \in PCs
      BY DEF PCs
    <2> QED BY <1>1, <2>1, GotoWithoutPoolType DEF CoreInv, TypeInv
  <1>4. HandInv'
    <2>1. pc'[Main] = pc[Main]
      BY <1>2, <1>3, PoolAssumption DEF PoolAssumption
    <2>2. Hand(c)'
      BY <1>1, <1>2, <1>3 DEF Hand, Current
    <2>3. \A d \in Consumers \ {c} :
               /\ todo'[d] = todo[d]
               /\ pc'[d] = pc[d] \/ (pc[d] = "inside" /\ pc'[d] = "dangling")
      BY <1>1, <1>3
    <2> QED BY <1>2, <2>1, <2>2, <2>3, HandMoves DEF CoreInv, TypeInv
  <1>5. /\ PoolTyped'
        /\ inserted' \subseteq Batches /\ rows' \in Nat /\ misplaced' \in BOOLEAN
    BY <1>1, MergeType DEF CoreInv, TypeInv
  <1>6. IngestorTyped'
    BY <1>1, <1>3, <1>5, TypeHalves DEF CoreInv, TypeInv, IngestorTyped
  <1> QED BY <1>1, <1>4, <1>5, <1>6, TypeHalvesNext DEF CoreInv, TypeInv, Distinct

LEMMA WorkerType ==
    ASSUME CoreInv, NEW w \in Workers, Take(w) \/ AppendBatch(w) \/ WorkerThrows(w)
    PROVE  TypeInv'
  <1>1. /\ UNCHANGED <<ingestorVars, outcome, overtaken>>
        /\ misplaced' \in BOOLEAN
    BY DEF Take, AppendBatch, WorkerThrows, historyVars, CoreInv, TypeInv, TypeOK
  <1>2. PoolTyped'
    <2>1. AppendBatch(w) => parsed[w] \in Batches
      BY DEF AppendBatch, Works, CoreInv, PoolInv, TypeInv, TypeOK
    <2> QED BY <2>1, TakeType, AppendBatchType, WorkerThrowsType, TypeHalves DEF CoreInv, TypeInv
  <1>3. IngestorTyped'
    BY <1>1, TypeHalves DEF CoreInv, TypeInv, IngestorTyped, ingestorVars, counters
  <1>4. HandInv'
    BY <1>1, HandKept DEF CoreInv, TypeInv, ingestorVars
  <1> QED BY <1>1, <1>2, <1>3, <1>4, TypeHalvesNext DEF CoreInv, TypeInv, Distinct, ingestorVars

LEMMA FinishType ==
    ASSUME CoreInv, Finish
    PROVE  TypeInv'
  <1>1. /\ UNCHANGED <<table, schema_lock, todo, counters, inserted, outcome, historyVars>>
        /\ pc[Main] = "ready" /\ ConsumersDone /\ StopPool /\ Goto(Main, "drain")
    BY DEF Finish, At
  <1>2. /\ pc' \in [Consumers \union {Main} -> PCs]
        /\ pc'[Main] = "drain" /\ \A c \in Consumers : pc'[c] = pc[c]
    BY <1>1, PoolAssumption DEF Goto, CoreInv, TypeInv, TypeOK, PCs, PoolAssumption
  <1>3. HandInv'
    BY <1>1, <1>2 DEF CoreInv, TypeInv, HandInv, Hand, Current, ConsumersDone, Returned
  <1>4. PoolTyped'
    BY <1>1, TypeHalves, StopPoolType DEF CoreInv, TypeInv
  <1>5. IngestorTyped'
    BY <1>1, <1>2, TypeHalves DEF CoreInv, TypeInv, IngestorTyped, counters, historyVars
  <1> QED BY <1>1, <1>3, <1>4, <1>5, TypeHalvesNext DEF CoreInv, TypeInv, Distinct

\* While the main thread drains, no consumer is inside Submit.
LEMMA MainDrains ==
    ASSUME CoreInv, pc[Main] = "drain" \/ ConsumersDone
    PROVE  \A c \in Consumers : pc[c] \in {"ready", "failed"}
  BY DEF CoreInv, TypeInv, HandInv, ConsumersDone, Returned

LEMMA EndType ==
    ASSUME CoreInv, End
    PROVE  TypeInv'
  <1>1. /\ UNCHANGED <<table, schema_lock, todo, seen, errors, created, overtaken>>
        /\ outcome' \in {"running", "succeeded", "failed", "crashed"}
    BY DEF End
  <1>2. CASE UNCHANGED <<inserted, rows, pc, poolVars, misplaced>>
    <2>1. HandInv'
      BY <1>1, <1>2, HandKept DEF CoreInv, TypeInv
    <2>2. PoolTyped' /\ IngestorTyped'
      BY <1>1, <1>2, TypeHalves, PoolTypeKept DEF CoreInv, TypeInv, IngestorTyped
    <2> QED BY <1>1, <2>1, <2>2, TypeHalvesNext DEF CoreInv, TypeInv, Distinct
  <1>3. CASE pc[Main] = "drain" /\ Merge /\ GotoWithoutPool(Main, "ready")
    <2>1. /\ pc' \in [Consumers \union {Main} -> PCs]
          /\ pc'[Main] = "ready"
          /\ \A u \in (Consumers \union {Main}) \ {Main} :
                 pc'[u] = IF pc[u] = "inside" THEN "dangling" ELSE pc[u]
      <3>1. "ready" \in PCs /\ Main \in Consumers \union {Main}
        BY DEF PCs
      <3> QED BY <1>3, <3>1, GotoWithoutPoolType DEF CoreInv, TypeInv
    <2>2. \A c \in Consumers : pc'[c] = pc[c]
      BY <1>3, <2>1, MainDrains, PoolAssumption DEF PoolAssumption
    <2>3. HandInv'
      BY <1>1, <2>1, <2>2 DEF CoreInv, TypeInv, HandInv, Hand, Current
    <2>4. /\ PoolTyped'
          /\ inserted' \subseteq Batches /\ rows' \in Nat /\ misplaced' \in BOOLEAN
      BY <1>3, MergeType DEF CoreInv, TypeInv
    <2>5. IngestorTyped'
      BY <1>1, <2>1, <2>4, TypeHalves DEF CoreInv, TypeInv, IngestorTyped
    <2> QED BY <1>1, <2>3, <2>4, <2>5, TypeHalvesNext DEF CoreInv, TypeInv, Distinct
  <1> QED BY <1>2, <1>3 DEF End, At

LEMMA FlusherThrowsType ==
    ASSUME CoreInv, FlusherThrows
    PROVE  TypeInv'
  <1>1. UNCHANGED <<ingestorVars, poolVars, historyVars>> /\ outcome' = "crashed"
    BY DEF FlusherThrows
  <1>2. HandInv'
    BY <1>1, HandKept DEF CoreInv, TypeInv, ingestorVars
  <1>3. PoolTyped' /\ IngestorTyped'
    BY <1>1, TypeHalves, PoolTypeKept DEF CoreInv, TypeInv, IngestorTyped, ingestorVars, counters, historyVars
  <1> QED BY <1>1, <1>2, <1>3, TypeHalvesNext DEF CoreInv, TypeInv, Distinct, ingestorVars

LEMMA StutterType ==
    ASSUME TypeInv, UNCHANGED vars
    PROVE  TypeInv'
  <1>1. UNCHANGED <<ingestorVars, poolVars, outcome, historyVars>>
    BY DEF vars
  <1>2. HandInv'
    BY <1>1, HandKept DEF TypeInv, ingestorVars
  <1>3. PoolTyped' /\ IngestorTyped'
    BY <1>1, TypeHalves, PoolTypeKept DEF TypeInv, IngestorTyped, ingestorVars, counters, historyVars
  <1> QED BY <1>1, <1>2, <1>3, TypeHalvesNext DEF TypeInv, Distinct, ingestorVars

LEMMA TypeStep == CoreInv /\ [Next]_vars => TypeInv'
  <1> SUFFICES ASSUME CoreInv, [Next]_vars PROVE TypeInv'
    OBVIOUS
  <1>1. CASE UNCHANGED vars
    BY <1>1, StutterType DEF CoreInv
  <1>2. CASE Next
    BY <1>2, NextCases, CountType, AbandonType, IngestNoColumnsType, CreateType, EvolveType, ThrowsType,
       LookAtPoolType, SubmitType, DangleType, AppendType, DrainToWidenType, DrainedToWidenType,
       WorkerType, FinishType, EndType, FlusherThrowsType
  <1> QED BY <1>1, <1>2

LEMMA TypeInit == Init => TypeInv
  <1> SUFFICES ASSUME Init PROVE TypeInv
    OBVIOUS
  <1>1. IsLayout(table) /\ todo \in [Consumers -> Seq(Batches)] /\ IsFiniteSet(Batches)
    BY GivenLayouts, FiniteBatches, PoolAssumption DEF Init, PoolAssumption
  <1>2. pc \in [Consumers \union {Main} -> PCs] /\ \A t \in Consumers \union {Main} : pc[t] = "ready"
    BY DEF Init, PCs
  <1>3. HandInv
    BY <1>2 DEF HandInv, Hand
  <1>4. NoColumns \in Seq(Columns) /\ <<>> \in Seq(Batches) /\ Len(<<>>) = 0 /\ Capacity \in Nat
    BY PoolAssumption DEF NoColumns, PoolAssumption
  <1>5. NoLayout \in [shape : Seq(Columns), layout : Seq(Columns)]
    BY <1>4 DEF NoLayout
  <1>6. queue \in Seq(Batches) /\ Len(queue) <= Capacity
    BY <1>4 DEF Init, NoPool
  <1>7. PoolTyped
    BY <1>4, <1>5, <1>6 DEF Init, NoPool, PoolTyped
  <1>8. IngestorTyped
    BY <1>1, <1>2 DEF Init, IngestorTyped, IsLayout
  <1> QED BY <1>1, <1>3, <1>7, <1>8, TypeHalves DEF TypeInv, IsLayout

--------------------------------------------------------------------------------
(* The lock and the pool *)

\* Where threads are once c has moved.
LEMMA Moves ==
    ASSUME TypeOK, NEW c \in Consumers, NEW where, Goto(c, where)
    PROVE  /\ pc'[c] = where /\ pc'[Main] = pc[Main]
           /\ \A d \in Consumers \ {c} : pc'[d] = pc[d]
  BY PoolAssumption DEF PoolAssumption, Goto, TypeOK

\* Where they are, and what is left, once c is done with its batch or has failed.
LEMMA Leaves ==
    ASSUME TypeOK, NEW c \in Consumers, Done(c) \/ Throw(c)
    PROVE  /\ pc'[c] \in {"ready", "failed"} /\ pc'[Main] = pc[Main]
           /\ Throw(c) => pc'[c] = "failed"
           /\ \A d \in Consumers \ {c} : pc'[d] = pc[d] /\ todo'[d] = todo[d]
           /\ todo'[c] \in {Tail(todo[c]), <<>>}
           /\ schema_lock' = IF schema_lock = c THEN None ELSE schema_lock
  <1>1. Goto(c, "ready") \/ Goto(c, "failed")
    BY DEF Done, Throw
  <1>2. pc'[c] \in {"ready", "failed"} /\ pc'[Main] = pc[Main] /\ \A d \in Consumers \ {c} : pc'[d] = pc[d]
    BY <1>1, Moves
  <1>3. Throw(c) => pc'[c] = "failed"
    BY Moves DEF Throw
  <1> QED BY <1>2, <1>3 DEF Done, Throw, Unlocked, TypeOK

\* The lock of the others is not taken from them.
LEMMA LockKept ==
    ASSUME LockInv, NEW c \in Consumers,
           schema_lock' \in {schema_lock, None, c},
           schema_lock' # schema_lock => schema_lock \in {None, c},
           \A d \in Consumers \ {c} : pc'[d] \in {"drain", "evolve"} => pc'[d] = pc[d],
           pc'[c] \in {"drain", "evolve"} => schema_lock' = c
    PROVE  LockInv'
  <1>1. None \notin Consumers /\ None # Main /\ c # Main
    BY PoolAssumption DEF PoolAssumption
  <1> QED BY <1>1 DEF LockInv

LEMMA LockStep == CoreInv /\ [Next]_vars => LockInv'
  <1> SUFFICES ASSUME CoreInv, [Next]_vars PROVE LockInv'
    OBVIOUS
  <1> USE DEF CoreInv
  <1>1. TypeOK /\ LockInv
    BY DEF TypeInv
  <1>2. ASSUME NEW c \in Consumers,
               ReadErrors(c) \/ WriteErrors(c) \/ LookAtPool(c)
        PROVE  LockInv'
    <2>1. schema_lock' = schema_lock /\ \E where \in {"count", "lock", "inside", "racing"} : Goto(c, where)
      BY <1>2 DEF ReadErrors, WriteErrors, LookAtPool
    <2>2. /\ pc'[c] \in {"count", "lock", "inside", "racing"}
          /\ \A d \in Consumers \ {c} : pc'[d] = pc[d]
      BY <1>1, <2>1, Moves
    <2> QED BY <1>1, <2>1, <2>2, LockKept
  <1>3. ASSUME NEW c \in Consumers, Done(c) \/ Throw(c)
        PROVE  LockInv'
    BY <1>1, <1>3, Leaves, LockKept
  <1>4. ASSUME UNCHANGED <<schema_lock, pc>>
        PROVE  LockInv'
    BY <1>1, <1>4 DEF LockInv
  <1>5. ASSUME NEW c \in Consumers, Create(c) \/ Evolve(c)
        PROVE  LockInv'
    <2>1. schema_lock \in {None, c} /\ schema_lock' \in {None, c}
      BY <1>1, <1>5 DEF Create, Evolve, Locks, At, LockInv
    <2>2. Goto(c, "submit") \/ Goto(c, "append")
      BY <1>5 DEF Create, Evolve
    <2>3. pc'[c] \in {"submit", "append"} /\ \A d \in Consumers \ {c} : pc'[d] = pc[d]
      BY <1>1, <2>2, Moves
    <2> QED BY <1>1, <2>1, <2>3, LockKept
  <1>6. ASSUME NEW c \in Consumers, DrainToWiden(c)
        PROVE  LockInv'
    <2>1. schema_lock = None /\ schema_lock' = c /\ Goto(c, "drain")
      BY <1>6 DEF DrainToWiden, Locks
    <2>2. pc'[c] = "drain" /\ \A d \in Consumers \ {c} : pc'[d] = pc[d]
      BY <1>1, <2>1, Moves
    <2> QED BY <1>1, <2>1, <2>2, LockKept
  <1>7. ASSUME NEW c \in Consumers, DrainedToWiden(c)
        PROVE  LockInv'
    <2>1. schema_lock' = schema_lock /\ GotoWithoutPool(c, "evolve") /\ schema_lock = c
      BY <1>1, <1>7 DEF DrainedToWiden, At, LockInv
    <2>2. \A d \in Consumers \ {c} : pc'[d] = IF pc[d] = "inside" THEN "dangling" ELSE pc[d]
      BY <1>1, <2>1, GotoWithoutPoolType DEF PCs
    <2> QED BY <1>1, <2>1, <2>2, LockKept
  <1>8. ASSUME Finish PROVE LockInv'
    <2>1. schema_lock' = schema_lock /\ \A c \in Consumers : pc'[c] = pc[c]
      BY <1>1, <1>8, PoolAssumption DEF Finish, Goto, TypeOK, PoolAssumption
    <2> QED BY <1>1, <2>1 DEF LockInv
  <1>9. ASSUME End PROVE LockInv'
    <2>1. CASE GotoWithoutPool(Main, "ready")
      <3>1. \A c \in Consumers : pc'[c] = IF pc[c] = "inside" THEN "dangling" ELSE pc[c]
        BY <1>1, <2>1, PoolAssumption DEF GotoWithoutPool, TypeOK, PoolAssumption
      <3>2. schema_lock' = schema_lock
        BY <1>9 DEF End
      <3> QED BY <1>1, <3>1, <3>2 DEF LockInv
    <2> QED BY <1>4, <1>9, <2>1 DEF End
  <1>10. ASSUME NEW c \in Consumers,
                IngestNoColumns(c) \/ EvolveThrows(c) \/ Submit(c) \/ Dangle(c) \/ AppendNative(c)
                  \/ AppendUnlocked(c) \/ DrainThrows(c) \/ Abandon(c)
         PROVE  LockInv'
    <2>1. \/ Done(c) \/ Throw(c) \/ UNCHANGED <<schema_lock, pc>>
          \/ UNCHANGED schema_lock /\ Goto(c, "hung")
      BY <1>10 DEF IngestNoColumns, EvolveThrows, Submit, Dangle, AppendNative, AppendUnlocked, DrainThrows,
                   Abandon
    <2>2. CASE UNCHANGED schema_lock /\ Goto(c, "hung")
      <3>1. pc'[c] = "hung" /\ \A d \in Consumers \ {c} : pc'[d] = pc[d]
        BY <1>1, <2>2, Moves
      <3> QED BY <1>1, <2>2, <3>1, LockKept
    <2> QED BY <1>3, <1>4, <2>1, <2>2
  <1>11. ASSUME NEW w \in Workers, Take(w) \/ AppendBatch(w) \/ WorkerThrows(w)
         PROVE  LockInv'
    BY <1>4, <1>11 DEF Take, AppendBatch, WorkerThrows, ingestorVars
  <1>12. FlusherThrows \/ UNCHANGED vars => LockInv'
    BY <1>4 DEF FlusherThrows, vars, ingestorVars
  <1> QED BY <1>2, <1>5, <1>6, <1>7, <1>8, <1>9, <1>10, <1>11, <1>12, NextCases

\* A consumer moves and the workers do nothing; batches may be published or queued.
LEMMA PoolMoves ==
    ASSUME CoreInv, NEW c \in Consumers, pc[c] # "failed",
           pc'[Main] = pc[Main],
           \A d \in Consumers \ {c} : pc'[d] = pc[d],
           pc'[c] = pc[c] \/ (/\ pc'[c] \notin {"drain", "evolve"}
                              /\ pc'[c] = "inside" => pool
                              /\ pc[c] = "drain" => pc'[c] = "failed"),
           UNCHANGED <<pool, stopped, error, worker, parsed, pending>>,
           UNCHANGED <<queue, collection, layout_cache>> \/ pool,
           queue' = queue \/ ~stopped
    PROVE  PoolInv'
  <1> USE DEF CoreInv, PoolInv
  <1>1. ~pool' => NoneLeft'
    BY DEF NoneLeft
  <1>2. /\ \A d \in Consumers : /\ pc'[d] = "drain" => pool' /\ stopped'
                                /\ pc'[d] = "evolve" => ~pool'
                                /\ pc'[d] = "inside" => pool'
        /\ pc'[Main] = "drain" => pool' /\ stopped'
    OBVIOUS
  <1>3. stopped' => Stopping'
    <2> SUFFICES ASSUME stopped PROVE Stopping'
      OBVIOUS
    <2>1. Stopping
      OBVIOUS
    <2>2. CASE SomeFailed
      <3>1. PICK d \in Consumers : pc[d] = "failed"
        BY <2>2 DEF SomeFailed
      <3> QED BY <3>1 DEF Stopping, Doomed, SomeFailed
    <2>3. CASE \E d \in Consumers : pc[d] = "drain"
      <3>1. PICK d \in Consumers : pc[d] = "drain"
        BY <2>3
      <3>2. pc'[d] \in {"drain", "failed"}
        BY <3>1
      <3> QED BY <3>2 DEF Stopping, Doomed, SomeFailed
    <2> QED BY <2>1, <2>2, <2>3 DEF Stopping, Doomed
  <1>4. \A w \in Workers : /\ worker'[w] = "append" <=> parsed'[w] # None
                           /\ worker'[w] # "append" => pending'[w] = <<>>
                           /\ pool' /\ worker'[w] = "exit" => stopped' /\ (queue' = <<>> \/ error')
    OBVIOUS
  <1> QED BY <1>1, <1>2, <1>3, <1>4

\* A new pool's workers have nothing yet, and nobody drains or stops it.
LEMMA PoolMade ==
    ASSUME CoreInv, NEW c \in Consumers, ~pool, pool',
           schema_lock \in {None, c},
           pc'[Main] = pc[Main],
           \A d \in Consumers \ {c} : pc'[d] = pc[d],
           pc'[c] \notin {"drain", "evolve"},
           worker' = [w \in Workers |-> "pop"],
           UNCHANGED <<queueVars, parsed, pending>>
    PROVE  PoolInv'
  <1> USE DEF CoreInv
  <1>1. /\ \A d \in Consumers \ {c} : pc[d] # "evolve"
        /\ pc[Main] # "drain" /\ \A d \in Consumers : pc[d] # "drain"
        /\ stopped = FALSE
    BY PoolAssumption DEF PoolAssumption, LockInv, PoolInv, NoneLeft
  <1>2. \A w \in Workers : parsed[w] = None /\ pending[w] = <<>>
    BY DEF PoolInv, NoneLeft
  <1> QED BY <1>1, <1>2 DEF PoolInv, queueVars

LEMMA EvolvePool ==
    ASSUME CoreInv, NEW c \in Consumers, Create(c) \/ Evolve(c)
    PROVE  PoolInv'
  <1>1. /\ schema_lock \in {None, c} /\ pc[c] \in {"lock", "evolve"}
        /\ pc[c] = "evolve" => ~pool
    BY DEF Create, Evolve, Locks, At, CoreInv, LockInv, PoolInv
  <1>2. Goto(c, "submit") \/ Goto(c, "append")
    BY DEF Create, Evolve
  <1>3. /\ pc'[c] \in {"submit", "append"} /\ pc'[Main] = pc[Main]
        /\ \A d \in Consumers \ {c} : pc'[d] = pc[d]
    BY <1>2, Moves DEF CoreInv, TypeInv
  <1>4. PICK layout, adds :
            \/ EnsurePool(layout, Current(c))
            \/ pool /\ PublishColumns(adds)
    BY DEF Create, Evolve
  <1>5. CASE /\ UNCHANGED <<pool, stopped, error, worker, parsed, pending>>
             /\ UNCHANGED <<queue, collection, layout_cache>> \/ pool
             /\ queue' = queue
    BY <1>1, <1>3, <1>5, PoolMoves
  <1>6. CASE /\ ~pool /\ pool' /\ worker' = [w \in Workers |-> "pop"]
             /\ UNCHANGED <<queueVars, parsed, pending>>
    BY <1>1, <1>3, <1>6, PoolMade
  <1>7. CASE pool /\ PublishColumns(adds)
    BY <1>5, <1>7 DEF PublishColumns, queueVars
  <1>8. CASE EnsurePool(layout, Current(c))
    BY <1>5, <1>6, <1>8 DEF EnsurePool, poolVars, queueVars, workerVars
  <1> QED BY <1>4, <1>7, <1>8

LEMMA SubmitPool ==
    ASSUME CoreInv, NEW c \in Consumers, Submit(c)
    PROVE  PoolInv'
  <1>1. /\ pc[c] = "inside" /\ pool
        /\ UNCHANGED <<pool, stopped, error, workerVars>>
        /\ Done(c) \/ UNCHANGED pc
        /\ queue' = queue \/ ~stopped
    BY DEF Submit, At, CoreInv, PoolInv
  <1>2. /\ pc'[c] = pc[c] \/ pc'[c] \in {"ready", "failed"}
        /\ pc'[Main] = pc[Main] /\ \A d \in Consumers \ {c} : pc'[d] = pc[d]
    BY <1>1, Leaves DEF CoreInv, TypeInv
  <1> QED BY <1>1, <1>2, PoolMoves DEF workerVars

LEMMA WorkerPool ==
    ASSUME CoreInv, NEW w \in Workers, Take(w) \/ AppendBatch(w) \/ WorkerThrows(w)
    PROVE  PoolInv'
  <1> USE DEF CoreInv, PoolInv
  <1>0. TypeOK
    BY DEF TypeInv
  <1>1. UNCHANGED <<pc, pool>> /\ pool
    BY DEF Take, AppendBatch, WorkerThrows, ingestorVars, Works, NoneLeft
  <1>2. /\ worker' \in [Workers -> {"pop", "append", "exit"}]
        /\ \A v \in Workers \ {w} : /\ worker'[v] = worker[v] /\ parsed'[v] = parsed[v]
                                    /\ pending'[v] = pending[v]
        /\ worker'[w] = "append" <=> parsed'[w] # None
        /\ worker'[w] # "append" => pending'[w] = <<>>
    <2>1. CASE UNCHANGED <<worker, parsed, pending>>
      BY <1>0, <2>1 DEF TypeOK
    <2>2. CASE worker' = [worker EXCEPT ![w] = "exit"] /\ UNCHANGED <<parsed, pending>> /\ worker[w] = "pop"
      BY <1>0, <2>2 DEF TypeOK
    <2>3. CASE /\ parsed' = [parsed EXCEPT ![w] = None]
               /\ pending' = [pending EXCEPT ![w] = NoColumns]
               /\ worker' = [worker EXCEPT ![w] = "exit"] \/ worker' = [worker EXCEPT ![w] = "pop"]
      BY <1>0, <2>3 DEF TypeOK, NoColumns
    <2>4. CASE /\ queue # <<>>
               /\ parsed' = [parsed EXCEPT ![w] = Head(queue)]
               /\ pending' = [pending EXCEPT ![w] = Beyond(types, local_types[w])]
               /\ worker' = [worker EXCEPT ![w] = "append"]
      <3>1. Head(queue) # None
        BY <1>0, <2>4, PoolAssumption DEF PoolAssumption, TypeOK
      <3> QED BY <1>0, <2>4, <3>1 DEF TypeOK
    <2> QED BY <2>1, <2>2, <2>3, <2>4 DEF Take, AppendBatch, WorkerThrows, Works
  <1>3. /\ stopped => stopped'
        /\ stopped' => stopped \/ error'
        /\ error => error'
        /\ worker'[w] = "exit" => stopped' /\ (queue' = <<>> \/ error')
        /\ queue = <<>> => queue' = <<>> \/ error'
    BY <1>0, <1>1 DEF Take, AppendBatch, WorkerThrows, StopWithError, Works, queueVars, TypeOK
  <1>4. stopped' => Stopping'
    BY <1>1, <1>3 DEF Stopping, Doomed, SomeFailed
  <1>5. \A v \in Workers : /\ worker'[v] = "append" <=> parsed'[v] # None
                           /\ worker'[v] # "append" => pending'[v] = <<>>
                           /\ pool' /\ worker'[v] = "exit" => stopped' /\ (queue' = <<>> \/ error')
    BY <1>1, <1>2, <1>3
  <1> QED BY <1>1, <1>3, <1>4, <1>5

LEMMA DrainPool ==
    ASSUME CoreInv, Finish \/ \E c \in Consumers : DrainToWiden(c)
    PROVE  PoolInv'
  <1> USE DEF CoreInv
  <1>1. StopPool /\ pool
    BY DEF Finish, DrainToWiden
  <1>2. PICK t \in Consumers \union {Main} : Goto(t, "drain")
    BY DEF Finish, DrainToWiden
  <1>3. pc'[t] = "drain" /\ \A u \in (Consumers \union {Main}) \ {t} : pc'[u] = pc[u]
    BY <1>2 DEF Goto, TypeInv, TypeOK
  <1>4. Stopping'
    BY <1>3 DEF Stopping
  <1>5. pool' /\ stopped' /\ UNCHANGED <<queue, error, worker, parsed, pending>>
    BY <1>1 DEF StopPool, workerVars
  <1>6. \A c \in Consumers : pc'[c] # "evolve"
    BY <1>1, <1>3 DEF PoolInv
  <1>7. \A w \in Workers : pool' /\ worker'[w] = "exit" => stopped' /\ (queue' = <<>> \/ error')
    BY <1>1, <1>5 DEF PoolInv
  <1> QED BY <1>4, <1>5, <1>6, <1>7 DEF PoolInv

LEMMA MergePool ==
    ASSUME CoreInv, Merge,
           \/ pc[Main] = "drain" /\ GotoWithoutPool(Main, "ready")
           \/ \E c \in Consumers : DrainedToWiden(c)
    PROVE  PoolInv'
  <1> USE DEF CoreInv
  <1>1. /\ Joined /\ pool' = FALSE /\ UNCHANGED <<worker, parsed, pending>>
        /\ queue' = <<>> /\ stopped' = FALSE /\ error' = FALSE
        /\ layout_cache' = [w \in Workers |-> NoLayout]
        /\ collection' = [w \in Workers |-> {}]
    BY DEF Merge, PoolGone
  <1>2. NoneLeft'
    BY <1>1 DEF NoneLeft, Joined
  <1>3. \A t \in Consumers \union {Main} : pc'[t] \notin {"drain", "inside"}
    <2>1. CASE pc[Main] = "drain" /\ GotoWithoutPool(Main, "ready")
      <3>1. \A c \in Consumers : pc[c] \in {"ready", "failed"}
        BY <2>1, MainDrains
      <3> QED BY <2>1, <3>1 DEF GotoWithoutPool, TypeInv, TypeOK
    <2>2. ASSUME NEW c \in Consumers, DrainedToWiden(c)
          PROVE  \A t \in Consumers \union {Main} : pc'[t] \notin {"drain", "inside"}
      <3>1. pc[c] = "drain" /\ GotoWithoutPool(c, "evolve")
        BY <2>2 DEF DrainedToWiden, At
      <3>2. pc[Main] = "ready" /\ \A d \in Consumers \ {c} : pc[d] # "drain"
        BY <3>1, InHand DEF LockInv
      <3>3. /\ pc'[c] = "evolve"
            /\ \A u \in (Consumers \union {Main}) \ {c} :
                   pc'[u] = IF pc[u] = "inside" THEN "dangling" ELSE pc[u]
        BY <3>1, GotoWithoutPoolType DEF TypeInv, PCs
      <3> QED BY <3>2, <3>3
    <2> QED BY <2>1, <2>2
  <1> QED BY <1>1, <1>2, <1>3 DEF PoolInv, Joined

LEMMA PoolStep == CoreInv /\ [Next]_vars => PoolInv'
  <1> SUFFICES ASSUME CoreInv, [Next]_vars PROVE PoolInv'
    OBVIOUS
  <1>0. TypeOK
    BY DEF CoreInv, TypeInv
  <1>1. ASSUME UNCHANGED <<pc, poolVars>> PROVE PoolInv'
    BY <1>1 DEF CoreInv, PoolInv, NoneLeft, Stopping, Doomed, SomeFailed, poolVars, queueVars, workerVars
  <1>2. ASSUME NEW c \in Consumers, pc[c] # "failed", UNCHANGED poolVars,
               pc'[Main] = pc[Main],
               \A d \in Consumers \ {c} : pc'[d] = pc[d],
               pc'[c] = pc[c] \/ (/\ pc'[c] \notin {"drain", "evolve"}
                                  /\ pc'[c] = "inside" => pool
                                  /\ pc[c] = "drain" => pc'[c] = "failed")
        PROVE  PoolInv'
    BY <1>2, PoolMoves DEF poolVars, queueVars, workerVars
  <1>3. ASSUME NEW c \in Consumers, ReadErrors(c) \/ WriteErrors(c) \/ LookAtPool(c)
        PROVE  PoolInv'
    <2>1. /\ UNCHANGED poolVars /\ pc[c] \notin {"failed", "drain"}
          /\ \E where \in {"count", "lock", "racing"} \union (IF pool THEN {"inside"} ELSE {}) : Goto(c, where)
      BY <1>3 DEF ReadErrors, WriteErrors, LookAtPool, At
    <2>2. /\ pc'[Main] = pc[Main] /\ \A d \in Consumers \ {c} : pc'[d] = pc[d]
          /\ pc'[c] \in {"count", "lock", "racing"} \union (IF pool THEN {"inside"} ELSE {})
      BY <1>0, <2>1, Moves
    <2> QED BY <1>2, <2>1, <2>2
  <1>4. ASSUME NEW c \in Consumers, UNCHANGED poolVars, pc[c] # "failed",
               (Done(c) /\ pc[c] # "drain") \/ Throw(c)
        PROVE  PoolInv'
    <2>1. /\ pc'[c] \in {"ready", "failed"} /\ pc'[Main] = pc[Main]
          /\ \A d \in Consumers \ {c} : pc'[d] = pc[d]
          /\ pc[c] = "drain" => pc'[c] = "failed"
      BY <1>0, <1>4, Leaves
    <2> QED BY <1>2, <1>4, <2>1
  <1>5. ASSUME NEW c \in Consumers,
               IngestNoColumns(c) \/ EvolveThrows(c) \/ Dangle(c) \/ AppendNative(c)
                 \/ AppendUnlocked(c) \/ DrainThrows(c) \/ Abandon(c)
        PROVE  PoolInv'
    <2>1. /\ UNCHANGED poolVars /\ pc[c] # "failed"
          /\ \/ (Done(c) /\ pc[c] # "drain") \/ Throw(c) \/ UNCHANGED pc
             \/ pc[c] = "dangling" /\ Goto(c, "hung")
      BY <1>5 DEF IngestNoColumns, EvolveThrows, Dangle, AppendNative, AppendUnlocked, DrainThrows,
                  Abandon, Locks, At
    <2>2. CASE pc[c] = "dangling" /\ Goto(c, "hung")
      <3>1. /\ pc'[c] = "hung" /\ pc'[Main] = pc[Main]
            /\ \A d \in Consumers \ {c} : pc'[d] = pc[d]
        BY <1>0, <2>2, Moves
      <3> QED BY <1>2, <2>1, <2>2, <3>1
    <2> QED BY <1>1, <1>4, <2>1, <2>2
  <1>6. ASSUME End PROVE PoolInv'
    <2>1. \/ UNCHANGED <<pc, poolVars>>
          \/ pc[Main] = "drain" /\ Merge /\ GotoWithoutPool(Main, "ready")
      BY <1>6 DEF End, At
    <2> QED BY <1>1, <2>1, MergePool
  <1>7. ASSUME NEW c \in Consumers, DrainedToWiden(c) PROVE PoolInv'
    BY <1>7, MergePool DEF DrainedToWiden
  <1>8. FlusherThrows \/ UNCHANGED vars => PoolInv'
    BY <1>1 DEF FlusherThrows, vars, ingestorVars
  <1> QED BY <1>3, <1>5, <1>6, <1>7, <1>8, NextCases, EvolvePool, SubmitPool, WorkerPool, DrainPool

LEMMA CoreInit == Init => CoreInv
  <1> SUFFICES ASSUME Init PROVE CoreInv
    OBVIOUS
  <1>1. \A t \in Consumers \union {Main} : pc[t] = "ready"
    BY DEF Init
  <1>2. NoneLeft /\ ~pool
    BY DEF Init, NoPool, NoneLeft
  <1>3. \A w \in Workers : worker[w] = "exit" /\ parsed[w] = None /\ pending[w] = <<>>
    BY DEF Init, NoPool, NoColumns
  <1>4. PoolInv
    BY <1>1, <1>2, <1>3 DEF PoolInv, NoneLeft
  <1>5. LockInv
    BY <1>1, PoolAssumption DEF Init, LockInv, PoolAssumption
  <1> QED BY <1>4, <1>5, TypeInit DEF CoreInv

\* The variables have their types: queue is bounded, counters do not underflow and
\* no thread is at a place the code does not have.
THEOREM PoolTypeCorrect == Spec => []TypeOK
  <1>1. CoreInv /\ [Next]_vars => CoreInv'
    BY TypeStep, LockStep, PoolStep DEF CoreInv
  <1>2. CoreInv => TypeOK
    BY DEF CoreInv, TypeInv
  <1> QED BY CoreInit, <1>1, <1>2, PTL DEF Spec

--------------------------------------------------------------------------------
(* Columns line up *)

LEMMA Joining ==
    ASSUME NEW S, NEW s \in Seq(S), NEW t \in Seq(S)
    PROVE  /\ Len(s) \in Nat /\ Len(t) \in Nat
           /\ s \o t \in Seq(S) /\ Len(s \o t) = Len(s) + Len(t)
           /\ \A i \in 1 .. Len(s) : (s \o t)[i] = s[i]
           /\ \A i \in 1 .. Len(t) : (s \o t)[Len(s) + i] = t[i]
  <1>1. \A i \in 1 .. Len(t) : /\ Len(s) + i \in 1 .. Len(s) + Len(t)
                               /\ ~(Len(s) + i <= Len(s)) /\ (Len(s) + i) - Len(s) = i
    OBVIOUS
  <1> QED BY <1>1

LEMMA Resting ==
    ASSUME NEW S, NEW s \in Seq(S), NEW t \in Seq(S), Len(s) <= Len(t)
    PROVE  /\ Beyond(t, s) \in Seq(S) /\ Len(Beyond(t, s)) = Len(t) - Len(s)
           /\ \A i \in 1 .. Len(t) - Len(s) : Beyond(t, s)[i] = t[i + Len(s)]
  <1>1. \A i \in Len(s) + 1 .. Len(t) : t[i] \in S
    OBVIOUS
  <1>2. \A i \in 1 .. Len(t) - Len(s) : /\ i \in 1 .. Len(t) - (Len(s) + 1) + 1
                                        /\ (Len(s) + 1) + i - 1 = i + Len(s)
    OBVIOUS
  <1>3. Len(Beyond(t, s)) = Len(t) - Len(s) /\ Beyond(t, s) \in Seq(S)
    BY <1>1 DEF Beyond
  <1>4. \A i \in 1 .. Len(t) - Len(s) : Beyond(t, s)[i] = t[i + Len(s)]
    BY <1>2 DEF Beyond
  <1> QED BY <1>3, <1>4

LEMMA SameSequence ==
    ASSUME NEW S, NEW s \in Seq(S), NEW t \in Seq(S), Len(s) = Len(t),
           \A i \in 1 .. Len(t) : s[i] = t[i]
    PROVE  s = t
  OBVIOUS

LEMMA PrefixFacts ==
    ASSUME NEW S, NEW s \in Seq(S), NEW t \in Seq(S)
    PROVE  /\ IsPrefixOf(t, t)
           /\ s \o <<>> = s
           /\ IsPrefixOf(s, t) => s \o Beyond(t, s) = t
           /\ \A u \in Seq(S) : IsPrefixOf(s, t) => IsPrefixOf(s, t \o u)
           /\ \A u \in Seq(S) : IsPrefixOf(s \o u, t) => IsPrefixOf(s, t)
  <1>1. IsPrefixOf(t, t) /\ s \o <<>> = s
    BY DEF IsPrefixOf
  <1>2. ASSUME IsPrefixOf(s, t) PROVE s \o Beyond(t, s) = t
    <2> DEFINE r == Beyond(t, s)
    <2>1. Len(s) \in Nat /\ Len(t) \in Nat /\ Len(s) <= Len(t) /\ \A i \in 1 .. Len(s) : s[i] = t[i]
      BY <1>2 DEF IsPrefixOf
    <2>2. /\ r \in Seq(S) /\ Len(r) = Len(t) - Len(s)
          /\ \A i \in 1 .. Len(t) - Len(s) : r[i] = t[i + Len(s)]
      BY <2>1, Resting
    <2> HIDE DEF r
    <2>3. /\ s \o r \in Seq(S) /\ Len(s \o r) = Len(s) + Len(r)
          /\ \A i \in 1 .. Len(s) : (s \o r)[i] = s[i]
          /\ \A i \in 1 .. Len(r) : (s \o r)[Len(s) + i] = r[i]
      BY <2>2, Joining
    <2>4. ASSUME NEW i \in 1 .. Len(t) PROVE (s \o r)[i] = t[i]
      <3>1. CASE i <= Len(s)
        BY <2>1, <2>3, <3>1
      <3>2. CASE ~(i <= Len(s))
        <4>1. i - Len(s) \in 1 .. Len(t) - Len(s) /\ (i - Len(s)) + Len(s) = i /\ Len(s) + (i - Len(s)) = i
          BY <2>1, <3>2
        <4>2. (s \o r)[Len(s) + (i - Len(s))] = r[i - Len(s)] /\ r[i - Len(s)] = t[(i - Len(s)) + Len(s)]
          BY <2>2, <2>3, <4>1
        <4> QED BY <4>1, <4>2
      <3> QED BY <3>1, <3>2
    <2>5. Len(s \o r) = Len(t)
      BY <2>1, <2>2, <2>3
    <2>6. s \o r = t
      BY <2>3, <2>4, <2>5, SameSequence
    <2> QED BY <2>6 DEF r
  <1>3. ASSUME NEW u \in Seq(S), IsPrefixOf(s, t) PROVE IsPrefixOf(s, t \o u)
    <2>1. /\ Len(t \o u) = Len(t) + Len(u) /\ Len(t) \in Nat /\ Len(u) \in Nat
          /\ \A i \in 1 .. Len(t) : (t \o u)[i] = t[i]
      BY Joining
    <2>2. Len(s) \in Nat /\ Len(s) <= Len(t) /\ \A i \in 1 .. Len(s) : s[i] = t[i]
      BY <1>3 DEF IsPrefixOf
    <2>3. Len(s) <= Len(t \o u) /\ \A i \in 1 .. Len(s) : s[i] = (t \o u)[i]
      BY <2>1, <2>2
    <2> QED BY <2>3 DEF IsPrefixOf
  <1>4. ASSUME NEW u \in Seq(S), IsPrefixOf(s \o u, t) PROVE IsPrefixOf(s, t)
    <2>1. /\ Len(s \o u) = Len(s) + Len(u) /\ Len(s) \in Nat /\ Len(u) \in Nat /\ Len(t) \in Nat
          /\ \A i \in 1 .. Len(s) : (s \o u)[i] = s[i]
      BY Joining
    <2>2. Len(s \o u) <= Len(t) /\ \A i \in 1 .. Len(s \o u) : (s \o u)[i] = t[i]
      BY <1>4 DEF IsPrefixOf
    <2>3. Len(s) <= Len(t) /\ \A i \in 1 .. Len(s) : s[i] = t[i]
      BY <2>1, <2>2
    <2> QED BY <2>3 DEF IsPrefixOf
  <1> QED BY <1>1, <1>2, <1>3, <1>4

\* The types of what the workers have.
LEMMA WorkerTypes ==
    ASSUME CoreInv, NEW w \in Workers
    PROVE  /\ types \in Seq(Columns) /\ table \in Seq(Columns) /\ IsLayout(table)
           /\ local_types[w] \in Seq(Columns) /\ pending[w] \in Seq(Columns)
           /\ Extended(w) \in Seq(Columns)
           /\ layout_cache[w] \in [shape : Seq(Columns), layout : Seq(Columns)]
           /\ worker[w] = "append" => parsed[w] \in Batches
           /\ worker[w] # "append" => pending[w] = <<>> /\ Extended(w) = local_types[w]
  <1>1. /\ types \in Seq(Columns) /\ table \in Seq(Columns) /\ IsLayout(table)
        /\ local_types[w] \in Seq(Columns) /\ pending[w] \in Seq(Columns)
        /\ layout_cache[w] \in [shape : Seq(Columns), layout : Seq(Columns)]
    BY DEF CoreInv, TypeInv, TypeOK, IsLayout
  <1>2. worker[w] = "append" => parsed[w] \in Batches
    BY DEF CoreInv, TypeInv, TypeOK, PoolInv
  <1>3. worker[w] # "append" => pending[w] = <<>>
    BY DEF CoreInv, PoolInv
  <1>4. Extended(w) \in Seq(Columns)
    BY <1>1, Joining DEF Extended
  <1>5. local_types[w] \o <<>> = local_types[w]
    BY <1>1, PrefixFacts
  <1> QED BY <1>1, <1>2, <1>3, <1>4, <1>5 DEF Extended

\* The layout a batch is appended with is its collection's, and becomes it.
LEMMA LayoutIsExtended ==
    ASSUME CoreInv, LayoutInv, NEW w \in Workers, worker[w] = "append"
    PROVE  Layout(w) = Extended(w)
  <1>1. CASE pending[w] = NoColumns /\ layout_cache[w].shape = Content[parsed[w]]
    <2>1. layout_cache[w].layout = local_types[w]
      BY <1>1 DEF LayoutInv
    <2>2. Extended(w) = local_types[w]
      BY <1>1, WorkerTypes, PrefixFacts DEF Extended, NoColumns
    <2> QED BY <1>1, <2>1, <2>2 DEF Layout
  <1>2. CASE ~(pending[w] = NoColumns /\ layout_cache[w].shape = Content[parsed[w]])
    BY <1>2 DEF Layout, Extended
  <1> QED BY <1>1, <1>2

\* What is merged has the table's layout.
LEMMA MergedLayout ==
    ASSUME CoreInv, LayoutInv, pool, Joined, NEW w \in Workers
    PROVE  local_types[w] \o Beyond(types, local_types[w]) = table
  <1>1. Extended(w) = local_types[w]
    BY WorkerTypes DEF Joined
  <1>2. IsPrefixOf(local_types[w], types) /\ types = table
    BY <1>1 DEF LayoutInv
  <1> QED BY <1>2, WorkerTypes, PrefixFacts

LEMMA FitsItself ==
    ASSUME NEW b \in Batches
    PROVE  Fits(Content[b], b)
  <1>1. IsLayout(Content[b]) /\ \A i \in DOMAIN Content[b] : Content[b][i].width \in Nat
    BY GivenLayouts, LayoutPlaces DEF IsLayout
  <1>2. \A i \in DOMAIN Content[b] : Content[b][i].width >= Content[b][i].width
    BY <1>1
  <1> QED BY <1>1, <1>2, FitsAt

\* Nothing but an empty batch fits where there is no table.
LEMMA NothingFits ==
    ASSUME NEW b \in Batches, Fits(NoColumns, b)
    PROVE  Content[b] = NoColumns
  <1>1. Names(NoColumns) = {}
    BY DEF Names, NoColumns
  <1>2. \A i \in DOMAIN Content[b] : FALSE
    BY <1>1 DEF Fits, Names
  <1>3. Content[b] \in Seq(Columns)
    BY GivenLayouts DEF IsLayout
  <1>4. Len(Content[b]) \in Nat /\ \A i \in 1 .. Len(Content[b]) : i \in DOMAIN Content[b]
    BY <1>3
  <1>5. Len(Content[b]) # 0 => 1 \in 1 .. Len(Content[b])
    BY <1>4
  <1> QED BY <1>2, <1>3, <1>4, <1>5, LayoutPlaces

\* The steps that leave the table and the workers alone: a consumer keeps its batch
\* or drops it, and what is queued fits.
LEMMA LayoutMoves ==
    ASSUME LayoutInv, UNCHANGED <<table, created, pool, types, worker, parsed, pending, local_types, layout_cache>>,
           \A d \in Consumers : pc'[d] \in {"submit", "inside", "append", "racing"} =>
               pc[d] \in {"submit", "inside", "append", "racing"} /\ todo'[d] = todo[d],
           \A b \in Range(queue') :
               b \in Range(queue) \/ (Content[b] # NoColumns /\ Fits(table, b)),
           ~misplaced'
    PROVE  LayoutInv'
  <1>1. \A d \in Consumers : pc'[d] \in {"submit", "inside", "append", "racing"} =>
            Fits(table, Current(d)')
    BY DEF LayoutInv, Current
  <1>2. \A b \in Range(queue') : Content[b] # NoColumns /\ Fits(table, b)
    BY DEF LayoutInv
  <1>3. \A w \in Workers : Extended(w)' = Extended(w)
    BY DEF Extended
  <1> QED BY <1>1, <1>2, <1>3 DEF LayoutInv

LEMMA ConsumerLayout ==
    ASSUME CoreInv, LayoutInv, NEW c \in Consumers,
           ReadErrors(c) \/ WriteErrors(c) \/ Abandon(c) \/ IngestNoColumns(c) \/ EvolveThrows(c)
             \/ LookAtPool(c) \/ Dangle(c) \/ AppendNative(c) \/ AppendUnlocked(c) \/ DrainThrows(c)
    PROVE  LayoutInv'
  <1>0. TypeOK
    BY DEF CoreInv, TypeInv
  <1>1. UNCHANGED <<table, created, poolVars>>
    BY DEF ReadErrors, WriteErrors, Abandon, IngestNoColumns, EvolveThrows, LookAtPool, Dangle,
           AppendNative, AppendUnlocked, DrainThrows, counters
  <1>2. \/ UNCHANGED todo /\ (Goto(c, "count") \/ Goto(c, "lock"))
        \/ pc[c] = "submit" /\ UNCHANGED todo /\ (Goto(c, "inside") \/ Goto(c, "racing"))
        \/ Goto(c, "hung") /\ UNCHANGED todo
        \/ Done(c) \/ Throw(c)
        \/ UNCHANGED <<pc, todo>>
        \/ UNCHANGED pc /\ pc[c] = "ready" /\ todo' = [todo EXCEPT ![c] = <<>>]
    BY DEF ReadErrors, WriteErrors, Abandon, IngestNoColumns, EvolveThrows, LookAtPool, Dangle,
           AppendNative, AppendUnlocked, DrainThrows, At
  <1>3. /\ \A d \in Consumers \ {c} : pc'[d] = pc[d] /\ todo'[d] = todo[d]
        /\ pc'[c] \in {"submit", "inside", "append", "racing"} =>
               pc[c] \in {"submit", "inside", "append", "racing"} /\ todo'[c] = todo[c]
    <2>1. CASE UNCHANGED todo /\ (Goto(c, "count") \/ Goto(c, "lock") \/ Goto(c, "hung"))
      BY <1>0, <2>1, Moves
    <2>2. CASE pc[c] = "submit" /\ UNCHANGED todo /\ (Goto(c, "inside") \/ Goto(c, "racing"))
      BY <1>0, <2>2, Moves
    <2>3. CASE Done(c) \/ Throw(c)
      BY <1>0, <2>3, Leaves
    <2>4. CASE UNCHANGED <<pc, todo>>
      BY <2>4
    <2>5. CASE UNCHANGED pc /\ pc[c] = "ready" /\ todo' = [todo EXCEPT ![c] = <<>>]
      BY <1>0, <2>5 DEF TypeOK
    <2> QED BY <1>2, <2>1, <2>2, <2>3, <2>4, <2>5
  <1>4. ~misplaced'
    <2>1. pc[c] \in {"append", "racing"} => Fits(table, Current(c))
      BY DEF LayoutInv
    <2> QED BY <2>1 DEF LayoutInv, ReadErrors, WriteErrors, Abandon, IngestNoColumns, EvolveThrows, LookAtPool,
                        Dangle, AppendNative, AppendUnlocked, DrainThrows, At, historyVars
  <1> QED BY <1>1, <1>3, <1>4, LayoutMoves DEF poolVars, queueVars, workerVars

LEMMA SubmitLayout ==
    ASSUME CoreInv, LayoutInv, NEW c \in Consumers, Submit(c)
    PROVE  LayoutInv'
  <1>0. TypeOK
    BY DEF CoreInv, TypeInv
  <1>1. /\ pc[c] = "inside"
        /\ UNCHANGED <<table, counters, inserted, pool, types, stopped, error, workerVars, outcome, historyVars>>
        /\ Done(c) \/ UNCHANGED <<pc, todo>>
        /\ queue' \in {queue, Append(queue, Current(c))}
    BY DEF Submit, At
  <1>2. /\ \A d \in Consumers \ {c} : pc'[d] = pc[d] /\ todo'[d] = todo[d]
        /\ pc'[c] \in {"submit", "inside", "append", "racing"} => todo'[c] = todo[c]
    BY <1>0, <1>1, Leaves
  <1>3. /\ queue \in Seq(Batches) /\ Current(c) \in Batches
        /\ Content[Current(c)] # NoColumns /\ Fits(table, Current(c))
    BY <1>0, <1>1, InHand DEF TypeOK, LayoutInv
  <1>4. \A b \in Range(queue') :
            b \in Range(queue) \/ (Content[b] # NoColumns /\ Fits(table, b))
    <2>1. Range(Append(queue, Current(c))) = Range(queue) \union {Current(c)}
      BY <1>3, QueueHolds
    <2>2. Range(queue') \subseteq Range(queue) \union {Current(c)}
      BY <1>1, <2>1
    <2> QED BY <1>3, <2>2
  <1> QED BY <1>1, <1>2, <1>4, LayoutMoves DEF workerVars, counters, historyVars, LayoutInv

LEMMA WorkerLayout ==
    ASSUME CoreInv, LayoutInv, NEW w \in Workers, Take(w) \/ AppendBatch(w) \/ WorkerThrows(w)
    PROVE  LayoutInv'
  <1>0. TypeOK /\ pool
    BY DEF CoreInv, TypeInv, Take, AppendBatch, WorkerThrows, Works, PoolInv, NoneLeft
  <1>1. /\ UNCHANGED <<table, created, pool, types, pc, todo>>
        /\ types = table /\ table # NoColumns
    BY <1>0 DEF Take, AppendBatch, WorkerThrows, ingestorVars, counters, LayoutInv
  <1>2. \A d \in Consumers : Current(d)' = Current(d)
    BY <1>1 DEF Current
  <1>3. \A b \in Range(queue') : b \in Range(queue)
    <2>1. queue' = queue \/ (queue # <<>> /\ queue' = Tail(queue))
      BY DEF Take, AppendBatch, WorkerThrows, queueVars
    <2> QED BY <1>0, <2>1, QueueHolds DEF TypeOK
  <1>4. \A v \in Workers \ {w} : /\ local_types'[v] = local_types[v] /\ pending'[v] = pending[v]
                                 /\ worker'[v] = worker[v] /\ parsed'[v] = parsed[v]
                                 /\ layout_cache'[v] = layout_cache[v] /\ Extended(v)' = Extended(v)
    BY <1>0 DEF Take, AppendBatch, WorkerThrows, TypeOK, Extended
  <1>5. /\ ~misplaced'
        /\ IsPrefixOf(Extended(w)', table)
        /\ worker'[w] = "append" => /\ Content[parsed'[w]] # NoColumns
                                    /\ Fits(Extended(w)', parsed'[w])
        /\ layout_cache'[w].shape # NoColumns => layout_cache'[w].layout = local_types'[w]
    <2>1. CASE UNCHANGED <<parsed, pending, local_types, layout_cache, misplaced>> /\ worker[w] = "pop"
               /\ worker' \in {worker, [worker EXCEPT ![w] = "exit"]}
      <3>1. worker'[w] # "append" /\ Extended(w)' = Extended(w)
        BY <1>0, <2>1 DEF TypeOK, Extended
      <3> QED BY <1>0, <2>1, <3>1 DEF LayoutInv
    <2>2. CASE /\ queue # <<>> /\ worker[w] = "pop"
               /\ parsed' = [parsed EXCEPT ![w] = Head(queue)]
               /\ pending' = [pending EXCEPT ![w] = Beyond(types, local_types[w])]
               /\ UNCHANGED <<local_types, layout_cache, misplaced>>
      <3>1. Extended(w) = local_types[w] /\ IsPrefixOf(local_types[w], table)
        BY <1>0, <2>2, WorkerTypes DEF LayoutInv
      <3>2. Extended(w)' = table
        <4>1. local_types'[w] = local_types[w] /\ pending'[w] = Beyond(table, local_types[w])
          BY <1>0, <1>1, <2>2 DEF TypeOK
        <4>2. local_types[w] \o Beyond(table, local_types[w]) = table
          BY <3>1, WorkerTypes, PrefixFacts
        <4>3. Extended(w)' = local_types'[w] \o pending'[w]
          BY DEF Extended
        <4> QED BY <4>1, <4>2, <4>3
      <3>3. parsed'[w] = Head(queue) /\ Head(queue) \in Range(queue)
        BY <1>0, <2>2, QueueHolds DEF TypeOK
      <3>4. IsPrefixOf(table, table)
        BY WorkerTypes, PrefixFacts
      <3> QED BY <2>2, <3>2, <3>3, <3>4 DEF LayoutInv
    <2>3. CASE AppendBatch(w)
      <3>1. /\ worker[w] = "append"
            /\ local_types'[w] = Extended(w) /\ pending'[w] = <<>>
            /\ layout_cache'[w] = [shape |-> Content[parsed[w]], layout |-> Layout(w)]
            /\ worker'[w] = "pop"
            /\ misplaced' = (misplaced \/ Layout(w) # Extended(w) \/ ~Fits(Extended(w), parsed[w]))
        BY <1>0, <2>3 DEF AppendBatch, Works, TypeOK, Extended, NoColumns
      <3>2. Layout(w) = Extended(w) /\ Fits(Extended(w), parsed[w]) /\ ~misplaced
        BY <3>1, LayoutIsExtended DEF LayoutInv
      <3>3. Extended(w)' = Extended(w)
        <4>1. Extended(w) \o <<>> = Extended(w)
          BY WorkerTypes, PrefixFacts
        <4>2. Extended(w)' = local_types'[w] \o pending'[w]
          BY DEF Extended
        <4> QED BY <3>1, <4>1, <4>2
      <3>4. IsPrefixOf(Extended(w), table)
        BY <1>0 DEF LayoutInv
      <3>5. ~misplaced'
        BY <3>1, <3>2
      <3>6. layout_cache'[w].layout = local_types'[w] /\ worker'[w] # "append"
        BY <3>1, <3>2
      <3> QED BY <3>3, <3>4, <3>5, <3>6
    <2>4. CASE WorkerThrows(w)
      <3>1. /\ pending'[w] = <<>> /\ worker'[w] = "exit"
            /\ UNCHANGED <<local_types, layout_cache, misplaced>>
        BY <1>0, <2>4 DEF WorkerThrows, TypeOK, historyVars, NoColumns
      <3>2. Extended(w)' = local_types[w]
        <4>1. local_types[w] \o <<>> = local_types[w]
          BY WorkerTypes, PrefixFacts
        <4>2. Extended(w)' = local_types'[w] \o pending'[w]
          BY DEF Extended
        <4> QED BY <3>1, <4>1, <4>2
      <3>3. IsPrefixOf(local_types[w], table)
        <4>1. IsPrefixOf(local_types[w] \o pending[w], table)
          BY <1>0 DEF LayoutInv, Extended
        <4> QED BY <4>1, WorkerTypes, PrefixFacts
      <3> QED BY <3>1, <3>2, <3>3 DEF LayoutInv
    <2> QED BY <2>1, <2>2, <2>3, <2>4 DEF Take, Works, historyVars
  <1> QED BY <1>0, <1>1, <1>2, <1>3, <1>4, <1>5 DEF LayoutInv

\* A new pool's workers have the table's layout.
LEMMA NewPoolLayout ==
    ASSUME CoreInv, LayoutInv, ~pool, pool',
           NEW layout, IsLayout(layout), layout # NoColumns, table' = layout,
           types' = layout, local_types' = [w \in Workers |-> layout],
           worker' = [w \in Workers |-> "pop"],
           UNCHANGED <<queueVars, parsed, pending, layout_cache, misplaced>>,
           \A d \in Consumers : pc'[d] \in {"submit", "inside", "append", "racing"} =>
               Fits(layout, Current(d)')
    PROVE  LayoutInv'
  <1>1. queue' = <<>> /\ Range(queue') = {}
    BY EmptyQueue DEF CoreInv, PoolInv, NoneLeft, queueVars
  <1>2. ASSUME NEW w \in Workers
        PROVE  /\ Extended(w)' = layout /\ worker'[w] = "pop"
               /\ layout_cache'[w].shape = NoColumns
    <2>1. local_types'[w] = layout /\ pending'[w] = <<>> /\ layout_cache'[w] = NoLayout
      BY DEF CoreInv, PoolInv, NoneLeft
    <2>2. layout \o <<>> = layout
      BY PrefixFacts DEF IsLayout
    <2>3. Extended(w)' = local_types'[w] \o pending'[w]
      BY DEF Extended
    <2> QED BY <2>1, <2>2, <2>3 DEF NoLayout
  <1>3. IsPrefixOf(layout, layout)
    BY PrefixFacts DEF IsLayout
  <1> QED BY <1>1, <1>2, <1>3 DEF LayoutInv

LEMMA NoPoolLayout ==
    ASSUME CoreInv, LayoutInv, ~pool, ~pool',
           created' => table' # NoColumns,
           UNCHANGED <<poolVars, misplaced>>,
           \A d \in Consumers : pc'[d] \in {"submit", "inside", "append", "racing"} =>
               Fits(table', Current(d)')
    PROVE  LayoutInv'
  <1>1. queue' = <<>> /\ Range(queue') = {}
    BY EmptyQueue DEF CoreInv, PoolInv, NoneLeft, poolVars, queueVars
  <1>2. ASSUME NEW w \in Workers
        PROVE  worker'[w] = "exit" /\ layout_cache'[w].shape = NoColumns
    BY DEF CoreInv, PoolInv, NoneLeft, NoLayout, poolVars, workerVars
  <1> QED BY <1>1, <1>2 DEF LayoutInv

LEMMA CreateLayout ==
    ASSUME CoreInv, LayoutInv, NEW c \in Consumers, Create(c)
    PROVE  LayoutInv'
  <1> DEFINE b == Current(c)
  <1>0. TypeOK
    BY DEF CoreInv, TypeInv
  <1>1. /\ pc[c] = "lock" /\ table = NoColumns /\ Content[b] # NoColumns
        /\ table' = Content[b] /\ EnsurePool(Content[b], b)
        /\ UNCHANGED <<todo, misplaced>>
        /\ Goto(c, "submit") \/ Goto(c, "append")
    BY DEF Create, Locks, At, historyVars
  <1>2. b \in Batches /\ IsLayout(Content[b]) /\ ~pool
    BY <1>1, InHand DEF LayoutInv
  <1>3. \A d \in Consumers \ {c} : pc'[d] \notin {"submit", "inside", "append", "racing"}
    <2> SUFFICES ASSUME NEW d \in Consumers \ {c}, pc[d] \in {"submit", "inside", "append", "racing"}
                 PROVE  FALSE
      BY <1>0, <1>1, Moves
    <2>1. Fits(NoColumns, Current(d)) /\ Current(d) \in Batches /\ Content[Current(d)] # NoColumns
      BY <1>1, InHand DEF LayoutInv
    <2> QED BY <2>1, NothingFits
  <1>4. \A d \in Consumers : pc'[d] \in {"submit", "inside", "append", "racing"} =>
            Fits(Content[b], Current(d)')
    <2>1. Fits(Content[b], b) /\ Current(c)' = b
      BY <1>1, <1>2, FitsItself DEF Current
    <2> QED BY <1>3, <2>1
  <1>5. CASE b \notin Large
    BY <1>1, <1>2, <1>4, <1>5, NoPoolLayout DEF EnsurePool, poolVars
  <1>6. CASE b \in Large
    BY <1>1, <1>2, <1>4, <1>6, NewPoolLayout DEF EnsurePool
  <1> QED BY <1>5, <1>6

LEMMA EvolveLayout ==
    ASSUME CoreInv, LayoutInv, NEW c \in Consumers, Evolve(c)
    PROVE  LayoutInv'
  <1> DEFINE b == Current(c)
             e == Evolved(table, b)
             adds == Adds(table, b)
  <1>0. TypeOK
    BY DEF CoreInv, TypeInv
  <1>1. /\ pc[c] \in {"lock", "evolve"}
        /\ table' = e /\ UNCHANGED <<todo, created, misplaced>>
        /\ IF pool THEN PublishColumns(adds) ELSE EnsurePool(e, b)
        /\ Goto(c, "submit") \/ Goto(c, "append")
        /\ pool => ~Widens(table, b)
    BY DEF Evolve, Locks, At, counters, historyVars, CoreInv, PoolInv
  <1>2. b \in Batches /\ IsLayout(table) /\ Current(c)' = b
    BY <1>0, <1>1, InHand DEF Current, CoreInv, TypeInv, IsLayout, TypeOK
  <1>3. /\ IsLayout(e) /\ Fits(e, b)
        /\ \A d \in Batches : Fits(table, d) => Fits(e, d)
        /\ table # NoColumns => e # NoColumns
        /\ pool => e = table \o adds
    BY <1>1, <1>2, EvolvedFacts
  <1>4. e # NoColumns
    <2>1. Content[b] # NoColumns
      BY <1>1, InHand DEF Evolve, Locks, At
    <2> QED BY <1>2, <1>3, <2>1, NothingFits
  <1>5. ASSUME NEW d \in Consumers, pc'[d] \in {"submit", "inside", "append", "racing"}
        PROVE  Fits(e, Current(d)')
    <2>1. CASE d = c
      BY <1>2, <1>3, <2>1
    <2>2. CASE d # c
      <3>1. pc[d] = pc'[d]
        BY <1>0, <1>1, <2>2, Moves
      <3>2. Current(d)' = Current(d) /\ Current(d) \in Batches /\ Fits(table, Current(d))
        BY <1>1, <1>5, <3>1, InHand DEF Current, LayoutInv
      <3> QED BY <1>3, <3>2
    <2> QED BY <2>1, <2>2
  <1>6. CASE ~pool /\ b \notin Large
    BY <1>1, <1>4, <1>5, <1>6, NoPoolLayout DEF EnsurePool, poolVars
  <1>7. CASE ~pool /\ b \in Large
    BY <1>1, <1>3, <1>4, <1>5, <1>7, NewPoolLayout DEF EnsurePool
  <1>8. CASE pool
    <2>1. /\ types' = types \o adds /\ pool'
          /\ layout_cache' = IF adds = NoColumns THEN layout_cache
                             ELSE [w \in Workers |-> [layout_cache[w] EXCEPT !.shape = NoColumns]]
          /\ UNCHANGED <<queue, worker, parsed, pending, local_types>>
      BY <1>1, <1>8 DEF PublishColumns, queueVars
    <2>2. types' = table' /\ adds \in Seq(Columns)
      BY <1>1, <1>2, <1>3, <1>8, <2>1, AddsFacts DEF LayoutInv, IsLayout
    <2>3. \A d \in Range(queue') : Content[d] # NoColumns /\ Fits(e, d)
      <3>1. \A d \in Range(queue) : d \in Batches
        BY <1>0 DEF TypeOK, Range
      <3> QED BY <1>3, <2>1, <3>1 DEF LayoutInv
    <2>4. ASSUME NEW w \in Workers
          PROVE  /\ IsPrefixOf(Extended(w)', e)
                 /\ worker'[w] = "append" => /\ Content[parsed'[w]] # NoColumns
                                             /\ Fits(Extended(w)', parsed'[w])
                 /\ layout_cache'[w].shape # NoColumns => layout_cache'[w].layout = local_types'[w]
      <3>1. Extended(w)' = Extended(w) /\ IsPrefixOf(Extended(w), table)
        BY <1>8, <2>1 DEF Extended, LayoutInv
      <3>2. IsPrefixOf(Extended(w), e)
        <4>1. Extended(w) \in Seq(Columns) /\ table \in Seq(Columns)
          BY WorkerTypes
        <4> HIDE DEF adds, e
        <4>2. IsPrefixOf(Extended(w), table \o adds)
          BY <2>2, <3>1, <4>1, PrefixFacts
        <4> QED BY <1>3, <1>8, <4>2
      <3>3. layout_cache'[w].shape # NoColumns => layout_cache'[w] = layout_cache[w]
        BY <2>1, WorkerTypes
      <3> QED BY <2>1, <3>1, <3>2, <3>3 DEF LayoutInv
    <2> QED BY <1>1, <1>4, <1>5, <2>1, <2>2, <2>3, <2>4 DEF LayoutInv
  <1> QED BY <1>6, <1>7, <1>8

LEMMA DrainLayout ==
    ASSUME CoreInv, LayoutInv, Finish \/ \E c \in Consumers : DrainToWiden(c)
    PROVE  LayoutInv'
  <1>1. /\ UNCHANGED <<table, created, todo, misplaced>> /\ StopPool
        /\ \E t \in Consumers \union {Main} : Goto(t, "drain")
    BY DEF Finish, DrainToWiden, counters, historyVars
  <1>2. \A d \in Consumers : pc'[d] \in {"submit", "inside", "append", "racing"} => pc[d] = pc'[d]
    BY <1>1 DEF CoreInv, TypeInv, TypeOK, Goto
  <1> QED BY <1>1, <1>2, LayoutMoves DEF StopPool, workerVars, LayoutInv

LEMMA MergeLayout ==
    ASSUME CoreInv, LayoutInv, Merge, UNCHANGED <<table, created, todo>>, pool,
           \A d \in Consumers : pc'[d] \in {"submit", "inside", "append", "racing"} => pc[d] = pc'[d]
    PROVE  LayoutInv'
  <1>1. /\ Joined /\ pool' = FALSE /\ queue' = <<>> /\ worker' = worker
        /\ layout_cache' = [w \in Workers |-> NoLayout]
        /\ misplaced' = (misplaced \/ \E w \in Workers :
               collection[w] # {} /\ local_types[w] \o Beyond(types, local_types[w]) # table)
    BY DEF Merge, PoolGone
  <1>2. ~misplaced'
    BY <1>1, MergedLayout DEF LayoutInv
  <1>3. \A d \in Consumers : pc'[d] \in {"submit", "inside", "append", "racing"} =>
            Fits(table, Current(d)')
    BY DEF LayoutInv, Current
  <1> QED BY <1>1, <1>2, <1>3, EmptyQueue DEF LayoutInv, Joined, NoLayout

LEMMA LayoutStep == CoreInv /\ LayoutInv /\ [Next]_vars => LayoutInv'
  <1> SUFFICES ASSUME CoreInv, LayoutInv, [Next]_vars PROVE LayoutInv'
    OBVIOUS
  <1>0. TypeOK
    BY DEF CoreInv, TypeInv
  <1>1. ASSUME UNCHANGED <<table, created, todo, pc, poolVars, misplaced>> PROVE LayoutInv'
    BY <1>1, LayoutMoves DEF poolVars, queueVars, workerVars, LayoutInv
  <1>2. ASSUME NEW c \in Consumers, DrainedToWiden(c) PROVE LayoutInv'
    <2>1. /\ pc[c] = "drain" /\ Merge /\ GotoWithoutPool(c, "evolve") /\ UNCHANGED <<table, created, todo>>
      BY <1>2 DEF DrainedToWiden, At
    <2>2. pool
      BY <2>1 DEF CoreInv, PoolInv
    <2>3. \A d \in Consumers : pc'[d] \in {"submit", "inside", "append", "racing"} => pc[d] = pc'[d]
      BY <1>0, <2>1 DEF GotoWithoutPool, TypeOK
    <2> QED BY <2>1, <2>2, <2>3, MergeLayout
  <1>3. ASSUME End PROVE LayoutInv'
    <2>1. UNCHANGED <<table, created, todo>>
      BY <1>3 DEF End
    <2>2. CASE pc[Main] = "drain" /\ Merge /\ GotoWithoutPool(Main, "ready")
      <3>1. pool
        BY <2>2 DEF CoreInv, PoolInv
      <3>2. \A d \in Consumers : pc'[d] \in {"submit", "inside", "append", "racing"} => pc[d] = pc'[d]
        BY <1>0, <2>2 DEF GotoWithoutPool, TypeOK
      <3> QED BY <2>1, <2>2, <3>1, <3>2, MergeLayout
    <2> QED BY <1>1, <1>3, <2>1, <2>2 DEF End, At
  <1>4. FlusherThrows \/ UNCHANGED vars => LayoutInv'
    BY <1>1 DEF FlusherThrows, vars, ingestorVars, counters, historyVars
  <1> QED BY <1>2, <1>3, <1>4, NextCases, ConsumerLayout, CreateLayout, EvolveLayout, SubmitLayout,
             WorkerLayout, DrainLayout

LEMMA LayoutInit == Init => LayoutInv
  <1> SUFFICES ASSUME Init PROVE LayoutInv
    OBVIOUS
  <1>1. \A t \in Consumers \union {Main} : pc[t] = "ready"
    BY DEF Init
  <1>2. Range(queue) = {} /\ ~pool /\ ~created /\ ~misplaced
    BY EmptyQueue DEF Init, NoPool
  <1>3. \A w \in Workers : worker[w] = "exit" /\ layout_cache[w].shape = NoColumns
    BY DEF Init, NoPool, NoLayout
  <1> QED BY <1>1, <1>2, <1>3 DEF LayoutInv

\* Every value goes to the column it belongs to: a worker's collection always has a
\* prefix of the published columns that fits its batch, a cached layout is the
\* collection's, and what a drain merges has the table's layout.
THEOREM PoolColumnsLineUp == Spec => []ColumnsLineUp
  <1>1. CoreInv /\ LayoutInv /\ [Next]_vars => CoreInv' /\ LayoutInv'
    BY TypeStep, LockStep, PoolStep, LayoutStep DEF CoreInv
  <1>2. LayoutInv => ColumnsLineUp
    BY DEF LayoutInv, ColumnsLineUp
  <1> QED BY CoreInit, LayoutInit, <1>1, <1>2, PTL DEF Spec

--------------------------------------------------------------------------------
(* A batch is at one place *)

\* What a step does to the batches: nothing, or it moves some from one place to
\* another, or some are at no place any more.
Stays == UNCHANGED <<todo, queue, parsed, collection, inserted>>
Drops(c) ==
    /\ todo[c] # <<>> /\ todo' = [todo EXCEPT ![c] = Tail(@)]
    /\ UNCHANGED <<queue, parsed, collection, inserted>>
GivesUp(c) ==
    /\ todo' = [todo EXCEPT ![c] = <<>>]
    /\ UNCHANGED <<queue, parsed, collection, inserted>>
Submits(c) ==
    /\ todo[c] # <<>> /\ todo' = [todo EXCEPT ![c] = Tail(@)]
    /\ queue' = Append(queue, Current(c))
    /\ UNCHANGED <<parsed, collection, inserted>>
Inserts(c) ==
    /\ todo[c] # <<>> /\ todo' = [todo EXCEPT ![c] = Tail(@)]
    /\ inserted' = inserted \union {Current(c)}
    /\ UNCHANGED <<queue, parsed, collection>>
Takes(w) ==
    /\ parsed[w] = None /\ queue # <<>>
    /\ parsed' = [parsed EXCEPT ![w] = Head(queue)]
    /\ queue' = Tail(queue)
    /\ UNCHANGED <<todo, collection, inserted>>
Loses(w) ==
    /\ parsed' = [parsed EXCEPT ![w] = None]
    /\ UNCHANGED <<todo, queue, collection, inserted>>
Collects(w) ==
    /\ parsed[w] # None
    /\ collection' = [collection EXCEPT ![w] = @ \union {parsed[w]}]
    /\ parsed' = [parsed EXCEPT ![w] = None]
    /\ UNCHANGED <<todo, queue, inserted>>
Merges ==
    /\ queue = <<>> /\ queue' = <<>>
    /\ \A w \in Workers : parsed[w] = None
    /\ inserted' = inserted \union Collected
    /\ collection' = [w \in Workers |-> {}]
    /\ UNCHANGED <<todo, parsed>>

LEMMA MergeEffect ==
    ASSUME CoreInv, Merge, pool, UNCHANGED todo
    PROVE  Merges
  <1>1. /\ Joined /\ ~error /\ queue' = <<>> /\ parsed' = parsed
        /\ inserted' = inserted \union Collected
        /\ collection' = [w \in Workers |-> {}]
    BY DEF Merge, PoolGone
  <1>2. \E w \in Workers : TRUE
    BY PoolAssumption DEF PoolAssumption
  <1>3. queue = <<>> /\ \A w \in Workers : parsed[w] = None
    BY <1>1, <1>2 DEF CoreInv, PoolInv, Joined
  <1> QED BY <1>1, <1>3 DEF Merges

LEMMA Effects ==
    ASSUME CoreInv, [Next]_vars
    PROVE  \/ Stays
           \/ \E c \in Consumers :
                  \/ Drops(c) /\ (IngestNoColumns(c) \/ (Submit(c) /\ stopped) \/ Dangle(c))
                  \/ GivesUp(c) /\ pc[c] # "failed" /\ (Abandon(c) \/ Throw(c))
                  \/ Submits(c) /\ Submit(c)
                  \/ Inserts(c) /\ (AppendNative(c) \/ AppendUnlocked(c))
           \/ \E w \in Workers :
                  \/ Takes(w) /\ Take(w)
                  \/ Loses(w) /\ WorkerThrows(w)
                  \/ Collects(w) /\ AppendBatch(w)
           \/ Merges /\ (End \/ \E c \in Consumers : DrainedToWiden(c))
  <1>1. ASSUME NEW c \in Consumers,
               ReadErrors(c) \/ WriteErrors(c) \/ Create(c) \/ Evolve(c) \/ LookAtPool(c) \/ DrainToWiden(c)
        PROVE  Stays
    <2>1. ReadErrors(c) \/ WriteErrors(c) \/ LookAtPool(c) => Stays
      BY DEF ReadErrors, WriteErrors, LookAtPool, Stays, poolVars, queueVars, workerVars
    <2>2. DrainToWiden(c) => Stays
      BY DEF DrainToWiden, Stays, StopPool, workerVars
    <2>3. ASSUME NEW layout, NEW b, EnsurePool(layout, b)
          PROVE  UNCHANGED <<queue, parsed, collection>>
      BY <2>3 DEF EnsurePool, poolVars, queueVars, workerVars
    <2>4. ASSUME NEW adds, PublishColumns(adds)
          PROVE  UNCHANGED <<queue, parsed, collection>>
      BY <2>4 DEF PublishColumns, queueVars
    <2>5. Create(c) \/ Evolve(c) => Stays
      BY <2>3, <2>4 DEF Create, Evolve, Stays
    <2> QED BY <1>1, <2>1, <2>2, <2>5
  <1>2. ASSUME NEW c \in Consumers, IngestNoColumns(c) \/ EvolveThrows(c) \/ DrainThrows(c) \/ Abandon(c)
        PROVE  \/ Drops(c) /\ IngestNoColumns(c)
               \/ GivesUp(c) /\ pc[c] # "failed" /\ (Abandon(c) \/ Throw(c))
    <2>1. UNCHANGED <<queue, parsed, collection, inserted>> /\ pc[c] # "failed"
      BY <1>2 DEF IngestNoColumns, EvolveThrows, DrainThrows, Abandon, Locks, At, poolVars, queueVars, workerVars
    <2>2. pc[c] # "ready" => todo[c] # <<>>
      BY <2>1, InHand
    <2>3. IngestNoColumns(c) /\ Done(c) => Drops(c)
      BY <2>1, <2>2 DEF IngestNoColumns, Locks, At, Done, Drops
    <2>4. Throw(c) => GivesUp(c)
      BY <2>1 DEF Throw, GivesUp
    <2>5. Abandon(c) => GivesUp(c)
      BY <2>1 DEF Abandon, GivesUp
    <2> QED BY <1>2, <2>1, <2>3, <2>4, <2>5 DEF IngestNoColumns, EvolveThrows, DrainThrows
  <1>3. ASSUME NEW c \in Consumers, Submit(c) \/ Dangle(c)
        PROVE  \/ Stays
               \/ Drops(c) /\ ((Submit(c) /\ stopped) \/ Dangle(c))
               \/ Submits(c) /\ Submit(c)
    <2>1. todo[c] # <<>>
      BY <1>3, InHand DEF Submit, Dangle, At
    <2>2. UNCHANGED <<parsed, collection, inserted>>
      BY <1>3 DEF Submit, Dangle, poolVars, workerVars
    <2>3. CASE Submit(c)
      <3>1. \/ UNCHANGED <<queue, todo>>
            \/ stopped /\ Done(c) /\ UNCHANGED queue
            \/ queue' = Append(queue, Current(c)) /\ Done(c)
        BY <2>3 DEF Submit
      <3> QED BY <2>1, <2>2, <2>3, <3>1 DEF Stays, Drops, Submits, Done
    <2>4. CASE Dangle(c)
      <3>1. UNCHANGED queue /\ (Done(c) \/ UNCHANGED todo)
        BY <2>4 DEF Dangle, poolVars, queueVars
      <3> QED BY <2>1, <2>2, <2>4, <3>1 DEF Stays, Drops, Done
    <2> QED BY <1>3, <2>3, <2>4
  <1>4. ASSUME NEW c \in Consumers, AppendNative(c) \/ AppendUnlocked(c)
        PROVE  \/ Stays
               \/ Inserts(c)
               \/ GivesUp(c) /\ pc[c] # "failed" /\ Throw(c)
    <2>1. todo[c] # <<>> /\ pc[c] # "failed"
      BY <1>4, InHand DEF AppendNative, AppendUnlocked, At
    <2>2. UNCHANGED <<queue, parsed, collection>>
      BY <1>4 DEF AppendNative, AppendUnlocked, poolVars, queueVars, workerVars
    <2>3. \/ inserted' = inserted \union {Current(c)} /\ Done(c)
          \/ UNCHANGED inserted /\ Throw(c)
          \/ UNCHANGED <<inserted, todo>>
      BY <1>4 DEF AppendNative, AppendUnlocked
    <2> QED BY <2>1, <2>2, <2>3 DEF Stays, Inserts, GivesUp, Done, Throw
  <1>5. ASSUME NEW w \in Workers, Take(w) \/ AppendBatch(w) \/ WorkerThrows(w)
        PROVE  \/ Stays
               \/ Takes(w) /\ Take(w)
               \/ Loses(w) /\ WorkerThrows(w)
               \/ Collects(w) /\ AppendBatch(w)
    <2>1. UNCHANGED <<todo, inserted>>
      BY <1>5 DEF Take, AppendBatch, WorkerThrows, ingestorVars
    <2>2. /\ worker[w] = "pop" => parsed[w] = None
          /\ worker[w] = "append" => parsed[w] # None
      BY DEF CoreInv, PoolInv, TypeInv, TypeOK
    <2>3. Take(w) => Stays \/ Takes(w)
      BY <2>1, <2>2 DEF Take, Works, Stays, Takes
    <2>4. WorkerThrows(w) => Loses(w)
      BY <2>1 DEF WorkerThrows, Loses
    <2>5. AppendBatch(w) => Collects(w)
      BY <2>1, <2>2 DEF AppendBatch, Works, Collects, queueVars
    <2> QED BY <1>5, <2>3, <2>4, <2>5
  <1>6. ASSUME NEW c \in Consumers, DrainedToWiden(c)
        PROVE  Merges
    BY <1>6, MergeEffect DEF DrainedToWiden, At, CoreInv, PoolInv
  <1>7. ASSUME End PROVE Stays \/ Merges
    <2>1. \/ UNCHANGED <<inserted, poolVars, todo>>
          \/ pc[Main] = "drain" /\ Merge /\ UNCHANGED todo
      BY <1>7 DEF End, At
    <2> QED BY <2>1, MergeEffect DEF CoreInv, PoolInv, Stays, poolVars, queueVars, workerVars
  <1>8. Finish \/ FlusherThrows \/ UNCHANGED vars => Stays
    BY DEF Finish, FlusherThrows, vars, Stays, StopPool, ingestorVars, poolVars, queueVars, workerVars
  <1> QED BY <1>1, <1>2, <1>3, <1>4, <1>5, <1>6, <1>7, <1>8, NextCases

\* Every place holds batches, and None is not one.
LEMMA PlacesHoldBatches ==
    ASSUME CoreInv
    PROVE  /\ None \notin Batches /\ Range(queue) \subseteq Batches /\ inserted \subseteq Batches
           /\ \A c \in Consumers : Range(todo[c]) \subseteq Batches
           /\ \A w \in Workers : collection[w] \subseteq Batches /\ parsed[w] \in Batches \union {None}
  <1>1. TypeOK
    BY DEF CoreInv, TypeInv
  <1>2. \A q \in Seq(Batches) : Range(q) \subseteq Batches
    BY DEF Range
  <1>3. None \notin Batches
    BY PoolAssumption DEF PoolAssumption
  <1>4. /\ queue \in Seq(Batches) /\ inserted \subseteq Batches
        /\ \A c \in Consumers : todo[c] \in Seq(Batches)
        /\ \A w \in Workers : collection[w] \subseteq Batches /\ parsed[w] \in Batches \union {None}
    BY <1>1 DEF TypeOK
  <1>5. Range(queue) \subseteq Batches
    BY <1>2, <1>4
  <1>6. \A c \in Consumers : Range(todo[c]) \subseteq Batches
    BY <1>2, <1>4
  <1> QED BY <1>3, <1>4, <1>5, <1>6

\* Consumer c is done with its batch.
LEMMA TodoShrinks ==
    ASSUME CoreInv, PlaceInv, NEW c \in Consumers, todo[c] # <<>>,
           todo' = [todo EXCEPT ![c] = Tail(@)]
    PROVE  /\ \A d \in Consumers : IsInjective(todo'[d])
           /\ \A d \in Consumers \ {c} : todo'[d] = todo[d]
           /\ Range(todo'[c]) = Range(todo[c]) \ {Current(c)}
           /\ Current(c) \in Range(todo[c]) /\ Current(c) \in Batches
  <1>1. todo \in [Consumers -> Seq(Batches)] /\ IsInjective(todo[c])
    BY DEF CoreInv, TypeInv, TypeOK, PlaceInv
  <1>2. /\ Head(todo[c]) \in Range(todo[c])
        /\ Range(Tail(todo[c])) = Range(todo[c]) \ {Head(todo[c])}
        /\ IsInjective(Tail(todo[c]))
    BY <1>1, ShortenedQueue
  <1>3. todo'[c] = Tail(todo[c]) /\ \A d \in Consumers \ {c} : todo'[d] = todo[d]
    BY <1>1
  <1>4. \A d \in Consumers \ {c} : IsInjective(todo'[d])
    BY <1>3 DEF PlaceInv
  <1> QED BY <1>2, <1>3, <1>4, PlacesHoldBatches DEF Current

LEMMA PlacesShrink ==
    ASSUME CoreInv, PlaceInv,
           \A c \in Consumers : IsInjective(todo'[c]) /\ Range(todo'[c]) \subseteq Range(todo[c]),
           \A w \in Workers : parsed'[w] \in {parsed[w], None},
           UNCHANGED <<queue, collection, inserted>>
    PROVE  PlaceInv'
  <1>1. /\ \A c \in Consumers : IsInjective(todo'[c])
        /\ IsInjective(queue')
        /\ \A c, d \in Consumers : c # d => Range(todo'[c]) \intersect Range(todo'[d]) = {}
    BY DEF PlaceInv
  <1>2. \A v, w \in Workers : v # w => /\ parsed'[v] # None => parsed'[v] # parsed'[w]
                                       /\ collection'[v] \intersect collection'[w] = {}
    BY DEF PlaceInv
  <1>3. \A c \in Consumers : /\ Range(todo'[c]) \intersect Range(queue') = {}
                             /\ Range(todo'[c]) \intersect inserted' = {}
    BY DEF PlaceInv
  <1>4. \A w \in Workers : /\ parsed'[w] = parsed[w] \/ parsed'[w] = None
                           /\ \A c \in Consumers : None \notin Range(todo[c])
                           /\ None \notin Range(queue) /\ None \notin inserted
                           /\ \A v \in Workers : None \notin collection[v]
    BY PlacesHoldBatches
  <1>5. \A c \in Consumers, w \in Workers : /\ parsed'[w] \notin Range(todo'[c])
                                            /\ collection'[w] \intersect Range(todo'[c]) = {}
    BY <1>4 DEF PlaceInv
  <1>6. Range(queue') \intersect inserted' = {}
    BY DEF PlaceInv
  <1>7. \A v \in Workers : /\ parsed'[v] \notin Range(queue') \union inserted'
                           /\ collection'[v] \intersect (Range(queue') \union inserted') = {}
                           /\ \A w \in Workers : parsed'[v] \notin collection'[w]
    BY <1>4 DEF PlaceInv
  <1> QED BY <1>1, <1>2, <1>3, <1>5, <1>6, <1>7 DEF PlaceInv

LEMMA PlaceStep == CoreInv /\ PlaceInv /\ [Next]_vars => PlaceInv'
  <1> SUFFICES ASSUME CoreInv, PlaceInv, [Next]_vars PROVE PlaceInv'
    OBVIOUS
  <1>0. TypeOK
    BY DEF CoreInv, TypeInv
  <1>1. CASE Stays
    BY <1>1 DEF Stays, PlaceInv
  <1>2. ASSUME NEW c \in Consumers, Drops(c) PROVE PlaceInv'
    <2>1. \A d \in Consumers : IsInjective(todo'[d]) /\ Range(todo'[d]) \subseteq Range(todo[d])
      BY <1>2, TodoShrinks DEF Drops
    <2> QED BY <1>2, <2>1, PlacesShrink DEF Drops
  <1>3. ASSUME NEW c \in Consumers, GivesUp(c) PROVE PlaceInv'
    <2>1. \A d \in Consumers : todo'[d] \in {todo[d], <<>>}
      BY <1>0, <1>3 DEF GivesUp, TypeOK
    <2>2. \A d \in Consumers : IsInjective(todo'[d]) /\ Range(todo'[d]) \subseteq Range(todo[d])
      BY <2>1, EmptyQueue DEF PlaceInv
    <2> QED BY <1>3, <2>2, PlacesShrink DEF GivesUp
  <1>4. ASSUME NEW c \in Consumers, Submits(c) PROVE PlaceInv'
    <2>1. /\ \A d \in Consumers : IsInjective(todo'[d])
          /\ \A d \in Consumers \ {c} : todo'[d] = todo[d]
          /\ Range(todo'[c]) = Range(todo[c]) \ {Current(c)}
          /\ Current(c) \in Range(todo[c]) /\ Current(c) \in Batches
      BY <1>4, TodoShrinks DEF Submits
    <2>2. Range(queue') = Range(queue) \union {Current(c)} /\ IsInjective(queue')
      <3>1. Current(c) \notin Range(queue) /\ IsInjective(queue) /\ queue \in Seq(Batches)
        BY <1>0, <2>1 DEF PlaceInv, TypeOK
      <3> QED BY <1>4, <2>1, <3>1, AppendedQueue DEF Submits
    <2>3. UNCHANGED <<parsed, collection, inserted>>
      BY <1>4 DEF Submits
    <2> QED BY <2>1, <2>2, <2>3, PlacesHoldBatches DEF PlaceInv
  <1>5. ASSUME NEW c \in Consumers, Inserts(c) PROVE PlaceInv'
    <2>1. /\ \A d \in Consumers : IsInjective(todo'[d])
          /\ \A d \in Consumers \ {c} : todo'[d] = todo[d]
          /\ Range(todo'[c]) = Range(todo[c]) \ {Current(c)}
          /\ Current(c) \in Range(todo[c]) /\ Current(c) \in Batches
      BY <1>5, TodoShrinks DEF Inserts
    <2>2. UNCHANGED <<queue, parsed, collection>> /\ inserted' = inserted \union {Current(c)}
      BY <1>5 DEF Inserts
    <2> QED BY <2>1, <2>2, PlacesHoldBatches DEF PlaceInv
  <1>6. ASSUME NEW w \in Workers, Takes(w) PROVE PlaceInv'
    <2>1. /\ Head(queue) \in Range(queue) /\ Range(queue') = Range(queue) \ {Head(queue)}
          /\ IsInjective(queue')
      <3>1. queue \in Seq(Batches) /\ IsInjective(queue) /\ queue # <<>>
        BY <1>0, <1>6 DEF PlaceInv, TypeOK, Takes
      <3> QED BY <1>6, <3>1, ShortenedQueue DEF Takes
    <2>2. parsed'[w] = Head(queue) /\ \A v \in Workers \ {w} : parsed'[v] = parsed[v]
      BY <1>0, <1>6 DEF Takes, TypeOK
    <2>3. UNCHANGED <<todo, collection, inserted>> /\ parsed[w] = None
      BY <1>6 DEF Takes
    <2> QED BY <2>1, <2>2, <2>3, PlacesHoldBatches DEF PlaceInv
  <1>7. ASSUME NEW w \in Workers, Loses(w) PROVE PlaceInv'
    <2>1. \A v \in Workers : parsed'[v] \in {parsed[v], None}
      BY <1>0, <1>7 DEF Loses, TypeOK
    <2> QED BY <1>7, <2>1, PlacesShrink DEF Loses, PlaceInv
  <1>8. ASSUME NEW w \in Workers, Collects(w) PROVE PlaceInv'
    <2>1. /\ parsed[w] # None /\ parsed'[w] = None /\ collection'[w] = collection[w] \union {parsed[w]}
          /\ \A v \in Workers \ {w} : parsed'[v] = parsed[v] /\ collection'[v] = collection[v]
      BY <1>0, <1>8 DEF Collects, TypeOK
    <2>2. UNCHANGED <<todo, queue, inserted>>
      BY <1>8 DEF Collects
    <2> QED BY <2>1, <2>2, PlacesHoldBatches DEF PlaceInv
  <1>9. CASE Merges
    <2>1. /\ Range(queue') = {} /\ IsInjective(queue')
          /\ \A w \in Workers : parsed'[w] = None /\ collection'[w] = {}
          /\ UNCHANGED todo
          /\ inserted' = inserted \union Collected
      BY <1>9, EmptyQueue DEF Merges
    <2>2. \A b \in Collected : \E w \in Workers : b \in collection[w]
      BY <1>0 DEF Collected, Range, TypeOK
    <2>3. \A c \in Consumers : Range(todo[c]) \intersect inserted' = {}
      BY <2>1, <2>2 DEF PlaceInv
    <2>4. None \notin inserted' /\ \A c \in Consumers : None \notin Range(todo[c])
      BY <2>1, <2>2, PlacesHoldBatches
    <2> QED BY <2>1, <2>3, <2>4 DEF PlaceInv
  <1> QED BY <1>1, <1>2, <1>3, <1>4, <1>5, <1>6, <1>7, <1>8, <1>9, Effects

--------------------------------------------------------------------------------
(* No batch is lost but for a reason *)

\* A consumer that failed stays so, and a worker's exception is not forgotten.
LEMMA DoomStays ==
    ASSUME CoreInv, [Next]_vars
    PROVE  Doomed => Doomed'
  <1>0. TypeOK
    BY DEF CoreInv, TypeInv
  <1>1. ASSUME NEW c \in Consumers, pc[c] = "failed" PROVE pc'[c] = "failed"
    <2>1. ASSUME NEW d \in Consumers, pc[d] # "failed",
                 \/ \E where : Goto(d, where)
                 \/ Done(d) \/ Throw(d)
                 \/ UNCHANGED pc
                 \/ GotoWithoutPool(d, "evolve")
          PROVE  pc'[c] = "failed"
      <3>1. c # d
        BY <1>1, <2>1
      <3>2. GotoWithoutPool(d, "evolve") => pc'[c] = "failed"
        BY <1>0, <1>1, <3>1 DEF GotoWithoutPool, TypeOK
      <3> QED BY <1>0, <1>1, <2>1, <3>1, <3>2, Moves, Leaves
    <2>2. ASSUME NEW d \in Consumers, ConsumerStep(d)
          PROVE  pc'[c] = "failed"
      <3>1. pc[d] # "failed"
        BY <2>2 DEF ConsumerStep, ReadErrors, WriteErrors, Abandon, IngestNoColumns, Create, Evolve, EvolveThrows,
                    LookAtPool, Submit, Dangle, AppendNative, AppendUnlocked, DrainToWiden, DrainedToWiden,
                    DrainThrows, Locks, At
      <3>2. \/ \E where : Goto(d, where)
            \/ Done(d) \/ Throw(d)
            \/ UNCHANGED pc
            \/ GotoWithoutPool(d, "evolve")
        BY <2>2 DEF ConsumerStep, ReadErrors, WriteErrors, Abandon, IngestNoColumns, Create, Evolve, EvolveThrows,
                    LookAtPool, Submit, Dangle, AppendNative, AppendUnlocked, DrainToWiden, DrainedToWiden,
                    DrainThrows
      <3> QED BY <2>1, <3>1, <3>2
    <2>3. UNCHANGED pc => pc'[c] = "failed"
      BY <1>1
    <2>4. Goto(Main, "drain") \/ GotoWithoutPool(Main, "ready") => pc'[c] = "failed"
      BY <1>0, <1>1, PoolAssumption DEF Goto, GotoWithoutPool, TypeOK, PoolAssumption
    <2>5. Finish \/ End \/ FlusherThrows \/ UNCHANGED vars => pc'[c] = "failed"
      BY <2>3, <2>4 DEF Finish, End, FlusherThrows, vars, ingestorVars
    <2>6. ASSUME NEW w \in Workers, WorkerStep(w) PROVE pc'[c] = "failed"
      BY <2>3, <2>6 DEF WorkerStep, Take, AppendBatch, WorkerThrows, ingestorVars
    <2> QED BY <2>2, <2>5, <2>6 DEF Next, MainStep
  <1>2. SomeFailed => SomeFailed'
    BY <1>1 DEF SomeFailed
  <1>3. ASSUME error, ~error' PROVE FALSE
    <2>1. ~Merge /\ pool
      BY <1>3 DEF Merge, CoreInv, PoolInv, NoneLeft
    <2>2. ASSUME NEW layout, NEW b, EnsurePool(layout, b) PROVE FALSE
      BY <1>3, <2>1, <2>2 DEF EnsurePool, poolVars, queueVars
    <2>3. ASSUME NEW adds, PublishColumns(adds) PROVE FALSE
      BY <1>3, <2>3 DEF PublishColumns, queueVars
    <2>4. StopPool => FALSE
      BY <1>3 DEF StopPool
    <2>5. UNCHANGED error => FALSE
      BY <1>3
    <2>6. ASSUME NEW c \in Consumers, ConsumerStep(c) PROVE FALSE
      BY <2>1, <2>2, <2>3, <2>4, <2>5, <2>6
         DEF ConsumerStep, ReadErrors, WriteErrors, Abandon, IngestNoColumns, Create, Evolve, EvolveThrows,
             LookAtPool, Submit, Dangle, AppendNative, AppendUnlocked, DrainToWiden, DrainedToWiden,
             DrainThrows, poolVars, queueVars
    <2>7. ASSUME NEW w \in Workers, WorkerStep(w) PROVE FALSE
      BY <1>3, <2>5, <2>7 DEF WorkerStep, Take, AppendBatch, WorkerThrows, StopWithError, queueVars
    <2>8. Finish \/ End \/ FlusherThrows \/ UNCHANGED vars => FALSE
      BY <2>1, <2>4, <2>5 DEF Finish, End, FlusherThrows, vars, poolVars, queueVars
    <2> QED BY <2>6, <2>7, <2>8 DEF Next, MainStep
  <1> QED BY <1>2, <1>3 DEF Doomed

\* No batch sets out for the pool while somebody drains it.
LEMMA OvertakenMoves ==
    ASSUME OvertakenInv, overtaken' = overtaken,
           \A d \in Consumers :
               /\ pc'[d] = "drain" => pc[d] = "drain"
               /\ pc'[d] \in {"submit", "inside"} =>
                      \/ pc[d] \in {"submit", "inside"} /\ todo'[d] = todo[d]
                      \/ \A e \in Consumers : pc[e] # "drain"
               /\ pc'[d] \in {"dangling", "racing"} =>
                      /\ pc[d] \in {"dangling", "racing"} \/ (pc[d] = "submit" /\ ~pool)
                      /\ todo'[d] = todo[d]
               /\ pc'[d] = "submit" /\ ~pool' => pc[d] = "submit" /\ ~pool /\ todo'[d] = todo[d]
    PROVE  OvertakenInv'
  <1> SUFFICES ASSUME NEW c \in Consumers
               PROVE  /\ pc'[c] = "drain" => Overtaken(c)' \subseteq overtaken'
                      /\ pc'[c] \in {"dangling", "racing"} => Current(c)' \in overtaken'
                      /\ pc'[c] = "submit" /\ ~pool' => Current(c)' \in overtaken'
    BY DEF OvertakenInv
  <1>1. pc'[c] = "drain" => Overtaken(c)' \subseteq overtaken'
    <2> SUFFICES ASSUME pc'[c] = "drain" PROVE Overtaken(c)' \subseteq overtaken
      OBVIOUS
    <2>1. pc[c] = "drain" /\ Overtaken(c) \subseteq overtaken
      BY DEF OvertakenInv
    <2>2. Overtaken(c)' \subseteq Overtaken(c)
      BY <2>1 DEF Overtaken, Current
    <2> QED BY <2>1, <2>2
  <1>2. todo'[c] = todo[c] => Current(c)' = Current(c)
    BY DEF Current
  <1> QED BY <1>1, <1>2 DEF OvertakenInv

LEMMA OvertakenStep == CoreInv /\ OvertakenInv /\ [Next]_vars => OvertakenInv'
  <1> SUFFICES ASSUME CoreInv, OvertakenInv, [Next]_vars PROVE OvertakenInv'
    OBVIOUS
  <1>0. TypeOK
    BY DEF CoreInv, TypeInv
  <1>1. ASSUME UNCHANGED <<pc, todo, pool, overtaken>> PROVE OvertakenInv'
    BY <1>1, OvertakenMoves
  <1>2. ASSUME NEW c \in Consumers, ReadErrors(c) \/ WriteErrors(c) \/ LookAtPool(c)
        PROVE  OvertakenInv'
    <2>1. /\ UNCHANGED <<todo, pool, overtaken>>
          /\ \/ Goto(c, "count") \/ Goto(c, "lock")
             \/ Goto(c, "inside") /\ pc[c] = "submit"
             \/ Goto(c, "racing") /\ pc[c] = "submit" /\ ~pool
      BY <1>2 DEF ReadErrors, WriteErrors, LookAtPool, At, poolVars, historyVars
    <2>2. /\ \A d \in Consumers \ {c} : pc'[d] = pc[d]
          /\ \/ pc'[c] \in {"count", "lock"}
             \/ pc'[c] = "inside" /\ pc[c] = "submit"
             \/ pc'[c] = "racing" /\ pc[c] = "submit" /\ ~pool
      BY <1>0, <2>1, Moves
    <2> QED BY <2>1, <2>2, OvertakenMoves
  <1>3. ASSUME NEW c \in Consumers, Done(c) \/ Throw(c), UNCHANGED <<pool, overtaken>>
        PROVE  OvertakenInv'
    <2>1. /\ pc'[c] \in {"ready", "failed"}
          /\ \A d \in Consumers \ {c} : pc'[d] = pc[d] /\ todo'[d] = todo[d]
      BY <1>0, <1>3, Leaves
    <2> QED BY <1>3, <2>1, OvertakenMoves
  <1>4. ASSUME NEW c \in Consumers,
               IngestNoColumns(c) \/ EvolveThrows(c) \/ Submit(c) \/ Dangle(c) \/ AppendNative(c)
                 \/ AppendUnlocked(c) \/ DrainThrows(c)
        PROVE  OvertakenInv'
    <2>1. /\ UNCHANGED <<pool, overtaken>>
          /\ \/ Done(c) \/ Throw(c) \/ UNCHANGED <<pc, todo>>
             \/ Goto(c, "hung") /\ UNCHANGED todo
      BY <1>4 DEF IngestNoColumns, EvolveThrows, Submit, Dangle, AppendNative, AppendUnlocked, DrainThrows,
                  poolVars, historyVars
    <2>2. CASE Goto(c, "hung") /\ UNCHANGED todo
      <3>1. pc'[c] = "hung" /\ \A d \in Consumers \ {c} : pc'[d] = pc[d]
        BY <1>0, <2>2, Moves
      <3> QED BY <2>1, <2>2, <3>1, OvertakenMoves
    <2> QED BY <1>1, <1>3, <2>1, <2>2
  <1>5. ASSUME NEW c \in Consumers, Abandon(c) PROVE OvertakenInv'
    <2>1. /\ pc' = pc /\ pc[c] = "ready" /\ UNCHANGED <<pool, overtaken>>
          /\ \A d \in Consumers \ {c} : todo'[d] = todo[d]
      BY <1>0, <1>5 DEF Abandon, At, TypeOK, poolVars, historyVars
    <2> QED BY <2>1, OvertakenMoves
  <1>6. ASSUME NEW c \in Consumers, Create(c) \/ Evolve(c) PROVE OvertakenInv'
    <2>1. /\ schema_lock \in {None, c} /\ pc[c] \in {"lock", "evolve"}
          /\ UNCHANGED <<todo, overtaken>>
          /\ Goto(c, IF pool' THEN "submit" ELSE "append")
      BY <1>6 DEF Create, Evolve, Locks, At, CoreInv, LockInv, historyVars
    <2>2. pool => pool'
      <3>1. \A layout, b : EnsurePool(layout, b) => pool' = pool \/ pool' = TRUE
        BY DEF EnsurePool, poolVars
      <3>2. \A adds : PublishColumns(adds) => pool' = pool
        BY DEF PublishColumns
      <3> QED BY <1>6, <3>1, <3>2 DEF Create, Evolve
    <2>3. /\ pc'[c] = IF pool' THEN "submit" ELSE "append"
          /\ \A d \in Consumers \ {c} : pc'[d] = pc[d]
      BY <1>0, <2>1, Moves
    <2>4. \A e \in Consumers : pc[e] # "drain"
      BY <2>1, PoolAssumption DEF CoreInv, LockInv, PoolAssumption
    <2> QED BY <2>1, <2>2, <2>3, <2>4, OvertakenMoves
  <1>7. ASSUME NEW c \in Consumers, DrainToWiden(c) PROVE OvertakenInv'
    <2>1. /\ schema_lock = None /\ pc[c] = "lock" /\ Goto(c, "drain")
          /\ UNCHANGED <<todo, pool>> /\ overtaken' = overtaken \union Overtaken(c)
      BY <1>7 DEF DrainToWiden, Locks, At, StopPool
    <2>2. pc'[c] = "drain" /\ \A d \in Consumers \ {c} : pc'[d] = pc[d]
      BY <1>0, <2>1, Moves
    <2>3. \A d \in Consumers \ {c} : pc'[d] # "drain"
      BY <2>1, <2>2, PoolAssumption DEF CoreInv, LockInv, PoolAssumption
    <2>4. Overtaken(c)' = Overtaken(c)
      BY <2>1, <2>2 DEF Overtaken, Current
    <2>5. \A d \in Consumers : Current(d)' = Current(d)
      BY <2>1 DEF Current
    <2> QED BY <2>1, <2>2, <2>3, <2>4, <2>5 DEF OvertakenInv
  <1>8. ASSUME NEW c \in Consumers, DrainedToWiden(c) PROVE OvertakenInv'
    <2>1. /\ pc[c] = "drain" /\ UNCHANGED <<todo, overtaken>> /\ GotoWithoutPool(c, "evolve")
      BY <1>8 DEF DrainedToWiden, At
    <2>2. /\ pc'[c] = "evolve"
          /\ \A d \in Consumers \ {c} : pc'[d] = IF pc[d] = "inside" THEN "dangling" ELSE pc[d]
      BY <1>0, <2>1, GotoWithoutPoolType DEF PCs
    <2>3. \A d \in Consumers \ {c} : pc[d] # "drain"
      BY <2>1 DEF CoreInv, LockInv
    <2>4. \A d \in Consumers \ {c} : pc[d] \in {"submit", "inside"} => Current(d) \in overtaken
      BY <2>1 DEF OvertakenInv, Overtaken
    <2>5. \A d \in Consumers : Current(d)' = Current(d)
      BY <2>1 DEF Current
    <2> QED BY <2>1, <2>2, <2>3, <2>4, <2>5 DEF OvertakenInv
  <1>9. ASSUME Finish \/ End PROVE OvertakenInv'
    <2>1. UNCHANGED <<todo, overtaken>>
      BY <1>9 DEF Finish, End, historyVars
    <2>2. \A d \in Consumers : pc[d] \in {"ready", "failed"}
      BY <1>9, MainDrains DEF Finish, End, At
    <2>3. UNCHANGED pc \/ Goto(Main, "drain") \/ GotoWithoutPool(Main, "ready")
      BY <1>9 DEF Finish, End
    <2>4. \A d \in Consumers : pc'[d] \in {"ready", "failed"}
      <3>1. Main \notin Consumers /\ DOMAIN pc = Consumers \union {Main}
        BY <1>0, PoolAssumption DEF TypeOK, PoolAssumption
      <3>2. CASE UNCHANGED pc \/ Goto(Main, "drain")
        BY <2>2, <3>1, <3>2 DEF Goto
      <3>3. CASE GotoWithoutPool(Main, "ready")
        BY <2>2, <3>1, <3>3 DEF GotoWithoutPool
      <3> QED BY <2>3, <3>2, <3>3
    <2> QED BY <2>1, <2>4, OvertakenMoves
  <1>10. ASSUME NEW w \in Workers, Take(w) \/ AppendBatch(w) \/ WorkerThrows(w) PROVE OvertakenInv'
    BY <1>1, <1>10 DEF Take, AppendBatch, WorkerThrows, ingestorVars, historyVars
  <1>11. FlusherThrows \/ UNCHANGED vars => OvertakenInv'
    BY <1>1 DEF FlusherThrows, vars, ingestorVars, poolVars, historyVars
  <1> QED BY <1>2, <1>4, <1>5, <1>6, <1>7, <1>8, <1>9, <1>10, <1>11, NextCases

LEMMA KeptStep == CoreInv /\ KeptInv /\ [Next]_vars => KeptInv'
  <1> SUFFICES ASSUME CoreInv, KeptInv, [Next]_vars PROVE KeptInv'
    OBVIOUS
  <1>0. TypeOK
    BY DEF CoreInv, TypeInv
  <1>1. OvertakenInv'
    BY OvertakenStep DEF KeptInv
  <1>2. overtaken \subseteq overtaken'
    <2>1. \A c \in Consumers : ConsumerStep(c) => overtaken \subseteq overtaken'
      BY DEF ConsumerStep, ReadErrors, WriteErrors, Abandon, IngestNoColumns, Create, Evolve, EvolveThrows,
             LookAtPool, Submit, Dangle, AppendNative, AppendUnlocked, DrainToWiden, DrainedToWiden,
             DrainThrows, historyVars
    <2>2. \A w \in Workers : WorkerStep(w) => overtaken \subseteq overtaken'
      BY DEF WorkerStep, Take, AppendBatch, WorkerThrows, historyVars
    <2> QED BY <2>1, <2>2 DEF Next, MainStep, Finish, End, FlusherThrows, vars, historyVars
  <1> SUFFICES ASSUME NEW b \in Batches, Kept(b), ~Doomed', Content[b] # NoColumns, b \notin overtaken'
               PROVE  Kept(b)'
    BY <1>1, <1>2, DoomStays DEF KeptInv
  <1>3. CASE Stays
    BY <1>3 DEF Stays, Kept
  <1>4. ASSUME NEW c \in Consumers, todo[c] # <<>>, todo' = [todo EXCEPT ![c] = Tail(@)]
        PROVE  /\ \A d \in Consumers \ {c} : todo'[d] = todo[d]
               /\ Range(todo[c]) \subseteq Range(todo'[c]) \union {Current(c)}
    <2>1. todo[c] \in Seq(Batches) /\ todo'[c] = Tail(todo[c]) /\ \A d \in Consumers \ {c} : todo'[d] = todo[d]
      BY <1>0, <1>4 DEF TypeOK
    <2>2. Range(todo[c]) \subseteq Range(Tail(todo[c])) \union {Head(todo[c])}
      BY <1>4, <2>1, TailHolds
    <2> QED BY <2>1, <2>2 DEF Current
  <1>5. ASSUME NEW c \in Consumers, Drops(c), IngestNoColumns(c) \/ (Submit(c) /\ stopped) \/ Dangle(c)
        PROVE  Kept(b)'
    <2>1. b # Current(c)
      <3>1. CASE IngestNoColumns(c)
        BY <3>1 DEF IngestNoColumns
      <3>2. CASE Dangle(c)
        <4>1. pc[c] = "dangling"
          BY <3>2 DEF Dangle, At
        <4> QED BY <1>2, <4>1 DEF KeptInv, OvertakenInv
      <3>3. CASE Submit(c) /\ stopped
        <4>1. pc[c] = "inside" /\ Stopping /\ ~Doomed
          BY <3>3, DoomStays DEF Submit, At, CoreInv, PoolInv
        <4>2. pc[Main] # "drain"
          BY <4>1, InHand
        <4>3. PICK d \in Consumers : pc[d] = "drain"
          BY <4>1, <4>2 DEF Stopping
        <4>4. Current(c) \in Overtaken(d) /\ Overtaken(d) \subseteq overtaken
          BY <4>1, <4>3 DEF Overtaken, KeptInv, OvertakenInv
        <4> QED BY <1>2, <4>4
      <3> QED BY <1>5, <3>1, <3>2, <3>3
    <2> QED BY <1>4, <1>5, <2>1 DEF Drops, Kept
  <1>6. ASSUME NEW c \in Consumers, GivesUp(c), pc[c] # "failed", Abandon(c) \/ Throw(c)
        PROVE  Kept(b)'
    <2>1. Abandon(c) => Doomed
      BY DEF Abandon, Doomed, SomeFailed
    <2>2. Throw(c) => Doomed'
      BY <1>0, Leaves DEF Doomed, SomeFailed
    <2> QED BY <1>6, <2>1, <2>2, DoomStays
  <1>7. ASSUME NEW c \in Consumers, Submits(c) PROVE Kept(b)'
    <2>1. Range(queue') = Range(queue) \union {Current(c)}
      <3>1. queue \in Seq(Batches) /\ Current(c) \in Batches /\ queue' = Append(queue, Current(c))
        BY <1>0, <1>7, CurrentType DEF Submits, TypeOK
      <3> QED BY <3>1, QueueHolds
    <2> QED BY <1>4, <1>7, <2>1 DEF Submits, Kept
  <1>8. ASSUME NEW c \in Consumers, Inserts(c) PROVE Kept(b)'
    BY <1>4, <1>8 DEF Inserts, Kept
  <1>9. ASSUME NEW w \in Workers, Takes(w) PROVE Kept(b)'
    <2>1. Range(queue) \subseteq Range(queue') \union {Head(queue)}
      BY <1>0, <1>9, TailHolds DEF Takes, TypeOK
    <2>2. parsed'[w] = Head(queue) /\ \A v \in Workers \ {w} : parsed'[v] = parsed[v]
      BY <1>0, <1>9 DEF Takes, TypeOK
    <2>3. parsed[w] # b
      BY <1>9, PlacesHoldBatches DEF Takes
    <2> QED BY <1>9, <2>1, <2>2, <2>3 DEF Takes, Kept
  <1>10. ASSUME NEW w \in Workers, WorkerThrows(w) PROVE Kept(b)'
    BY <1>10 DEF WorkerThrows, StopWithError, Doomed
  <1>11. ASSUME NEW w \in Workers, Collects(w) PROVE Kept(b)'
    <2>1. /\ collection'[w] = collection[w] \union {parsed[w]}
          /\ \A v \in Workers \ {w} : parsed'[v] = parsed[v] /\ collection'[v] = collection[v]
      BY <1>0, <1>11 DEF Collects, TypeOK
    <2> QED BY <1>11, <2>1 DEF Collects, Kept
  <1>12. CASE Merges
    <2>1. \A w \in Workers : b \in collection[w] => b \in Collected
      BY <1>0 DEF Collected, Range, TypeOK
    <2>2. Range(queue) = {} /\ \A w \in Workers : parsed[w] # b
      BY <1>12, EmptyQueue, PlacesHoldBatches DEF Merges
    <2> QED BY <1>12, <2>1, <2>2 DEF Merges, Kept
  <1> QED BY <1>3, <1>5, <1>6, <1>7, <1>8, <1>9, <1>10, <1>11, <1>12, Effects

\* All that the stream holds is there at first, once.
LEMMA PlaceInit == Init => PlaceInv /\ KeptInv
  <1> SUFFICES ASSUME Init PROVE PlaceInv /\ KeptInv
    OBVIOUS
  <1>0. CoreInv
    BY CoreInit
  <1>1. /\ queue = <<>> /\ inserted = {}
        /\ \A w \in Workers : parsed[w] = None /\ collection[w] = {}
        /\ \A t \in Consumers \union {Main} : pc[t] = "ready"
    BY DEF Init, NoPool
  <1>2. /\ todo \in Assignments
        /\ \A c \in Consumers : None \notin Range(todo[c])
    BY <1>0, PlacesHoldBatches DEF Init
  <1>3. /\ UNION {Range(todo[c]) : c \in Consumers} = Batches
        /\ \A c, d \in Consumers : \A i \in DOMAIN todo[c], j \in DOMAIN todo[d] :
               todo[c][i] = todo[d][j] => <<c, i>> = <<d, j>>
    BY <1>2, PoolAssumption DEF PoolAssumption
  <1>4. \A c \in Consumers : IsInjective(todo[c])
    BY <1>3 DEF IsInjective
  <1>5. \A c, d \in Consumers : c # d => Range(todo[c]) \intersect Range(todo[d]) = {}
    BY <1>3 DEF Range
  <1>6. PlaceInv
    BY <1>1, <1>2, <1>4, <1>5, EmptyQueue DEF PlaceInv
  <1>7. \A b \in Batches : Kept(b)
    BY <1>3 DEF Kept
  <1>8. OvertakenInv
    BY <1>1 DEF OvertakenInv
  <1> QED BY <1>6, <1>7, <1>8 DEF KeptInv

\* The places of a batch, by kind.
LEMMA PlaceKinds ==
    ASSUME NEW b \in Batches, NEW p \in Places(b)
    PROVE  \/ \E c \in Consumers : p = <<"consumer", c>> /\ b \in Range(todo[c])
           \/ \E i \in DOMAIN queue : p = <<"queue", i>> /\ queue[i] = b
           \/ \E w \in Workers : p = <<"worker", w>> /\ parsed[w] = b
           \/ \E w \in Workers : p = <<"collection", w>> /\ b \in collection[w]
           \/ p = <<"inserted", 0>> /\ b \in inserted
  BY DEF Places

LEMMA OnePlace ==
    ASSUME CoreInv, PlaceInv, NEW b \in Batches, NEW p \in Places(b), NEW q \in Places(b)
    PROVE  p = q
  <1>0. b # None
    BY PlacesHoldBatches
  <1>1. \A i \in DOMAIN queue : queue[i] = b => b \in Range(queue)
    BY DEF Range
  <1>2. ASSUME NEW c \in Consumers, p = <<"consumer", c>>, b \in Range(todo[c])
        PROVE  p = q
    <2>1. /\ \A d \in Consumers : b \in Range(todo[d]) => c = d
          /\ b \notin Range(queue) /\ b \notin inserted
          /\ \A w \in Workers : parsed[w] # b /\ b \notin collection[w]
      BY <1>2 DEF PlaceInv
    <2> QED BY <1>1, <1>2, <2>1, PlaceKinds
  <1>3. ASSUME NEW i \in DOMAIN queue, p = <<"queue", i>>, queue[i] = b
        PROVE  p = q
    <2>1. b \in Range(queue)
      BY <1>1, <1>3
    <2>2. /\ \A j \in DOMAIN queue : queue[j] = b => i = j
          /\ b \notin inserted /\ \A d \in Consumers : b \notin Range(todo[d])
          /\ \A w \in Workers : parsed[w] # b /\ b \notin collection[w]
      BY <1>3, <2>1 DEF PlaceInv, IsInjective
    <2> QED BY <1>3, <2>2, PlaceKinds
  <1>4. ASSUME NEW w \in Workers, p = <<"worker", w>>, parsed[w] = b
        PROVE  p = q
    <2>1. /\ b \notin Range(queue) /\ b \notin inserted
          /\ \A d \in Consumers : b \notin Range(todo[d])
          /\ \A v \in Workers : (parsed[v] = b => v = w) /\ b \notin collection[v]
      BY <1>0, <1>4 DEF PlaceInv
    <2> QED BY <1>1, <1>4, <2>1, PlaceKinds
  <1>5. ASSUME NEW w \in Workers, p = <<"collection", w>>, b \in collection[w]
        PROVE  p = q
    <2>1. /\ b \notin Range(queue) /\ b \notin inserted
          /\ \A d \in Consumers : b \notin Range(todo[d])
          /\ \A v \in Workers : parsed[v] # b /\ (b \in collection[v] => v = w)
      BY <1>5 DEF PlaceInv
    <2> QED BY <1>1, <1>5, <2>1, PlaceKinds
  <1>6. ASSUME p = <<"inserted", 0>>, b \in inserted
        PROVE  p = q
    <2>1. /\ b \notin Range(queue) /\ \A d \in Consumers : b \notin Range(todo[d])
          /\ \A v \in Workers : parsed[v] # b /\ b \notin collection[v]
      BY <1>6 DEF PlaceInv
    <2> QED BY <1>1, <1>6, <2>1, PlaceKinds
  <1> QED BY <1>2, <1>3, <1>4, <1>5, <1>6, PlaceKinds

\* Somewhere to be is a place.
LEMMA KeptHasPlace ==
    ASSUME NEW b \in Batches, Kept(b)
    PROVE  Places(b) # {}
  <1>1. ASSUME NEW c \in Consumers, b \in Range(todo[c]) PROVE Places(b) # {}
    <2>1. <<"consumer", c>> \in Places(b)
      BY <1>1 DEF Places
    <2> QED BY <2>1
  <1>2. ASSUME b \in Range(queue) PROVE Places(b) # {}
    <2>1. PICK i \in DOMAIN queue : queue[i] = b
      BY <1>2 DEF Range
    <2>2. <<"queue", i>> \in {<<"queue", j>> : j \in {j \in DOMAIN queue : queue[j] = b}}
      BY <2>1
    <2>3. <<"queue", i>> \in Places(b)
      BY <2>2 DEF Places
    <2> QED BY <2>3
  <1>3. ASSUME NEW w \in Workers, parsed[w] = b PROVE Places(b) # {}
    <2>1. <<"worker", w>> \in Places(b)
      BY <1>3 DEF Places
    <2> QED BY <2>1
  <1>4. ASSUME NEW w \in Workers, b \in collection[w] PROVE Places(b) # {}
    <2>1. <<"collection", w>> \in Places(b)
      BY <1>4 DEF Places
    <2> QED BY <2>1
  <1>5. ASSUME b \in inserted PROVE Places(b) # {}
    <2>1. <<"inserted", 0>> \in {<<"inserted", 0>> : i \in {b} \intersect inserted}
      BY <1>5
    <2>2. <<"inserted", 0>> \in Places(b)
      BY <2>1 DEF Places
    <2> QED BY <2>2
  <1> QED BY <1>1, <1>2, <1>3, <1>4, <1>5 DEF Kept

\* No batch is repeated, whichever threads race; and one is lost only when the
\* statement will fail, or when a drain overtook it.
THEOREM PoolBatchInOnePlace == Spec => []BatchInOnePlace
  <1>1. CoreInv /\ PlaceInv /\ KeptInv /\ [Next]_vars => CoreInv' /\ PlaceInv' /\ KeptInv'
    BY TypeStep, LockStep, PoolStep, PlaceStep, KeptStep DEF CoreInv
  <1>2. CoreInv /\ PlaceInv /\ KeptInv => BatchInOnePlace
    <2> SUFFICES ASSUME CoreInv, PlaceInv, KeptInv, NEW b \in Batches
                 PROVE  /\ Cardinality(Places(b)) <= 1
                        /\ Places(b) = {} => Doomed \/ Content[b] = NoColumns \/ b \in overtaken
      BY DEF BatchInOnePlace
    <2>1. Places(b) = {} \/ \E p : Places(b) = {p}
      BY OnePlace
    <2>2. Cardinality(Places(b)) <= 1
      <3>1. CASE Places(b) = {}
        <4>1. Cardinality(Places(b)) = 0
          BY <3>1, FS_EmptySet
        <4> QED BY <4>1
      <3>2. ASSUME NEW p, Places(b) = {p} PROVE Cardinality(Places(b)) <= 1
        <4>1. Cardinality({p}) = 1
          BY FS_Singleton
        <4> QED BY <3>2, <4>1
      <3> QED BY <2>1, <3>1, <3>2
    <2>3. Places(b) = {} => ~Kept(b)
      BY KeptHasPlace
    <2> QED BY <2>2, <2>3 DEF KeptInv
  <1> QED BY CoreInit, PlaceInit, <1>1, <1>2, PTL DEF Spec

--------------------------------------------------------------------------------
(* The counters and the end *)

\* A consumer past its first two steps, with its batch's errors counted.
Late == PCs \ {"ready", "count", "failed"}

\* What a step does to a consumer: it counts its batch's errors, works on the batch,
\* is done with it, or gives up.
LEMMA ConsumerMoves ==
    ASSUME CoreInv, [Next]_vars, NEW d \in Consumers
    PROVE  \/ todo'[d] = todo[d] /\ pc'[d] = pc[d]
           \/ todo'[d] = todo[d] /\ pc[d] = "ready" /\ pc'[d] = "count"
           \/ todo'[d] = todo[d] /\ pc[d] = "count" /\ pc'[d] = "lock"
           \/ todo'[d] = todo[d] /\ pc[d] \in Late /\ pc'[d] \in Late
           \/ /\ pc[d] \in Late /\ pc'[d] = "ready"
              /\ todo[d] # <<>> /\ todo'[d] = Tail(todo[d])
           \/ todo'[d] = <<>>
  <1> DEFINE Goal == \/ todo'[d] = todo[d] /\ pc'[d] = pc[d]
                     \/ todo'[d] = todo[d] /\ pc[d] = "ready" /\ pc'[d] = "count"
                     \/ todo'[d] = todo[d] /\ pc[d] = "count" /\ pc'[d] = "lock"
                     \/ todo'[d] = todo[d] /\ pc[d] \in Late /\ pc'[d] \in Late
                     \/ /\ pc[d] \in Late /\ pc'[d] = "ready"
                        /\ todo[d] # <<>> /\ todo'[d] = Tail(todo[d])
                     \/ todo'[d] = <<>>
  <1>0. TypeOK
    BY DEF CoreInv, TypeInv
  <1>1. UNCHANGED <<todo, pc>> => Goal
    OBVIOUS
  <1>2. ASSUME NEW c \in Consumers, UNCHANGED todo,
               \/ Goto(c, "count") /\ pc[c] = "ready"
               \/ Goto(c, "lock") /\ pc[c] = "count"
               \/ pc[c] \in Late /\ \E where \in Late : Goto(c, where)
        PROVE  Goal
    <2>1. /\ \A e \in Consumers \ {c} : pc'[e] = pc[e]
          /\ \/ pc'[c] = "count" /\ pc[c] = "ready"
             \/ pc'[c] = "lock" /\ pc[c] = "count"
             \/ pc[c] \in Late /\ pc'[c] \in Late
      BY <1>0, <1>2, Moves
    <2> QED BY <1>2, <2>1
  <1>3. ASSUME NEW c \in Consumers, pc[c] \in Late, Done(c) \/ Throw(c)
        PROVE  Goal
    <2>1. /\ \A e \in Consumers \ {c} : pc'[e] = pc[e] /\ todo'[e] = todo[e]
          /\ \/ todo'[c] = Tail(todo[c]) /\ pc'[c] = "ready"
             \/ todo'[c] = <<>>
      <3>1. Done(c) => todo'[c] = Tail(todo[c]) /\ pc'[c] = "ready"
        BY <1>0, Moves DEF Done, TypeOK
      <3>2. Throw(c) => todo'[c] = <<>>
        BY <1>0 DEF Throw, TypeOK
      <3> QED BY <1>0, <1>3, <3>1, <3>2, Leaves
    <2>2. todo[c] # <<>>
      BY <1>3, InHand DEF Late
    <2> QED BY <1>3, <2>1, <2>2
  <1>4. ASSUME NEW t \in Consumers \union {Main}, UNCHANGED todo,
               t \in Consumers => pc[t] \in Late,
               GotoWithoutPool(t, "evolve") \/ (t = Main /\ GotoWithoutPool(t, "ready"))
        PROVE  Goal
    <2>1. "evolve" \in PCs /\ "ready" \in PCs /\ "dangling" \in Late /\ "inside" \in Late /\ "evolve" \in Late
      BY DEF PCs, Late
    <2>2. t # d => pc'[d] = IF pc[d] = "inside" THEN "dangling" ELSE pc[d]
      BY <1>0, <1>4, <2>1, GotoWithoutPoolType
    <2>3. t = d => pc'[d] = "evolve" /\ pc[d] \in Late
      BY <1>0, <1>4, <2>1, GotoWithoutPoolType, PoolAssumption DEF PoolAssumption
    <2> QED BY <1>4, <2>1, <2>2, <2>3
  <1>5. ASSUME NEW c \in Consumers, ConsumerStep(c) PROVE Goal
    <2>1. /\ "lock" \in Late /\ "drain" \in Late /\ "evolve" \in Late /\ "submit" \in Late /\ "inside" \in Late
          /\ "dangling" \in Late /\ "append" \in Late /\ "racing" \in Late
      BY DEF Late, PCs
    <2>2. ReadErrors(c) \/ WriteErrors(c) => Goal
      BY <1>2 DEF ReadErrors, WriteErrors, At
    <2>3. Create(c) \/ Evolve(c) \/ LookAtPool(c) \/ DrainToWiden(c) => Goal
      <3>1. Create(c) \/ Evolve(c) \/ LookAtPool(c) \/ DrainToWiden(c) =>
                UNCHANGED todo /\ pc[c] \in Late /\ \E where \in Late : Goto(c, where)
        BY <2>1 DEF Create, Evolve, LookAtPool, DrainToWiden, Locks, At
      <3> QED BY <1>2, <3>1
    <2>4. Abandon(c) => Goal
      BY <1>0 DEF Abandon, TypeOK
    <2>5. IngestNoColumns(c) \/ EvolveThrows(c) \/ Submit(c) \/ Dangle(c) \/ AppendNative(c)
            \/ AppendUnlocked(c) \/ DrainThrows(c) => Goal
      <3>1. IngestNoColumns(c) \/ EvolveThrows(c) \/ Submit(c) \/ Dangle(c) \/ AppendNative(c)
              \/ AppendUnlocked(c) \/ DrainThrows(c)
            => pc[c] \in Late /\ (\/ Done(c) \/ Throw(c) \/ UNCHANGED <<pc, todo>>
                                  \/ Goto(c, "hung") /\ UNCHANGED todo)
        BY <2>1 DEF IngestNoColumns, EvolveThrows, Submit, Dangle, AppendNative, AppendUnlocked, DrainThrows,
                    Locks, At
      <3>2. "hung" \in Late
        BY DEF Late, PCs
      <3> QED BY <1>1, <1>2, <1>3, <3>1, <3>2
    <2>6. ASSUME DrainedToWiden(c) PROVE Goal
      <3>1. UNCHANGED todo /\ pc[c] \in Late /\ GotoWithoutPool(c, "evolve")
        BY <2>1, <2>6 DEF DrainedToWiden, At
      <3>2. c \in Consumers \union {Main}
        OBVIOUS
      <3>3. c \in Consumers => pc[c] \in Late
        BY <3>1
      <3>4. UNCHANGED todo
        BY <3>1
      <3>5. GotoWithoutPool(c, "evolve") \/ (c = Main /\ GotoWithoutPool(c, "ready"))
        BY <3>1
      <3> HIDE DEF Goal
      <3> QED BY ONLY <1>4, <3>2, <3>3, <3>4, <3>5
    <2> QED BY <1>5, <2>2, <2>3, <2>4, <2>5, <2>6 DEF ConsumerStep
  <1>6. Finish => Goal
    BY <1>0, <1>1, PoolAssumption DEF Finish, Goto, TypeOK, PoolAssumption
  <1>7. ASSUME End PROVE Goal
    <2>1. Main \in Consumers \union {Main} /\ Main \notin Consumers /\ UNCHANGED todo
      BY <1>7, PoolAssumption DEF End, PoolAssumption
    <2>2. UNCHANGED pc \/ GotoWithoutPool(Main, "ready")
      BY <1>7 DEF End
    <2> QED BY <1>1, <1>4, <2>1, <2>2
  <1>8. ASSUME NEW w \in Workers, WorkerStep(w) PROVE Goal
    BY <1>1, <1>8 DEF WorkerStep, Take, AppendBatch, WorkerThrows, ingestorVars
  <1>9. FlusherThrows \/ UNCHANGED vars => Goal
    BY <1>1 DEF FlusherThrows, vars, ingestorVars
  <1> QED BY <1>5, <1>6, <1>7, <1>8, <1>9 DEF Next, MainStep

\* The bound of the error counter only grows.
LEMMA BoundGrows ==
    ASSUME CoreInv, PlaceInv, [Next]_vars
    PROVE  /\ \A d \in Consumers : /\ Uncounted(d)' \subseteq Uncounted(d)
                                   /\ Range(todo'[d]) \subseteq Range(todo[d])
           /\ Counted \subseteq Counted' /\ Recounted \subseteq Recounted'
           /\ IsFiniteSet(Counted) /\ IsFiniteSet(Recounted)
           /\ IsFiniteSet(Counted') /\ IsFiniteSet(Recounted')
           /\ created => created'
           /\ ErrorBound \in Nat /\ ErrorBound' \in Nat /\ ErrorBound <= ErrorBound'
  <1>1. ASSUME NEW d \in Consumers
        PROVE  /\ Uncounted(d)' \subseteq Uncounted(d)
               /\ Range(todo'[d]) \subseteq Range(todo[d])
    <2>1. todo[d] \in Seq(Batches) /\ IsInjective(todo[d])
      BY DEF CoreInv, TypeInv, TypeOK, PlaceInv
    <2>2. todo[d] # <<>> => Range(Tail(todo[d])) = Range(todo[d]) \ {Current(d)}
      BY <2>1, ShortenedQueue DEF Current
    <2>3. CASE todo'[d] = todo[d]
      <3>1. Uncounted(d)' = IF pc'[d] \in {"ready", "count", "failed"} THEN Range(todo[d])
                            ELSE Range(todo[d]) \ {Current(d)}
        BY <2>3 DEF Uncounted, Current
      <3>2. pc[d] \notin {"ready", "count", "failed"} => pc'[d] \notin {"ready", "count", "failed"} \/ todo[d] = <<>>
        <4>1. todo[d] # <<>> => Tail(todo[d]) # todo[d]
          BY <2>1, TailShorter
        <4> QED BY <2>3, <4>1, ConsumerMoves DEF Late
      <3> QED BY <2>3, <3>1, <3>2, EmptyQueue DEF Uncounted
    <2>4. CASE todo'[d] = <<>>
      BY <2>4, EmptyQueue DEF Uncounted
    <2>5. CASE /\ pc[d] \in Late /\ pc'[d] = "ready"
               /\ todo[d] # <<>> /\ todo'[d] = Tail(todo[d])
      BY <2>2, <2>5 DEF Uncounted, Late
    <2> QED BY <2>3, <2>4, <2>5, ConsumerMoves
  <1>2. Counted \subseteq Counted' /\ Recounted \subseteq Recounted'
    BY <1>1 DEF Counted, Recounted
  <1>3. /\ IsFiniteSet(Counted) /\ IsFiniteSet(Recounted)
        /\ IsFiniteSet(Counted') /\ IsFiniteSet(Recounted')
    <2>1. IsFiniteSet(Batches) /\ Malformed \subseteq Batches
      BY PoolAssumption DEF CoreInv, TypeInv, PoolAssumption
    <2>2. Counted \subseteq Batches /\ Recounted \subseteq Batches /\ Counted' \subseteq Batches /\ Recounted' \subseteq Batches
      BY <2>1 DEF Counted, Recounted
    <2> QED BY <2>1, <2>2, FS_Subset
  <1>4. created => created'
    <2>1. \A c \in Consumers : ConsumerStep(c) => created' = created \/ created' = TRUE
      BY DEF ConsumerStep, ReadErrors, WriteErrors, Abandon, IngestNoColumns, Create, Evolve, EvolveThrows,
             LookAtPool, Submit, Dangle, AppendNative, AppendUnlocked, DrainToWiden, DrainedToWiden,
             DrainThrows, counters
    <2>2. \A w \in Workers : WorkerStep(w) => created' = created
      BY DEF WorkerStep, Take, AppendBatch, WorkerThrows, ingestorVars, counters
    <2> QED BY <2>1, <2>2 DEF Next, MainStep, Finish, End, FlusherThrows, vars, ingestorVars, counters
  <1>5. /\ Cardinality(Counted) \in Nat /\ Cardinality(Counted') \in Nat
        /\ Cardinality(Recounted) \in Nat /\ Cardinality(Recounted') \in Nat
        /\ Cardinality(Counted) <= Cardinality(Counted')
        /\ Cardinality(Recounted) <= Cardinality(Recounted')
    BY <1>2, <1>3, FS_CardinalityType, FS_Subset
  <1> QED BY <1>1, <1>2, <1>3, <1>4, <1>5 DEF ErrorBound

\* The steps that count no error.
LEMMA ErrorsKept ==
    ASSUME CoreInv, [Next]_vars,
           \A c \in Consumers : ~ReadErrors(c) /\ ~WriteErrors(c) /\ ~IngestNoColumns(c) /\ ~Create(c)
    PROVE  /\ errors' = errors
           /\ \A d \in Consumers : pc'[d] = "count" => pc[d] = "count" /\ seen'[d] = seen[d]
  <1>0. TypeOK
    BY DEF CoreInv, TypeInv
  <1>1. errors' = errors
    <2>1. \A c \in Consumers : ConsumerStep(c) => errors' = errors
      BY DEF ConsumerStep, Abandon, Evolve, EvolveThrows, LookAtPool, Submit, Dangle, AppendNative,
             AppendUnlocked, DrainToWiden, DrainedToWiden, DrainThrows, counters
    <2>2. \A w \in Workers : WorkerStep(w) => errors' = errors
      BY DEF WorkerStep, Take, AppendBatch, WorkerThrows, ingestorVars, counters
    <2> QED BY <2>1, <2>2 DEF Next, MainStep, Finish, End, FlusherThrows, vars, ingestorVars, counters
  <1>2. ASSUME NEW d \in Consumers, pc'[d] = "count" PROVE pc[d] = "count"
    <2>1. ASSUME NEW c \in Consumers, ConsumerStep(c) PROVE pc'[d] = pc[d] \/ pc'[d] # "count"
      <3>1. \/ UNCHANGED pc
            \/ \E where \in {"submit", "append", "inside", "hung", "racing", "drain"} : Goto(c, where)
            \/ Done(c) \/ Throw(c)
            \/ GotoWithoutPool(c, "evolve")
        BY <2>1 DEF ConsumerStep, Abandon, Evolve, EvolveThrows, LookAtPool, Submit, Dangle, AppendNative,
                    AppendUnlocked, DrainToWiden, DrainedToWiden, DrainThrows
      <3>2. GotoWithoutPool(c, "evolve") => pc'[d] = pc[d] \/ pc'[d] # "count"
        BY <1>0 DEF GotoWithoutPool, TypeOK
      <3>3. Done(c) \/ Throw(c) => pc'[d] = pc[d] \/ pc'[d] # "count"
        BY <1>0, Leaves
      <3>4. (\E where \in {"submit", "append", "inside", "hung", "racing", "drain"} : Goto(c, where))
              => pc'[d] = pc[d] \/ pc'[d] # "count"
        BY <1>0, Moves
      <3> QED BY <3>1, <3>2, <3>3, <3>4
    <2>2. \A w \in Workers : WorkerStep(w) => pc' = pc
      BY DEF WorkerStep, Take, AppendBatch, WorkerThrows, ingestorVars
    <2>3. Finish \/ End \/ FlusherThrows \/ UNCHANGED vars => pc'[d] = pc[d] \/ pc'[d] # "count"
      <3>1. Goto(Main, "drain") \/ GotoWithoutPool(Main, "ready") => pc'[d] = pc[d] \/ pc'[d] # "count"
        BY <1>0, PoolAssumption DEF Goto, GotoWithoutPool, TypeOK, PoolAssumption
      <3> QED BY <3>1 DEF Finish, End, FlusherThrows, vars, ingestorVars
    <2> QED BY <1>2, <2>1, <2>2, <2>3 DEF Next, MainStep
  <1>3. ASSUME NEW d \in Consumers, pc[d] = "count" PROVE seen'[d] = seen[d]
    <2>1. ASSUME NEW c \in Consumers, ConsumerStep(c) PROVE seen'[d] = seen[d]
      <3>1. \/ UNCHANGED seen
            \/ pc[c] \in {"submit", "racing"} /\ \E n : seen' = [seen EXCEPT ![c] = n]
        BY <2>1 DEF ConsumerStep, Abandon, Evolve, EvolveThrows, LookAtPool, Submit, Dangle, AppendNative,
                    AppendUnlocked, DrainToWiden, DrainedToWiden, DrainThrows, counters, At
      <3> QED BY <1>0, <1>3, <3>1 DEF TypeOK
    <2>2. \A w \in Workers : WorkerStep(w) => seen' = seen
      BY DEF WorkerStep, Take, AppendBatch, WorkerThrows, ingestorVars, counters
    <2> QED BY <2>1, <2>2 DEF Next, MainStep, Finish, End, FlusherThrows, vars, ingestorVars, counters
  <1> QED BY <1>1, <1>2, <1>3

\* The count of rows: the steps that insert nothing leave it alone.
LEMMA RowsKept ==
    ASSUME CoreInv, PlaceInv, KeptInv, [Next]_vars, overtaken' = {},
           overtaken = {} => rows = Cardinality(inserted)
    PROVE  rows' = Cardinality(inserted')
  <1>0. TypeOK /\ IsFiniteSet(inserted)
    <2>1. TypeOK /\ IsFiniteSet(Batches)
      BY DEF CoreInv, TypeInv
    <2> QED BY <2>1, FS_Subset DEF TypeOK
  <1>1. overtaken = {}
    <2>1. \A c \in Consumers : ConsumerStep(c) => overtaken \subseteq overtaken'
      BY DEF ConsumerStep, ReadErrors, WriteErrors, Abandon, IngestNoColumns, Create, Evolve, EvolveThrows,
             LookAtPool, Submit, Dangle, AppendNative, AppendUnlocked, DrainToWiden, DrainedToWiden,
             DrainThrows, historyVars
    <2>2. \A w \in Workers : WorkerStep(w) => overtaken \subseteq overtaken'
      BY DEF WorkerStep, Take, AppendBatch, WorkerThrows, historyVars
    <2> QED BY <2>1, <2>2 DEF Next, MainStep, Finish, End, FlusherThrows, vars, historyVars
  <1>2. \A c \in Consumers : ~AppendUnlocked(c)
    BY <1>1 DEF AppendUnlocked, At, KeptInv, OvertakenInv
  <1>3. ASSUME UNCHANGED <<rows, inserted>> PROVE rows' = Cardinality(inserted')
    BY <1>1, <1>3
  <1>4. ASSUME NEW c \in Consumers, AppendNative(c) PROVE rows' = Cardinality(inserted')
    <2>1. CASE rows' = rows + 1 /\ inserted' = inserted \union {Current(c)}
      <3>1. Current(c) \in Range(todo[c])
        BY <1>4, InHand DEF AppendNative, At
      <3>2. Current(c) \notin inserted
        BY <3>1 DEF PlaceInv
      <3>3. Cardinality(inserted \union {Current(c)}) = Cardinality(inserted) + 1
        BY <1>0, <3>2, FS_AddElement
      <3> QED BY <1>1, <2>1, <3>3
    <2> QED BY <1>3, <1>4, <2>1 DEF AppendNative
  <1>5. ASSUME Merge PROVE rows' = Cardinality(inserted')
    <2>1. Collected \subseteq Batches /\ Collected \intersect inserted = {}
      <3>1. \A b \in Collected : \E w \in Workers : b \in collection[w]
        BY <1>0 DEF Collected, Range, TypeOK
      <3> QED BY <3>1, PlacesHoldBatches DEF PlaceInv
    <2>2. IsFiniteSet(Collected) /\ Cardinality(Collected) \in Nat /\ Cardinality(inserted) \in Nat
      BY <1>0, <2>1, FS_Subset, FS_CardinalityType DEF CoreInv, TypeInv
    <2>3. Cardinality(inserted \union Collected)
            = Cardinality(inserted) + Cardinality(Collected) - Cardinality(inserted \intersect Collected)
      BY <1>0, <2>2, FS_Union
    <2>4. Cardinality(inserted \intersect Collected) = 0
      BY <2>1, FS_EmptySet
    <2> QED BY <1>1, <1>5, <2>2, <2>3, <2>4 DEF Merge
  <1>6. ASSUME NEW c \in Consumers, ConsumerStep(c) PROVE rows' = Cardinality(inserted')
    <2>1. AppendNative(c) \/ Merge \/ UNCHANGED <<rows, inserted>>
      BY <1>2, <1>6 DEF ConsumerStep, ReadErrors, WriteErrors, Abandon, IngestNoColumns, CountAgain, Create, Evolve,
             EvolveThrows, LookAtPool, Submit, Dangle, DrainToWiden, DrainedToWiden, DrainThrows, counters
    <2> QED BY <1>3, <1>4, <1>5, <2>1
  <1>7. ASSUME NEW w \in Workers, WorkerStep(w) PROVE rows' = Cardinality(inserted')
    BY <1>3, <1>7 DEF WorkerStep, Take, AppendBatch, WorkerThrows, ingestorVars, counters
  <1>8. Finish \/ End \/ FlusherThrows \/ UNCHANGED vars => rows' = Cardinality(inserted')
    BY <1>3, <1>5 DEF Finish, End, FlusherThrows, vars, ingestorVars, counters
  <1> QED BY <1>6, <1>7, <1>8 DEF Next, MainStep

\* One batch more in either set, or the table created, makes room for one error more.
LEMMA BoundGains ==
    ASSUME CoreInv, PlaceInv, [Next]_vars,
           \/ \E b \in Counted' : b \notin Counted
           \/ \E b \in Recounted' : b \notin Recounted
           \/ created' /\ ~created
    PROVE  ErrorBound + 1 <= ErrorBound'
  <1>1. /\ Cardinality(Counted) \in Nat /\ Cardinality(Counted') \in Nat
        /\ Cardinality(Recounted) \in Nat /\ Cardinality(Recounted') \in Nat
        /\ Cardinality(Counted) <= Cardinality(Counted')
        /\ Cardinality(Recounted) <= Cardinality(Recounted')
    BY BoundGrows, FS_CardinalityType, FS_Subset
  <1>2. created => created'
    BY BoundGrows
  <1>3. CASE \E b \in Counted' : b \notin Counted
    <2>1. PICK b \in Counted' : b \notin Counted
      BY <1>3
    <2>2. /\ IsFiniteSet(Counted) /\ IsFiniteSet(Counted')
          /\ Counted \union {b} \subseteq Counted'
      BY <2>1, BoundGrows
    <2>3. Cardinality(Counted \union {b}) = Cardinality(Counted) + 1
      BY <2>1, <2>2, FS_AddElement
    <2>4. Cardinality(Counted \union {b}) <= Cardinality(Counted')
      BY <2>2, FS_Subset
    <2>5. Cardinality(Counted) + 1 <= Cardinality(Counted')
      BY <2>3, <2>4
    <2> QED BY <1>1, <1>2, <2>5 DEF ErrorBound
  <1>4. CASE \E b \in Recounted' : b \notin Recounted
    <2>1. PICK b \in Recounted' : b \notin Recounted
      BY <1>4
    <2>2. /\ IsFiniteSet(Recounted) /\ IsFiniteSet(Recounted')
          /\ Recounted \union {b} \subseteq Recounted'
      BY <2>1, BoundGrows
    <2>3. Cardinality(Recounted \union {b}) = Cardinality(Recounted) + 1
      BY <2>1, <2>2, FS_AddElement
    <2>4. Cardinality(Recounted \union {b}) <= Cardinality(Recounted')
      BY <2>2, FS_Subset
    <2>5. Cardinality(Recounted) + 1 <= Cardinality(Recounted')
      BY <2>3, <2>4
    <2> QED BY <1>1, <1>2, <2>5 DEF ErrorBound
  <1>5. CASE created' /\ ~created
    BY <1>1, <1>5 DEF ErrorBound
  <1> QED BY <1>3, <1>4, <1>5

\* The batch in hand counts once its errors are written, and again if it has no
\* columns and is done with.
LEMMA BatchCounted ==
    ASSUME CoreInv, PlaceInv, NEW c \in Consumers, Current(c) \in Malformed, todo[c] # <<>>,
           \A d \in Consumers \ {c} : pc'[d] = pc[d] /\ todo'[d] = todo[d]
    PROVE  /\ pc[c] = "count" /\ pc'[c] = "lock" /\ todo'[c] = todo[c] =>
                  Current(c) \in Counted' /\ Current(c) \notin Counted
           /\ /\ Content[Current(c)] = NoColumns
              /\ todo'[c] = Tail(todo[c]) \/ todo'[c] = <<>>
              => Current(c) \in Recounted' /\ Current(c) \notin Recounted
  <1> DEFINE b == Current(c)
  <1>1. todo[c] \in Seq(Batches) /\ IsInjective(todo[c])
    BY DEF CoreInv, TypeInv, TypeOK, PlaceInv
  <1>2. b \in Range(todo[c]) /\ Range(Tail(todo[c])) = Range(todo[c]) \ {b}
    BY <1>1, ShortenedQueue DEF Current
  <1>3. \A d \in Consumers \ {c} : b \notin Range(todo'[d])
    BY <1>2 DEF PlaceInv
  <1>4. ASSUME pc[c] = "count", pc'[c] = "lock", todo'[c] = todo[c]
        PROVE  b \in Counted' /\ b \notin Counted
    <2>1. b \in Uncounted(c) /\ b \notin Uncounted(c)'
      BY <1>2, <1>4 DEF Uncounted, Current
    <2>2. \A d \in Consumers \ {c} : b \notin Uncounted(d)'
      BY <1>3 DEF Uncounted
    <2> QED BY <2>1, <2>2 DEF Counted
  <1>5. ASSUME Content[b] = NoColumns, todo'[c] = Tail(todo[c]) \/ todo'[c] = <<>>
        PROVE  b \in Recounted' /\ b \notin Recounted
    <2>1. b \notin Range(todo'[c])
      BY <1>2, <1>5, EmptyQueue
    <2> QED BY <1>2, <1>3, <1>5, <2>1 DEF Recounted
  <1> QED BY <1>4, <1>5

\* What c counts, it may count.
LEMMA CountingStep ==
    ASSUME CoreInv, LayoutInv, PlaceInv, CountInv, [Next]_vars, NEW c \in Consumers,
           ReadErrors(c) \/ WriteErrors(c) \/ IngestNoColumns(c) \/ Create(c)
    PROVE  /\ errors' <= ErrorBound'
           /\ \A d \in Consumers : pc'[d] = "count" => seen'[d] <= ErrorBound'
  <1>0. TypeOK /\ ErrorBound \in Nat /\ ErrorBound' \in Nat /\ ErrorBound <= ErrorBound'
    BY BoundGrows DEF CoreInv, TypeInv
  <1>1. todo[c] # <<>>
    BY InHand DEF ReadErrors, WriteErrors, IngestNoColumns, Create, Locks, At
  <1>2. /\ errors \in Nat /\ errors <= ErrorBound /\ seen[c] \in Nat
        /\ \A d \in Consumers : seen[d] \in Nat /\ (pc[d] = "count" => seen[d] <= ErrorBound)
    BY <1>0 DEF CountInv, TypeOK
  <1>3. CASE ReadErrors(c)
    <2>1. /\ errors' = errors /\ seen'[c] = errors
          /\ \A d \in Consumers \ {c} : pc'[d] = pc[d] /\ seen'[d] = seen[d]
      BY <1>0, <1>3 DEF ReadErrors, Goto, TypeOK
    <2> QED BY <1>0, <1>2, <2>1
  <1>4. CASE WriteErrors(c)
    <2>1. /\ errors' = seen[c] + ParseErrors(Current(c))
          /\ pc[c] = "count" /\ pc'[c] = "lock" /\ todo' = todo
          /\ \A d \in Consumers \ {c} : pc'[d] = pc[d] /\ seen'[d] = seen[d]
      BY <1>0, <1>4 DEF WriteErrors, Goto, At, TypeOK
    <2>2. Current(c) \in Malformed => ErrorBound + 1 <= ErrorBound'
      BY <1>1, <2>1, BatchCounted, BoundGains
    <2>3. errors' <= ErrorBound'
      BY <1>0, <1>2, <2>1, <2>2 DEF ParseErrors
    <2> QED BY <1>0, <1>2, <2>1, <2>3
  <1>5. ASSUME errors' = errors + ParseErrors(Current(c)), seen' = seen,
               Current(c) \in Malformed => ErrorBound + 1 <= ErrorBound',
               \A d \in Consumers : pc'[d] = "count" => pc[d] = "count"
        PROVE  /\ errors' <= ErrorBound'
               /\ \A d \in Consumers : pc'[d] = "count" => seen'[d] <= ErrorBound'
    <2>1. errors' <= ErrorBound'
      BY <1>0, <1>2, <1>5 DEF ParseErrors
    <2> QED BY <1>0, <1>2, <1>5, <2>1
  <1>6. CASE IngestNoColumns(c)
    <2>1. /\ errors' = errors + ParseErrors(Current(c)) /\ seen' = seen
          /\ Content[Current(c)] = NoColumns /\ (Done(c) \/ Throw(c))
      BY <1>6 DEF IngestNoColumns, CountAgain
    <2>2. /\ \A d \in Consumers \ {c} : pc'[d] = pc[d] /\ todo'[d] = todo[d]
          /\ pc'[c] \in {"ready", "failed"}
      BY <1>0, <2>1, Leaves
    <2>3. todo'[c] = Tail(todo[c]) \/ todo'[c] = <<>>
      BY <1>0, <2>1 DEF Done, Throw, TypeOK
    <2>4. Current(c) \in Malformed => ErrorBound + 1 <= ErrorBound'
      BY <1>1, <2>1, <2>2, <2>3, BatchCounted, BoundGains
    <2> QED BY <1>5, <2>1, <2>2, <2>4
  <1>7. CASE Create(c)
    <2>1. /\ errors' = errors + ParseErrors(Current(c)) /\ seen' = seen
          /\ created' /\ table = NoColumns
          /\ \E where \in {"submit", "append"} : Goto(c, where)
      BY <1>7 DEF Create, CountAgain
    <2>2. ErrorBound + 1 <= ErrorBound'
      BY <2>1, BoundGains DEF LayoutInv
    <2>3. /\ \A d \in Consumers \ {c} : pc'[d] = pc[d]
          /\ pc'[c] \in {"submit", "append"}
      BY <1>0, <2>1, Moves
    <2> QED BY <1>5, <2>1, <2>2, <2>3
  <1> QED BY <1>3, <1>4, <1>6, <1>7

LEMMA CountStep == CoreInv /\ LayoutInv /\ PlaceInv /\ KeptInv /\ CountInv /\ [Next]_vars => CountInv'
  <1> SUFFICES ASSUME CoreInv, LayoutInv, PlaceInv, KeptInv, CountInv, [Next]_vars
               PROVE  CountInv'
    OBVIOUS
  <1>1. overtaken' = {} => rows' = Cardinality(inserted')
    BY RowsKept DEF CountInv
  <1>2. /\ errors' <= ErrorBound'
        /\ \A d \in Consumers : pc'[d] = "count" => seen'[d] <= ErrorBound'
    <2>1. CASE \E c \in Consumers : ReadErrors(c) \/ WriteErrors(c) \/ IngestNoColumns(c) \/ Create(c)
      BY <2>1, CountingStep
    <2>2. CASE \A c \in Consumers : ~ReadErrors(c) /\ ~WriteErrors(c) /\ ~IngestNoColumns(c) /\ ~Create(c)
      <3>1. /\ errors' = errors
            /\ \A d \in Consumers : pc'[d] = "count" => pc[d] = "count" /\ seen'[d] = seen[d]
        BY <2>2, ErrorsKept
      <3>2. ErrorBound \in Nat /\ ErrorBound' \in Nat /\ ErrorBound <= ErrorBound'
        BY BoundGrows
      <3>3. /\ errors \in Nat /\ errors <= ErrorBound
            /\ \A d \in Consumers : seen[d] \in Nat /\ (pc[d] = "count" => seen[d] <= ErrorBound)
        BY DEF CountInv, CoreInv, TypeInv, TypeOK
      <3> QED BY <3>1, <3>2, <3>3
    <2> QED BY <2>1, <2>2
  <1> QED BY <1>1, <1>2 DEF CountInv

LEMMA CountInit == Init => CountInv
  <1> SUFFICES ASSUME Init PROVE CountInv
    OBVIOUS
  <1>1. IsFiniteSet(Malformed)
    BY CoreInit, FS_Subset, PoolAssumption DEF CoreInv, TypeInv, PoolAssumption
  <1>2. Counted \subseteq Malformed /\ Recounted \subseteq Malformed
    BY DEF Counted, Recounted
  <1>3. Cardinality(Counted) \in Nat /\ Cardinality(Recounted) \in Nat
    BY <1>1, <1>2, FS_Subset, FS_CardinalityType
  <1>4. 0 <= ErrorBound
    BY <1>3 DEF ErrorBound
  <1>5. rows = Cardinality(inserted)
    BY FS_EmptySet DEF Init
  <1>6. errors = 0 /\ \A c \in Consumers : pc[c] = "ready"
    BY DEF Init
  <1> QED BY <1>4, <1>5, <1>6 DEF CountInv

\* A statement has succeeded with nothing to do, no failure and no pool.
EndInv == outcome = "succeeded" => ConsumersDone /\ ~SomeFailed /\ ~pool

LEMMA EndStep == CoreInv /\ EndInv /\ [Next]_vars => EndInv'
  <1> SUFFICES ASSUME CoreInv, EndInv, [Next]_vars, outcome' = "succeeded"
               PROVE  (ConsumersDone /\ ~SomeFailed /\ ~pool)'
    BY DEF EndInv
  <1>0. TypeOK
    BY DEF CoreInv, TypeInv
  <1>1. ASSUME UNCHANGED <<pc, todo, pool>>, ConsumersDone, ~SomeFailed, ~pool
        PROVE  (ConsumersDone /\ ~SomeFailed /\ ~pool)'
    BY <1>1 DEF ConsumersDone, Returned, SomeFailed
  <1>2. CASE UNCHANGED vars
    BY <1>1, <1>2 DEF EndInv, vars, ingestorVars, poolVars
  <1>3. ASSUME NEW c \in Consumers, ConsumerStep(c) PROVE outcome' # "succeeded"
    BY <1>3 DEF ConsumerStep, ReadErrors, WriteErrors, Abandon, IngestNoColumns, Create, Evolve,
                EvolveThrows, LookAtPool, Submit, Dangle, AppendNative, AppendUnlocked, DrainToWiden,
                DrainedToWiden, DrainThrows, Locks, At
  <1>4. ASSUME NEW w \in Workers, WorkerStep(w) PROVE outcome' # "succeeded"
    BY <1>4 DEF WorkerStep, Take, AppendBatch, WorkerThrows, Works
  <1>5. Finish \/ FlusherThrows => outcome' # "succeeded"
    BY DEF Finish, FlusherThrows, At
  <1>6. CASE End
    <2>1. CASE UNCHANGED <<pc, todo, pool>> /\ ConsumersDone /\ ~SomeFailed /\ ~pool
      BY <1>1, <2>1
    <2>2. CASE /\ pc[Main] = "drain" /\ ~SomeFailed /\ Merge
               /\ GotoWithoutPool(Main, "ready") /\ UNCHANGED todo
      <3>1. ConsumersDone /\ ~pool'
        BY <2>2 DEF CoreInv, TypeInv, HandInv, Merge, PoolGone
      <3>2. \A c \in Consumers : pc[c] \in {"ready", "failed"} /\ c # Main
        BY <3>1, PoolAssumption DEF ConsumersDone, Returned, PoolAssumption
      <3>3. \A c \in Consumers : pc'[c] = pc[c]
        BY <1>0, <2>2, <3>2 DEF GotoWithoutPool, TypeOK
      <3> QED BY <2>2, <3>1, <3>3 DEF ConsumersDone, Returned, SomeFailed
    <2>3. \/ UNCHANGED <<pc, todo, pool>> /\ ConsumersDone /\ ~SomeFailed /\ ~pool
          \/ /\ pc[Main] = "drain" /\ ~SomeFailed /\ Merge
             /\ GotoWithoutPool(Main, "ready") /\ UNCHANGED todo
      BY <1>6 DEF End, At, poolVars
    <2> QED BY <2>1, <2>2, <2>3
  <1> QED BY <1>2, <1>3, <1>4, <1>5, <1>6 DEF Next, MainStep

\* A statement that succeeds has inserted every batch that no drain overtook, the
\* rows it reports are those, and its errors are bounded by the malformed batches
\* and the two cases in which the code counts a batch again.
THEOREM PoolSuccessIsComplete == Spec => []SuccessIsComplete
  <1> DEFINE I == CoreInv /\ LayoutInv /\ PlaceInv /\ KeptInv /\ CountInv /\ EndInv
  <1>1. Init => I
    BY CoreInit, LayoutInit, PlaceInit, CountInit DEF EndInv, Init
  <1>2. I /\ [Next]_vars => I'
    BY TypeStep, LockStep, PoolStep, LayoutStep, PlaceStep, KeptStep, CountStep, EndStep DEF CoreInv
  <1>3. I => SuccessIsComplete
    <2> SUFFICES ASSUME I, outcome = "succeeded"
                 PROVE  /\ \A b \in Batches : b \in inserted \/ b \in overtaken \/ Content[b] = NoColumns
                        /\ overtaken = {} => rows = Cardinality(inserted)
                        /\ errors <= Cardinality(Malformed)
                                     + Cardinality({b \in Malformed : Content[b] = NoColumns})
                                     + (IF created THEN 1 ELSE 0)
      BY DEF SuccessIsComplete
    <2>1. ConsumersDone /\ ~SomeFailed /\ NoneLeft
      BY DEF EndInv, CoreInv, PoolInv
    <2>2. ASSUME NEW b \in Batches, Kept(b) PROVE b \in inserted
      <3>1. \A c \in Consumers : todo[c] = <<>>
        BY <2>1 DEF ConsumersDone, Returned, SomeFailed
      <3>2. \A c \in Consumers : b \notin Range(todo[c])
        BY <3>1, EmptyQueue
      <3>3. b \notin Range(queue)
        BY <2>1, EmptyQueue DEF NoneLeft
      <3>4. \A w \in Workers : parsed[w] = None /\ b \notin collection[w]
        BY <2>1 DEF NoneLeft, CoreInv, PoolInv
      <3>5. b # None
        BY PoolAssumption DEF PoolAssumption
      <3> QED BY <2>2, <3>2, <3>3, <3>4, <3>5 DEF Kept
    <2>3. ~Doomed
      BY <2>1 DEF Doomed, NoneLeft
    <2>4. errors <= Cardinality(Malformed)
                    + Cardinality({b \in Malformed : Content[b] = NoColumns})
                    + (IF created THEN 1 ELSE 0)
      <3> DEFINE M == {b \in Malformed : Content[b] = NoColumns}
      <3>1. IsFiniteSet(Malformed)
        BY FS_Subset, PoolAssumption DEF CoreInv, TypeInv, PoolAssumption
      <3>2. Counted \subseteq Malformed /\ Recounted \subseteq M /\ M \subseteq Malformed
        BY DEF Counted, Recounted
      <3>3. IsFiniteSet(M)
        BY <3>1, <3>2, FS_Subset
      <3>4. /\ Cardinality(Counted) \in Nat /\ Cardinality(Recounted) \in Nat
            /\ Cardinality(Malformed) \in Nat /\ Cardinality(M) \in Nat
            /\ Cardinality(Counted) <= Cardinality(Malformed)
            /\ Cardinality(Recounted) <= Cardinality(M)
        BY <3>1, <3>2, <3>3, FS_Subset, FS_CardinalityType
      <3>5. errors \in Nat /\ errors <= ErrorBound
        BY DEF CoreInv, TypeInv, TypeOK, CountInv
      <3> QED BY <3>4, <3>5 DEF ErrorBound
    <2> QED BY <2>2, <2>3, <2>4 DEF KeptInv, CountInv
  <1> QED BY <1>1, <1>2, <1>3, PTL DEF Spec
================================================================================
