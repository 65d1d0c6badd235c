-------------------------------- MODULE Optimize --------------------------------
(***************************************************************************)
(* Adaptive layout (raw_optimize.cpp): usage statistics observed from      *)
(* queries, raw_optimize(), raw_project() with the rewriting of aggregates *)
(* onto the projection, raw_stats_save() and raw_stats_load(), on one      *)
(* table that users query and append to.                                   *)
(*                                                                         *)
(* The calls run SQL of their own on another connection, so that a call is *)
(* several steps: a statement, a transaction or a block under the lock of  *)
(* RawStatsCache each.  DuckDB is external: a row is addressed by its      *)
(* place, a deleted row keeps its place until the table is rewritten, and  *)
(* GetTotalRows() counts places.                                           *)
(***************************************************************************)
EXTENDS Naturals, Sequences, FiniteSetsExt, Selection

CONSTANTS Columns,         \* column names, as numbers in alphabetical order
          Rows,            \* what a row may be: functions from Columns to Nat
          Tables,          \* the tables to begin with, perhaps with deleted rows
          Queries,         \* [filters, groups]: count(*), with these columns
          Calls,           \* sessions that call the functions
          Apart,           \* pairs of functions whose calls do not overlap
          GlobalSettings,  \* what rawduck_use_projections may be for new connections
          MaxQueries,      \* bound: queries
          Budgets,         \* bounds: how often each function is called
          MaxRows,         \* bound: places of the table when a row is appended
          MaxRestarts      \* bound: restarts

Exported == {"optimize", "project", "save", "load"}
GroupSets == (SUBSET Columns) \ {{}}

ASSUME OptimizeAssumption ==
    /\ Columns \subseteq Nat /\ Columns # {} /\ IsFiniteSet(Columns)
    /\ Rows \subseteq [Columns -> Nat]
    /\ Tables \subseteq Seq(Rows \union {<<>>})
    /\ Queries \subseteq [filters : SUBSET Columns, groups : SUBSET Columns]
    /\ Apart \subseteq Exported \X Exported
    /\ GlobalSettings \subseteq BOOLEAN
    /\ Budgets \subseteq [Exported -> Nat]
    /\ {MaxQueries, MaxRows, MaxRestarts} \subseteq Nat

VARIABLES
    rows,        \* the places of the table, in the order of rowid
    projection,  \* the table <t>__proj: [cols, counts]
    saved,       \* the table __rawduck_stats, or NoStats when there is none
    stats,       \* RawStatsCache::usage and group_sets
    counting,    \* counting[g]: queries that have counted the columns of g, and not yet g
    registered,  \* RawStatsCache::projections: [group_set, base_rows]
    optimized,   \* RawStatsCache::optimized: [order_by, row_count]
    call,        \* call[c]: what session c's call is at and holds
    inserted,    \* history: how often each row was put into the table
    missed,      \* history: those put there while a full rewrite's transaction was open
    observed,    \* history: all that was ever observed
    overtaken,   \* history: the base changed or moved behind raw_project's back
    queries, restarts,
    calls        \* what is left of the budget

storeVars == <<rows, projection, saved>>
usageVars == <<stats, counting, observed>>
cacheVars == <<registered, optimized>>
historyVars == <<inserted, missed, overtaken>>
boundVars == <<queries, restarts, calls>>
vars == <<storeVars, usageVars, cacheVars, call, historyVars, boundVars>>

\* The place of a deleted row.
Deleted == <<>>
Idle == [at |-> "idle"]
NoStats == [usage |-> <<>>, sets |-> <<>>]
NoProjection == [cols |-> {}, counts |-> <<>>]
Unregistered == [group_set |-> {}, base_rows |-> 0]
NotOptimized == [order_by |-> <<>>, row_count |-> 0]

--------------------------------------------------------------------------------
(* Statistics *)

ZeroStats == [usage |-> [c \in Columns |-> [filters |-> 0, groups |-> 0]],
              sets |-> [g \in GroupSets |-> 0]]

One(b) == IF b THEN 1 ELSE 0

\* What one query adds, column by column,
OfColumns(q) ==
    [ZeroStats EXCEPT !.usage = [c \in Columns |-> [filters |-> One(c \in q.filters),
                                                    groups |-> One(c \in q.groups)]]]
\* and for the set of the columns it groups by.
OfSet(g) == [ZeroStats EXCEPT !.sets = [h \in GroupSets |-> One(h = g)]]

Add(s, t) ==
    [usage |-> [c \in Columns |-> [filters |-> s.usage[c].filters + t.usage[c].filters,
                                   groups |-> s.usage[c].groups + t.usage[c].groups]],
     sets |-> [g \in GroupSets |-> s.sets[g] + t.sets[g]]]

\* s counts nothing that t has not counted.
Within(s, t) ==
    /\ \A c \in Columns : /\ s.usage[c].filters > 0 => t.usage[c].filters > 0
                          /\ s.usage[c].groups > 0 => t.usage[c].groups > 0
    /\ \A g \in GroupSets : s.sets[g] > 0 => t.sets[g] > 0

\* No set of columns is counted more often than each of its columns.
Agrees(s) == \A g \in GroupSets : \A c \in g : s.sets[g] <= s.usage[c].groups

\* The ranking of raw_optimize: the two heaviest columns, ties by name.
OrderBy(s) ==
    LET Weight(c) == 2 * s.usage[c].filters + s.usage[c].groups
        Heavier(c, d) == Weight(c) > Weight(d) \/ (Weight(c) = Weight(d) /\ c < d)
        used == {c \in Columns : Weight(c) > 0}
        ranked == Ranked(used, {p \in used \X used : Heavier(p[1], p[2])})
    IN SubSeq(ranked, 1, Min({2, Len(ranked)}))

\* The joined names of g come before those of h.
Before(g, h) ==
    LET first == Min((g \ h) \union (h \ g))
    IN IF first \in g THEN \E c \in h : c > first ELSE ~\E c \in g : c > first

\* The group set raw_project takes.
Hottest(s) ==
    LET Hotter(g, h) == s.sets[g] > s.sets[h] \/ (s.sets[g] = s.sets[h] /\ Before(g, h))
    IN Ranked(GroupSets, {p \in GroupSets \X GroupSets : Hotter(p[1], p[2])})[1]

--------------------------------------------------------------------------------
(* The table *)

LivePlaces(rs) == {i \in DOMAIN rs : rs[i] # Deleted}
Occurrences(rs, r) == Cardinality({i \in DOMAIN rs : rs[i] = r})

\* ORDER BY key.
Less(key, r, s) ==
    \E n \in DOMAIN key : /\ r[key[n]] < s[key[n]]
                          /\ \A m \in 1 .. n - 1 : r[key[m]] = s[key[m]]
OrderedBy(key, rs) ==
    LET Sooner(i, j) == Less(key, rs[i], rs[j]) \/ (~Less(key, rs[j], rs[i]) /\ i < j)
        ranked == Ranked(DOMAIN rs, {p \in (DOMAIN rs) \X (DOMAIN rs) : Sooner(p[1], p[2])})
    IN [n \in DOMAIN rs |-> rs[ranked[n]]]
IsOrdered(key, rs) == \A i, j \in DOMAIN rs : i < j => ~Less(key, rs[j], rs[i])

\* SELECT g, count(*) GROUP BY g over the base table.
Aggregate(rs, g) ==
    [k \in {Restrict(rs[i], g) : i \in LivePlaces(rs)} |->
        Cardinality({i \in LivePlaces(rs) : Restrict(rs[i], g) = k})]

\* sum(count) of some rows of the projection.
Total(counts, group) == Cardinality(UNION {{<<j, n>> : n \in 1 .. counts[j]} : j \in group})

\* SELECT g, sum(count) GROUP BY g over the projection.
AggregateProjection(g) ==
    [k \in {Restrict(j, g) : j \in DOMAIN projection.counts} |->
        Total(projection.counts, {j \in DOMAIN projection.counts : Restrict(j, g) = k})]

\* Mutant: the registered row count is not compared.
ServesAnyCount(q) ==
    /\ q.filters = {} /\ q.groups # {}
    /\ registered.group_set = q.groups
    /\ q.groups \subseteq projection.cols

\* TryRewriteToProjection: query q is answered from the projection.
Serves(q) ==
    /\ q.filters = {} /\ q.groups # {}
    /\ registered.group_set = q.groups
    /\ registered.base_rows = Len(rows)
    /\ q.groups \subseteq projection.cols

--------------------------------------------------------------------------------
Orders == {s \in UNION {[1 .. n -> Columns] : n \in 1 .. 2} : IsInjective(s)}
Modes == {"noop", "incremental", "full"}

Statistics == [usage : [Columns -> [filters : Nat, groups : Nat]], sets : [GroupSets -> Nat]]

\* What a session's call may be at and hold.
Holding ==
    {Idle}
    \union [at : {"last", "shape"}, key : Orders, last : Nat]
    \union [at : {"begin", "record"}, key : Orders, last : Nat, count : Nat, mode : Modes]
    \union [at : {"transaction"}, key : Orders, last : Nat, count : Nat, mode : Modes,
            snap : Seq(Rows \union {Deleted}), inserted : [Rows -> Nat], moved : BOOLEAN]
    \union [at : {"copy", "register"}, group : GroupSets, gone : SUBSET Nat]
    \union [at : {"replace", "insert", "merge"}, stats : Statistics]

TypeOK ==
    /\ rows \in Seq(Rows \union {Deleted})
    /\ projection.cols \subseteq Columns
    /\ saved \in Statistics \union {NoStats}
    /\ stats \in Statistics /\ observed \in Statistics
    /\ counting \in [GroupSets -> Nat]
    /\ registered \in [group_set : SUBSET Columns, base_rows : Nat]
    /\ optimized \in [order_by : Orders \union {<<>>}, row_count : Nat]
    /\ call \in [Calls -> Holding]
    /\ inserted \in [Rows -> Nat] /\ missed \in [Rows -> Nat]
    /\ overtaken \in BOOLEAN
    /\ queries \in 0 .. MaxQueries /\ calls \in [Exported -> Nat] /\ restarts \in 0 .. MaxRestarts

Init ==
    /\ rows \in Tables
    /\ projection = NoProjection
    /\ saved = NoStats
    /\ stats = ZeroStats /\ observed = ZeroStats
    /\ counting = [g \in GroupSets |-> 0]
    /\ registered = Unregistered
    /\ optimized = NotOptimized
    /\ call = [c \in Calls |-> Idle]
    /\ inserted = [r \in Rows |-> Occurrences(rows, r)]
    /\ missed = [r \in Rows |-> 0]
    /\ overtaken = FALSE
    /\ queries = 0 /\ restarts = 0 /\ calls \in Budgets

--------------------------------------------------------------------------------
(* Users *)

At(c, where) == call[c].at = where
Goto(c, l) == call' = [call EXCEPT ![c] = l]

\* CollectStats of a query up to its last block under the lock: the columns.
CollectStats(q) ==
    /\ stats' = Add(stats, OfColumns(q))
    /\ observed' = Add(observed, OfColumns(q))
    /\ counting' = IF q.groups = {} THEN counting ELSE [counting EXCEPT ![q.groups] = @ + 1]

\* The last block: the set of the columns.
CollectGroupSet(g) ==
    /\ counting[g] > 0
    /\ counting' = [counting EXCEPT ![g] = @ - 1]
    /\ stats' = Add(stats, OfSet(g))
    /\ observed' = Add(observed, OfSet(g))
    /\ UNCHANGED <<storeVars, cacheVars, call, historyVars, boundVars>>

\* An autocommitted INSERT, or an ingest.
Insert(r) ==
    /\ Len(rows) < MaxRows
    /\ rows' = Append(rows, r)
    /\ inserted' = [inserted EXCEPT ![r] = @ + 1]
    /\ overtaken' = (overtaken \/ \E c \in Calls : At(c, "register"))
    /\ UNCHANGED <<projection, saved, usageVars, cacheVars, call, missed, boundVars>>

\* RawDuckPreOptimizeHook and RawDuckOptimizeHook.  A query that is rewritten, as its
\* session may ask for, scans the projection and is counted as usage of that table,
\* not of this one.
Query(q) ==
    /\ queries < MaxQueries
    /\ queries' = queries + 1
    /\ \/ Serves(q) /\ UNCHANGED usageVars
       \/ CollectStats(q)
    /\ UNCHANGED <<storeVars, cacheVars, call, historyVars, calls, restarts>>

\* The process ends and starts again: what is in memory is gone.
Restart ==
    /\ restarts < MaxRestarts
    /\ restarts' = restarts + 1
    /\ stats' = ZeroStats
    /\ counting' = [g \in GroupSets |-> 0]
    /\ registered' = Unregistered
    /\ optimized' = NotOptimized
    /\ call' = [c \in Calls |-> Idle]
    /\ UNCHANGED <<storeVars, observed, historyVars, queries, calls>>

--------------------------------------------------------------------------------
(* raw_optimize *)

Steps(f) == CASE f = "optimize" -> {"last", "shape", "begin", "transaction", "record"}
              [] f = "project" -> {"copy", "register"}
              [] f = "save" -> {"replace", "insert"}
              [] f = "load" -> {"merge"}

\* Session c calls function f.
Enter(c, f) ==
    /\ At(c, "idle")
    /\ \A g \in Exported : <<f, g>> \in Apart => \A d \in Calls : call[d].at \notin Steps(g)
    /\ calls[f] > 0
    /\ calls' = [calls EXCEPT ![f] = @ - 1]

\* Mutant: no early return when nothing was observed.
RankAnyway(c) ==
    /\ Enter(c, "optimize")
    /\ Goto(c, [at |-> "last", key |-> OrderBy(stats), last |-> 0])
    /\ UNCHANGED <<storeVars, usageVars, cacheVars, historyVars, queries, restarts>>

\* RawOptimizeFunction up to order_by.  Without statistics it changes nothing.
Rank(c) ==
    /\ Enter(c, "optimize")
    /\ OrderBy(stats) # <<>>
    /\ Goto(c, [at |-> "last", key |-> OrderBy(stats), last |-> 0])
    /\ UNCHANGED <<storeVars, usageVars, cacheVars, historyVars, queries, restarts>>

\* The look at the last outcome for the same key.
LastOptimize(c) ==
    /\ At(c, "last")
    /\ Goto(c, [at |-> "shape", key |-> call[c].key,
                last |-> IF optimized.order_by = call[c].key THEN optimized.row_count ELSE 0])
    /\ UNCHANGED <<storeVars, usageVars, cacheVars, historyVars, boundVars>>

\* SELECT count(*), max(rowid) + 1, and the decision.
Shape(c) ==
    LET current_count == Cardinality(LivePlaces(rows))
        rowid_end == Max({0} \union LivePlaces(rows))
        last == call[c].last
        grown == last > 0 /\ current_count = rowid_end
        mode == CASE grown /\ current_count = last -> "noop"
                  [] grown /\ current_count > last -> "incremental"
                  [] OTHER -> "full"
    IN /\ At(c, "shape")
       /\ Goto(c, [at |-> IF mode = "noop" THEN "record" ELSE "begin",
                   key |-> call[c].key, last |-> last, count |-> current_count, mode |-> mode])
       /\ UNCHANGED <<storeVars, usageVars, cacheVars, historyVars, boundVars>>

\* BEGIN TRANSACTION: the snapshot.
Begin(c) ==
    /\ At(c, "begin")
    /\ Goto(c, [at |-> "transaction", key |-> call[c].key, last |-> call[c].last,
                count |-> call[c].count, mode |-> call[c].mode, snap |-> rows,
                inserted |-> inserted, moved |-> FALSE])
    /\ UNCHANGED <<storeVars, usageVars, cacheVars, historyVars, boundVars>>

\* The places the incremental sort takes its rows from.
TailPlaces(c) == {i \in LivePlaces(call[c].snap) : i > call[c].last}

\* What COMMIT leaves of the calls: this one goes on, the others have lost the
\* storage they refer to if the table was replaced.
Moved(c, replaced) ==
    call' = [d \in Calls |->
        IF d = c THEN [at |-> "record", key |-> call[c].key, last |-> call[c].last,
                       count |-> call[c].count, mode |-> call[c].mode]
        ELSE IF ~replaced THEN call[d]
        ELSE IF At(d, "transaction") THEN [call[d] EXCEPT !.moved = TRUE]
        ELSE IF call[d].at \in Steps("project") /\ call[d].gone = {}
             THEN [call[d] EXCEPT !.gone = {Len(rows)}]
        ELSE call[d]]

\* Mutant: the tail is inserted again and not deleted.
CommitTailTwice(c) ==
    /\ At(c, "transaction") /\ call[c].mode = "incremental"
    /\ ~call[c].moved /\ \A i \in TailPlaces(c) : rows[i] # Deleted
    /\ rows' = rows \o OrderedBy(call[c].key, SubSeq(rows, call[c].last + 1, Len(rows)))
    /\ Moved(c, FALSE)
    /\ UNCHANGED <<projection, saved, usageVars, cacheVars, historyVars, boundVars>>

\* The incremental transaction up to COMMIT: the tail of the snapshot is deleted
\* and inserted again in order, behind whatever was appended meanwhile.
CommitTail(c) ==
    /\ At(c, "transaction") /\ call[c].mode = "incremental"
    /\ ~call[c].moved /\ \A i \in TailPlaces(c) : rows[i] # Deleted
    /\ rows' = [i \in DOMAIN rows |-> IF i \in TailPlaces(c) THEN Deleted ELSE rows[i]]
               \o OrderedBy(call[c].key, Selection(call[c].snap, TailPlaces(c)))
    /\ Moved(c, FALSE)
    /\ UNCHANGED <<projection, saved, usageVars, cacheVars, historyVars, boundVars>>

\* The full transaction up to COMMIT: the table is replaced by an ordered copy of the
\* snapshot.  Nothing looks for rows that were committed since; DROP TABLE may
\* conflict with them (then the call fails) or not.
CommitFull(c) ==
    /\ At(c, "transaction") /\ call[c].mode = "full"
    /\ ~call[c].moved
    /\ rows' = OrderedBy(call[c].key, Selection(call[c].snap, LivePlaces(call[c].snap)))
    /\ missed' = [r \in Rows |-> missed[r] + (inserted[r] - call[c].inserted[r])]
    /\ Moved(c, TRUE)
    /\ overtaken' = TRUE
    /\ UNCHANGED <<projection, saved, usageVars, cacheVars, inserted, boundVars>>

\* A statement of the call's own SQL fails, by conflict or otherwise: it throws,
\* and a transaction is rolled back.
Fail(c) ==
    /\ call[c].at \in {"shape", "begin", "transaction", "copy", "replace", "insert"}
    /\ Goto(c, Idle)
    /\ UNCHANGED <<storeVars, usageVars, cacheVars, historyVars, boundVars>>

\* Mutant: the rows are counted again after the rewrite.
RecordLateCount(c) ==
    /\ At(c, "record")
    /\ optimized' = [order_by |-> call[c].key, row_count |-> Cardinality(LivePlaces(rows))]
    /\ Goto(c, Idle)
    /\ UNCHANGED <<storeVars, usageVars, registered, historyVars, boundVars>>

\* The end of RawOptimizeFunction.
Record(c) ==
    /\ At(c, "record")
    /\ optimized' = [order_by |-> call[c].key, row_count |-> call[c].count]
    /\ Goto(c, Idle)
    /\ UNCHANGED <<storeVars, usageVars, registered, historyVars, boundVars>>

--------------------------------------------------------------------------------
(* raw_project *)

\* RawProjectFunction up to the choice of the group set.  The call keeps the
\* table it resolved: gone is the size of that storage once it was replaced.
Pick(c) ==
    /\ Enter(c, "project")
    /\ \E g \in GroupSets : stats.sets[g] > 0
    /\ Goto(c, [at |-> "copy", group |-> Hottest(stats), gone |-> {}])
    /\ UNCHANGED <<storeVars, usageVars, cacheVars, historyVars, queries, restarts>>

\* The aggregation raw_project runs.
Aggregation(c) == [filters |-> {}, groups |-> call[c].group]

\* CREATE OR REPLACE TABLE ... AS SELECT, on a connection that has the global
\* setting.  It is a query like others: observed, or rewritten to read the very
\* projection that it replaces.
Copy(c) ==
    LET g == call[c].group
    IN /\ At(c, "copy")
       /\ \/ /\ projection' = [cols |-> g, counts |-> Aggregate(rows, g)]
             /\ CollectStats(Aggregation(c))
             /\ overtaken' = \E d \in Calls : call[d].at \in Steps("project") /\ call[d].gone # {}
          \/ /\ TRUE \in GlobalSettings /\ Serves(Aggregation(c))
             /\ projection' = [cols |-> g, counts |-> AggregateProjection(g)]
             /\ overtaken' = (overtaken \/ \E d \in Calls : call[d].at \in Steps("project")
                                                            /\ call[d].gone # {})
             /\ UNCHANGED usageVars
       /\ Goto(c, [call[c] EXCEPT !.at = "register"])
       /\ UNCHANGED <<rows, saved, cacheVars, inserted, missed, boundVars>>

\* It was planned, and observed, and failed.
CopyFails(c) ==
    /\ At(c, "copy")
    /\ CollectStats(Aggregation(c))
    /\ Goto(c, Idle)
    /\ UNCHANGED <<storeVars, cacheVars, historyVars, boundVars>>

\* The locked block at the end, with the row count as it is by then.
Register(c) ==
    /\ At(c, "register")
    /\ registered' = [group_set |-> call[c].group,
                      base_rows |-> IF call[c].gone = {} THEN Len(rows) ELSE Max(call[c].gone)]
    /\ Goto(c, Idle)
    /\ UNCHANGED <<storeVars, usageVars, optimized, historyVars, boundVars>>

--------------------------------------------------------------------------------
(* raw_stats_save and raw_stats_load *)

\* The snapshot under the lock.
Snapshot(c) ==
    /\ Enter(c, "save")
    /\ Goto(c, [at |-> "replace", stats |-> stats])
    /\ UNCHANGED <<storeVars, usageVars, cacheVars, historyVars, queries, restarts>>

\* CREATE OR REPLACE TABLE, committed on its own.
Replace(c) ==
    /\ At(c, "replace")
    /\ saved' = ZeroStats
    /\ Goto(c, [call[c] EXCEPT !.at = "insert"])
    /\ UNCHANGED <<rows, projection, usageVars, cacheVars, historyVars, boundVars>>

\* INSERT.  Rows of two saves are added up when they are loaded.
InsertStats(c) ==
    /\ At(c, "insert")
    /\ saved' = Add(saved, call[c].stats)
    /\ Goto(c, Idle)
    /\ UNCHANGED <<rows, projection, usageVars, cacheVars, historyVars, boundVars>>

\* raw_stats_load reads the table, at any time and any number of times.
ReadSaved(c) ==
    /\ Enter(c, "load")
    /\ saved # NoStats
    /\ Goto(c, [at |-> "merge", stats |-> saved])
    /\ UNCHANGED <<storeVars, usageVars, cacheVars, historyVars, queries, restarts>>

\* Mutant: the counts of a column are overwritten, those of a set added.
OverwriteUsage(c) ==
    /\ At(c, "merge")
    /\ stats' = [Add(stats, call[c].stats) EXCEPT !.usage = call[c].stats.usage]
    /\ Goto(c, Idle)
    /\ UNCHANGED <<storeVars, counting, observed, cacheVars, historyVars, boundVars>>

\* What was read is added, under the lock.
Load(c) ==
    /\ At(c, "merge")
    /\ stats' = Add(stats, call[c].stats)
    /\ Goto(c, Idle)
    /\ UNCHANGED <<storeVars, counting, observed, cacheVars, historyVars, boundVars>>

Next ==
    \/ \E r \in Rows : Insert(r)
    \/ \E q \in Queries : Query(q)
    \/ \E g \in GroupSets : CollectGroupSet(g)
    \/ \E c \in Calls :
        \/ Rank(c) \/ LastOptimize(c) \/ Shape(c) \/ Begin(c)
        \/ CommitTail(c) \/ CommitFull(c) \/ Fail(c) \/ Record(c)
        \/ Pick(c) \/ Copy(c) \/ CopyFails(c) \/ Register(c)
        \/ Snapshot(c) \/ Replace(c) \/ InsertStats(c)
        \/ ReadSaved(c) \/ Load(c)
    \/ Restart

Spec == Init /\ [][Next]_vars

--------------------------------------------------------------------------------
(* Properties *)

\* raw_optimize repeats no row and loses none, whatever is appended between its
\* statements and wherever it fails, but for those that are committed while the
\* transaction of a full rewrite is open.
RowsKept == \A r \in Rows : Occurrences(rows, r) + missed[r] = inserted[r]

\* When raw_optimize answers "noop" the rows it counted are in the order of its
\* key: the recorded outcome is never ahead of what was sorted.
NoopIsOrdered ==
    \A c \in Calls : At(c, "record") /\ call[c].mode = "noop" =>
        IsOrdered(call[c].key, SubSeq(rows, 1, call[c].count))

\* A query that is rewritten gets the answer of the base table: the staleness
\* token guarantees that a changed base table falls back to a full scan.
ServedIsFresh == \A q \in Queries : Serves(q) => AggregateProjection(q.groups) = Aggregate(rows, q.groups)

\* The token fails only where a row came between raw_project's copy and its
\* count, or raw_optimize replaced the table, and from then on through copies of a
\* copy until the base table is read again.
FreshUnlessOvertaken == ~overtaken => ServedIsFresh

\* Usage survives saves, failures between their statements, restarts and loads as
\* what it was: what is counted, in memory or in the table, was observed at some time
\* (how often is not kept, a load may count it again), and no set of columns is
\* counted more often than each of its columns, though a query counts the two under
\* the lock at different times.
UsageIsObserved ==
    /\ Within(stats, observed) /\ Agrees(stats)
    /\ saved # NoStats => Within(saved, observed) /\ Agrees(saved)
================================================================================
