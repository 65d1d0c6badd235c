------------------------------ MODULE MCAppendPool ------------------------------
(***************************************************************************)
(* Instances of AppendPool for TLC.                                        *)
(***************************************************************************)
EXTENDS AppendPool

CONSTANTS c1, c2

Column(n, w) == [name |-> n, width |-> w]

\* Batch 2 adds a column; batch 3 widens the first and adds another.
MCContent == <<
    <<Column("a", 0)>>,
    <<Column("a", 0), Column("b", 0)>>,
    <<Column("c", 0), Column("a", 1)>>,
    <<>>,
    <<Column("a", 0)>> >>

Split(s, t) == [c \in Consumers |-> IF c = c1 THEN s ELSE t]
MCAssignments == {Split(<<1, 2, 4>>, <<5, 3>>), Split(<<4, 1, 2, 5, 3>>, <<>>)}
MCTables == {<<>>, <<Column("a", 0)>>}
================================================================================
