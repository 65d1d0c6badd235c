-------------------------------- MODULE MCServer --------------------------------
(***************************************************************************)
(* Instances of Server for TLC: a session on each of two databases, one    *)
(* query, one ingest and one export.                                       *)
(***************************************************************************)
EXTENDS Server

CONSTANTS query, ingest, export, s1, s2, d1, d2, secret, none

MCDatabaseOf == [t \in Sessions |-> IF t = s1 THEN d1 ELSE d2]
MCKind == [r \in Requests |-> IF r = query THEN "query"
                              ELSE IF r = ingest THEN "ingest" ELSE "export"]
MCSends == [r \in Requests |-> IF r = ingest THEN none ELSE secret]
MCModes == {[token |-> secret, async |-> TRUE], [token |-> none, async |-> FALSE]}
================================================================================
