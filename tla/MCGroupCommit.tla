----------------------------- MODULE MCGroupCommit -----------------------------
(***************************************************************************)
(* Instances of GroupCommit for TLC.  "events", "Events" and "main.events" *)
(* all name one table: the first two are equal to a case-insensitive set,  *)
(* the third is a qualified alias that only the catalog resolves.          *)
(***************************************************************************)
EXTENDS GroupCommit, TLC

CONSTANTS events, Events, main_events

Lower(t) == IF t = Events THEN events ELSE t

MCFold == [t \in Targets |-> Lower(t)]
MCTableOf == [t \in Targets |-> events]

RequestSymmetry == Permutations(Requests)
================================================================================
