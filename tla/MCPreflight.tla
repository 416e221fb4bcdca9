----------------------------- MODULE MCPreflight -----------------------------
(***************************************************************************)
(* The instance of Preflight for TLC: a small star schema, two catalogs    *)
(* for it, and an environment for each way in which one can be wrong.      *)
(***************************************************************************)
EXTENDS Preflight

Good == [key |-> "set", maxRows |-> 3, defaultLimit |-> 2, absent |-> {}, python |-> TRUE]

MCEnvironments ==
    {Good,
     [Good EXCEPT !.key = "unset"], [Good EXCEPT !.key = "blank"],
     [Good EXCEPT !.maxRows = Garbage], [Good EXCEPT !.maxRows = 0, !.key = "unset"],
     [Good EXCEPT !.maxRows = 3, !.defaultLimit = Unset, !.key = "unset"],
     [Good EXCEPT !.absent = {"python-dotenv"}], [Good EXCEPT !.absent = {"duckdb"}],
     [Good EXCEPT !.absent = {"uvicorn"}, !.key = "unset"],
     [Good EXCEPT !.python = FALSE, !.key = "unset"]}

Orders(measures, time) ==
    [table |-> "orders", timeKey |-> time, measures |-> measures,
     joins |-> {[dimension |-> "dates", factKey |-> "date", dimensionKey |-> "date"]}]

\* The dimension of the join is described by the join alone.
Catalog(time) ==
    [facts |-> {Orders({"revenue"}, time)}, dimensions |-> {[table |-> "regions", key |-> "id"]}]

MCCatalogs == {Catalog("date"), Catalog(Unresolved)}

Certified == [orders |-> {"id", "date", "revenue"}, dates |-> {"date"}, regions |-> {"id"}]
Without(t) == [u \in DOMAIN Certified \ {t} |-> Certified[u]]

MCSchemaOf ==
    [certified |-> Certified, renamed |-> [Certified EXCEPT !["dates"] = {"day"}],
     noDates |-> Without("dates"), noRegions |-> Without("regions")]
MCContents == DOMAIN MCSchemaOf
==============================================================================
