----------------------------- MODULE MCPipeline -----------------------------
(***************************************************************************)
(* Instances of Pipeline: a warehouse that drifts from `certified` (many   *)
(* rows) to `drifted` (one column gone, few rows) or goes missing, and a   *)
(* model that proposes good, bounded, hallucinated, endless and blank SQL. *)
(***************************************************************************)
EXTENDS Pipeline

MCContents == {"certified", "drifted"}
MCSchemaOf == [certified |-> [orders |-> {"id", "rev"}], drifted |-> [orders |-> {"id"}]]
MCRowsOf == [certified |-> 5, drifted |-> 1]

Scope == [parent |-> 0, body |-> 0, correlated |-> FALSE, ctes |-> <<>>, recursive |-> FALSE,
          tables |-> {}, derived |-> {}, columns |-> {}, functions |-> {}, writes |-> FALSE]

Parsed(scopes, limit) ==
    [kind |-> "parsed", stmts |-> <<[root |-> "query", scopes |-> scopes, limit |-> limit]>>]

Select(table, column, limit) ==
    Parsed(<<[Scope EXCEPT !.tables = {[db |-> "", name |-> table, alias |-> "t"]},
                           !.columns = {[qual |-> "t", name |-> column]}]>>, limit)

\* WITH RECURSIVE n AS (SELECT 1 UNION ALL SELECT 1 FROM n) SELECT count(*) FROM n
FromN == {[db |-> "", name |-> "n", alias |-> ""]}
Counting ==
    Parsed(<<[Scope EXCEPT !.ctes = <<"n">>, !.recursive = TRUE, !.tables = FromN],
             [Scope EXCEPT !.parent = 1, !.body = 1],
             [Scope EXCEPT !.parent = 2],
             [Scope EXCEPT !.parent = 2, !.tables = FromN]>>, 1)

MCProposals == {Select("orders", "id", NoLimit), Select("orders", "rev", 9),
                Select("orders", "id", 1), Select("ghost", "id", NoLimit),
                Counting, [kind |-> "blank"]}

MCEndless == {ApplyLimit(Counting.stmts[1])}
=============================================================================
