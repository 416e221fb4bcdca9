------------------------------- MODULE MCGate -------------------------------
(***************************************************************************)
(* Candidates for the gate: families of two or three scopes for the name   *)
(* rules, and a family of statements for the other rules.                  *)
(***************************************************************************)
EXTENDS Gate

MCSchema == [orders |-> {"id", "rev"}, customers |-> {"id"}]

MCDenylisted == {"read_csv"}

Table(db, name, alias) == [db |-> db, name |-> name, alias |-> alias]

Refs == {Table("", n, a) : n \in {"orders", "customers", "ghost"}, a \in {"", "o"}}
          \cup {Table("", "", ""), Table("main", "orders", ""), Table("other", "orders", ""),
                Table("other", "ghost", "")}

\* At most two tables in a FROM clause, under different names.
Froms == {{}} \cup {{t} : t \in Refs}
           \cup {{Table("", "orders", a), u} : a \in {"", "o"}, u \in Refs}
DistinctFroms ==
    {f \in Froms : \A t, u \in f :
        (IF t.alias = "" THEN t.name ELSE t.alias) = (IF u.alias = "" THEN u.name ELSE u.alias)
            => t = u}

Columns == {{}} \cup {{c} : c \in [qual : {"o", "orders"}, name : {"id", "rev"}]}

Empty == [parent |-> 0, body |-> 0, correlated |-> FALSE, ctes |-> <<>>, recursive |-> FALSE,
          tables |-> {}, derived |-> {}, columns |-> {}, functions |-> {}, writes |-> FALSE]

Statement(scopes) == [root |-> "query", scopes |-> scopes, limit |-> NoLimit]

\* A query and a subquery in one of its expressions.
Subqueries ==
    {<<[Empty EXCEPT !.ctes = w, !.tables = f, !.columns = c],
       [Empty EXCEPT !.parent = 1, !.correlated = TRUE, !.tables = {t}, !.columns = d]>> :
       w \in {<<>>, <<"ghost">>}, f \in DistinctFroms, c \in Columns, t \in Refs, d \in Columns}

\* A query that selects from a derived table, and perhaps from a table too.
DerivedTables ==
    {<<[Empty EXCEPT !.tables = f, !.derived = {a}, !.columns = c],
       [Empty EXCEPT !.parent = 1, !.tables = {t}, !.columns = d]>> :
       f \in {{}, {Table("", "orders", "o")}}, a \in {"d", "orders"},
       c \in {{x} : x \in [qual : {"o", "d", "orders"}, name : {"id", "rev"}]},
       t \in Refs, d \in Columns}

\* A WITH of one or two CTEs, the first of which may be recursive, and what the
\* body of one of them and the query below it select from.
Ctes ==
    {<<[Empty EXCEPT !.ctes = w, !.recursive = r, !.tables = {t}],
       [Empty EXCEPT !.parent = 1, !.body = b, !.tables = {u}]>> :
       w \in {<<"ghost">>, <<"ghost", "spare">>, <<"spare", "ghost">>, <<"orders">>},
       r \in BOOLEAN, b \in 1 .. 2, t \in Refs, u \in Refs}

\* The two arms of a set operation, one with a WITH of its own.
Arms ==
    {<<Empty,
       [Empty EXCEPT !.parent = 1, !.ctes = w, !.tables = {t}, !.columns = c],
       [Empty EXCEPT !.parent = 1, !.tables = {u}]>> :
       w \in {<<>>, <<"ghost">>}, t \in Refs, u \in Refs, c \in Columns}

Parsed(stmts) == [kind |-> "parsed", stmts |-> stmts]

NameCandidates ==
    {Parsed(<<Statement(s)>>) : s \in Subqueries \cup DerivedTables \cup Ctes \cup Arms}

Limits == {NoLimit, OddLimit} \cup 0 .. (MaxRows + 1)

\* A query over a subquery, of which either may call a function or write.
Plain == Statement(<<[Empty EXCEPT !.tables = {Table("", "orders", "")}],
                     [Empty EXCEPT !.parent = 1, !.correlated = TRUE]>>)

Statements ==
    {[Plain EXCEPT !.root = r, !.limit = l, !.scopes[i].writes = w, !.scopes[j].functions = f,
                   !.scopes[1].tables = {Table("", t, "")}] :
        r \in {"query", "other"}, w \in BOOLEAN, i \in 1 .. 2, j \in 1 .. 2,
        f \in SUBSET {"sum", "read_csv"}, l \in Limits, t \in {"orders", "ghost"}}

FormCandidates ==
    {[kind |-> "blank"], [kind |-> "unparsable"], Parsed(<<>>)}
        \cup {Parsed(<<s>>) : s \in Statements}
        \cup {Parsed(<<Plain, s>>) : s \in {x \in Statements : x.limit = NoLimit}}

MCCandidates == NameCandidates \cup FormCandidates
=============================================================================
