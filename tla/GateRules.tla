------------------------------- MODULE GateRules -------------------------------
(***************************************************************************)
(* The SQL validation gate (app/validation).  The gate is pure: it is a    *)
(* function from a candidate and a schema to a verdict, and so it is a     *)
(* family of operators here.                                               *)
(*                                                                         *)
(* SQL text is abstracted to what the rules look at in sqlglot's tree: the *)
(* kind of the root, the outermost LIMIT, and the query scopes (the root   *)
(* and each SELECT below it) with the names, calls and writes of each.     *)
(* Scopes are listed in the breadth-first order of Expression.find_all, so *)
(* a scope comes after the one that encloses it.                           *)
(***************************************************************************)
EXTENDS Integers, Sequences, FiniteSetsExt, WarehouseSchema

CONSTANTS
    Denylisted,    \* DENYLISTED_FUNCTIONS and the dedicated ReadCSV node
    MaxRows,       \* settings.max_rows
    DefaultLimit,  \* settings.default_limit
    NoLimit,       \* the candidate has no LIMIT
    OddLimit       \* its LIMIT is not a plain number (LIMIT -1, LIMIT ALL, ...)

ASSUME GateAssumption ==
    /\ MaxRows \in Int
    /\ DefaultLimit \in Int
    /\ NoLimit \notin Int
    /\ OddLimit \notin Int
    /\ NoLimit # OddLimit

(***************************************************************************)
(* A schema is as in WarehouseSchema.  A candidate is blank, unparsable,   *)
(* or a sequence of statements.  A statement has                           *)
(*   root   : "query" (SELECT, set operation, parenthesised) or "other"    *)
(*   scopes : a sequence of scopes, the outermost first                    *)
(*   limit  : an Int, or NoLimit, or OddLimit (not a plain number)         *)
(* and a scope                                                             *)
(*   parent     : the index of the enclosing scope (0 for none)            *)
(*   body       : k if it is the body of its parent's k-th CTE, else 0     *)
(*   correlated : does it see the FROM names of its parent (a subquery in  *)
(*                an expression does, a derived table or a CTE does not)   *)
(*   ctes       : the names its WITH defines, in order                     *)
(*   recursive  : is that a WITH RECURSIVE                                 *)
(*   tables     : a set of [db, name, alias]                               *)
(*   derived    : the aliases of the subqueries in its FROM                *)
(*   columns    : a set of [qual, name]                                    *)
(*   functions  : the names validate_functions reads off function nodes    *)
(*   writes     : is there a write node                                    *)
(* "" stands for an absent schema qualifier (db), alias or column          *)
(* qualifier, and for the name of a table function.                        *)
(***************************************************************************)
\* Every scope comes after the one that encloses it.
IsNested(stmt) ==
    /\ Len(stmt.scopes) \in Nat /\ DOMAIN stmt.scopes = 1 .. Len(stmt.scopes)
    /\ \A i \in DOMAIN stmt.scopes : stmt.scopes[i].parent \in 0 .. i - 1

\* A statement has these fields and no other, nested scopes, and a LIMIT of one
\* of three kinds.
IsStatement(stmt) ==
    /\ stmt = [root |-> stmt.root, scopes |-> stmt.scopes, limit |-> stmt.limit]
    /\ IsNested(stmt)
    /\ stmt.limit \in Int \cup {NoLimit, OddLimit}

\* What parse_sql can make of the text it is given.
IsCandidate(sql) ==
    /\ sql.kind \in {"blank", "unparsable", "parsed"}
    /\ sql.kind = "parsed" => \A i \in 1 .. Len(sql.stmts) : IsStatement(sql.stmts[i])

ScopesOf(stmt) == DOMAIN stmt.scopes
TablesOf(stmt) == UNION {stmt.scopes[i].tables : i \in ScopesOf(stmt)}
ColumnsOf(stmt) == UNION {stmt.scopes[i].columns : i \in ScopesOf(stmt)}

Report(category, found) == IF found THEN {category} ELSE {}

ValidateNonEmpty(sql) == Report("empty_input", sql.kind = "blank")

\* parse_sql never raises: text that is no SQL is an outcome of its own, and the
\* empty segments between semicolons are no statements.
ParseFails(sql) == sql.kind = "unparsable"

ValidateSingleStatement(stmts) == Report("multiple_statements", Len(stmts) # 1)

ValidateStatementType(stmt) ==
    Report("non_select_statement",
           stmt.root # "query" \/ \E i \in ScopesOf(stmt) : stmt.scopes[i].writes)

CteNames(stmt) == UNION {Range(stmt.scopes[i].ctes) : i \in ScopesOf(stmt)}

\* Mutant: only the outermost scope is walked.
ValidateAllowlistShallow(stmt, schema) ==
    Report("unknown_table",
           \E t \in stmt.scopes[1].tables :
              t.name = "" \/ (t.name \notin CteNames(stmt) /\ ~HasTable(schema, t.name)))

\* The schema qualifier is not looked at: `other.orders` passes as `orders`.
ValidateAllowlist(stmt, schema) ==
    Report("unknown_table",
           \E t \in TablesOf(stmt) :
              t.name = "" \/ (t.name \notin CteNames(stmt) /\ ~HasTable(schema, t.name)))

\* alias_to_table: one dictionary for the whole statement, filled in
\* breadth-first order, so the last scope that uses an alias wins.  Aliases are
\* distinct within a scope.
Aliasing(stmt, a) ==
    {i \in ScopesOf(stmt) : \E t \in stmt.scopes[i].tables : a # "" /\ t.alias = a}

\* Mutant: aliases are not resolved.
AliasUnresolved(stmt, a) == a

AliasToTable(stmt, a) ==
    IF Aliasing(stmt, a) = {} THEN a
    ELSE (CHOOSE t \in stmt.scopes[Max(Aliasing(stmt, a))].tables : t.alias = a).name

ValidateColumns(stmt, schema) ==
    Report("unknown_column",
           \E c \in ColumnsOf(stmt) :
              /\ c.qual # ""
              /\ HasTable(schema, AliasToTable(stmt, c.qual))
              /\ ~HasColumn(schema, AliasToTable(stmt, c.qual), c.name))

ValidateFunctions(stmt) ==
    Report("disallowed_function",
           \E i \in ScopesOf(stmt) : stmt.scopes[i].functions \cap Denylisted # {})

StatementErrors(stmt, schema) ==
    ValidateStatementType(stmt) \cup ValidateAllowlist(stmt, schema)
        \cup ValidateColumns(stmt, schema) \cup ValidateFunctions(stmt)

\* Mutant: the executor's one extra row leaks into the bound of the gate.
ApplyLimitOneMore(stmt) ==
    [stmt EXCEPT !.limit =
        CASE @ = NoLimit  -> DefaultLimit
          [] @ = OddLimit -> MaxRows + 1
          [] OTHER        -> IF @ > MaxRows THEN MaxRows ELSE @]

\* Mutant: a LIMIT equal to MAX_ROWS is taken for one above it.
ApplyLimitStrict(stmt) ==
    [stmt EXCEPT !.limit =
        CASE @ = NoLimit  -> DefaultLimit
          [] @ = OddLimit -> MaxRows
          [] OTHER        -> IF @ >= MaxRows THEN MaxRows - 1 ELSE @]

ApplyLimit(stmt) ==
    [stmt EXCEPT !.limit =
        CASE @ = NoLimit  -> DefaultLimit
          [] @ = OddLimit -> MaxRows
          [] OTHER        -> IF @ > MaxRows THEN MaxRows ELSE @]

(***************************************************************************)
(* The verdict: a ValidationResult.  safeSql is a sequence so that None is *)
(* the empty one.                                                          *)
(***************************************************************************)
Reject(errors) == [approved |-> FALSE, errors |-> errors, safeSql |-> <<>>]
Approve(stmt) == [approved |-> TRUE, errors |-> {}, safeSql |-> <<stmt>>]

\* Mutant: the statement is bounded before it is judged, and kept.
ValidateBoundedFirst(stmt, schema) ==
    [approved |-> StatementErrors(stmt, schema) = {},
     errors   |-> StatementErrors(stmt, schema),
     safeSql  |-> <<ApplyLimit(stmt)>>]

ValidateStatement(stmt, schema) ==
    IF StatementErrors(stmt, schema) # {}
      THEN Reject(StatementErrors(stmt, schema))
      ELSE Approve(ApplyLimit(stmt))

Validate(sql, schema) ==
    IF ValidateNonEmpty(sql) # {} THEN Reject(ValidateNonEmpty(sql))
    ELSE IF ParseFails(sql)       THEN Reject({"parse_error"})
    ELSE IF ValidateSingleStatement(sql.stmts) # {}
                                  THEN Reject(ValidateSingleStatement(sql.stmts))
    ELSE ValidateStatement(sql.stmts[1], schema)
-----------------------------------------------------------------------------
(***************************************************************************)
(* The reference: DuckDB's name resolution, over statements in which every *)
(* name of a WITH and every alias of a FROM is distinct (it refuses the    *)
(* others).  LATERAL, and columns reached through a schema or a struct,    *)
(* are left out.                                                           *)
(***************************************************************************)
Enclosing(stmt, i) ==
    LET up[j \in ScopesOf(stmt)] ==
          {j} \cup (IF stmt.scopes[j].parent = 0 THEN {} ELSE up[stmt.scopes[j].parent])
    IN up[i]

\* The CTEs that the WITH above scope j lends it: all of them, but to the body
\* of one of them only those before it, and itself where it is recursive.
Lent(stmt, j) ==
    IF stmt.scopes[j].parent = 0 THEN {}
    ELSE LET above == stmt.scopes[stmt.scopes[j].parent]
             body  == stmt.scopes[j].body
         IN {above.ctes[k] : k \in {n \in DOMAIN above.ctes :
                body = 0 \/ n < body \/ (n = body /\ above.recursive)}}

VisibleCtes(stmt, i) ==
    Range(stmt.scopes[i].ctes) \cup UNION {Lent(stmt, j) : j \in Enclosing(stmt, i)}

IsCte(stmt, i, t) == t.db = "" /\ t.name # "" /\ t.name \in VisibleCtes(stmt, i)

\* introspect_schema lists the tables of the schema main, which is also where
\* an unqualified name is looked up.
InMain(t) == t.db \in {"", "main"}

InWarehouse(schema, t) == InMain(t) /\ HasTable(schema, t.name)

Exposes(t, q) == q = (IF t.alias = "" THEN t.name ELSE t.alias)

\* The scopes whose FROM names scope i sees: its own, and those above the
\* correlated scopes around it.
Seen(stmt, i) ==
    {i} \cup ({stmt.scopes[j].parent :
                  j \in {k \in Enclosing(stmt, i) : stmt.scopes[k].correlated}} \ {0})

BindingScopes(stmt, i, q) ==
    {j \in Seen(stmt, i) : \/ q \in stmt.scopes[j].derived
                           \/ \E t \in stmt.scopes[j].tables : Exposes(t, q)}

\* The columns a qualifier offers, as a set of sets: empty when the innermost
\* scope that exposes it does not mean a warehouse table by it.
Offered(stmt, schema, i, q) ==
    IF BindingScopes(stmt, i, q) = {} THEN {}
    ELSE LET j == Max(BindingScopes(stmt, i, q))
         IN {schema[t.name] : t \in {u \in stmt.scopes[j].tables :
                Exposes(u, q) /\ ~IsCte(stmt, j, u) /\ InWarehouse(schema, u)}}

UnknownTable(stmt, schema) ==
    \E i \in ScopesOf(stmt) : \E t \in stmt.scopes[i].tables :
        ~IsCte(stmt, i, t) /\ ~InWarehouse(schema, t)

UnknownColumn(stmt, schema) ==
    \E i \in ScopesOf(stmt) : \E c \in stmt.scopes[i].columns :
        c.qual # "" /\ \E cols \in Offered(stmt, schema, i, c.qual) : c.name \notin cols

\* Every qualifier denotes something in scope.
Bound(stmt) ==
    \A i \in ScopesOf(stmt) : \A c \in stmt.scopes[i].columns :
        c.qual # "" => BindingScopes(stmt, i, c.qual) # {}

\* Every table is known, and every qualifier denotes a table in scope that has
\* the column.
Resolves(stmt, schema) ==
    ~UnknownTable(stmt, schema) /\ ~UnknownColumn(stmt, schema) /\ Bound(stmt)

\* Tables are named on the search path, and the name of a CTE only where that
\* CTE is visible, or for a warehouse table.
NamesInScope(stmt, schema) ==
    \A i \in ScopesOf(stmt) : \A t \in stmt.scopes[i].tables :
        /\ InMain(t)
        /\ t.name \in CteNames(stmt) => IsCte(stmt, i, t) \/ HasTable(schema, t.name)

\* Statements in which one flat dictionary cannot differ from scoping: names are
\* used in scope, an alias stands for one table throughout, and neither a CTE
\* nor an alias, a derived table's included, has the name of a warehouse table.
PlainNames(stmt, schema) ==
    /\ NamesInScope(stmt, schema) /\ Bound(stmt)
    /\ CteNames(stmt) \cap DOMAIN schema = {}
    /\ \A t, u \in TablesOf(stmt) :
          t.alias # "" /\ (Exposes(u, t.alias) \/ u.name = t.alias) => u.name = t.name
    /\ \A t \in TablesOf(stmt) : t.alias # "" => ~HasTable(schema, t.alias)
    /\ \A i \in ScopesOf(stmt) : \A d \in stmt.scopes[i].derived :
          ~HasTable(schema, d) /\ \A t \in TablesOf(stmt) : t.alias # d
=============================================================================
