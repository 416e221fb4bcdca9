--------------------------------- MODULE Gate ---------------------------------
(***************************************************************************)
(* One candidate through the gate of GateRules.  The state is the          *)
(* candidate and its verdict, so that TLC enumerates candidates.           *)
(***************************************************************************)
EXTENDS GateRules

CONSTANTS Candidates, Schema

ASSUME CandidateAssumption == \A c \in Candidates : IsCandidate(c)

\* information_schema names its tables; "" is the name of a table function.
ASSUME SchemaAssumption == ~HasTable(Schema, "")

VARIABLES sql, verdict

vars == <<sql, verdict>>

NoVerdict == [approved |-> FALSE, errors |-> {}, safeSql |-> <<>>]

Init == sql \in Candidates /\ verdict = NoVerdict

Judge ==
    /\ verdict = NoVerdict
    /\ verdict' = Validate(sql, Schema)
    /\ UNCHANGED sql

Next == Judge

Spec == Init /\ [][Next]_vars
-----------------------------------------------------------------------------
Decided == verdict # NoVerdict
Single == sql.kind = "parsed" /\ Len(sql.stmts) = 1
Query == sql.stmts[1]
Safe == verdict.safeSql[1]

Categories == {"empty_input", "parse_error", "multiple_statements",
               "non_select_statement", "unknown_table", "unknown_column",
               "disallowed_function"}

\* The verdict is approved with one bounded statement, or rejected with reasons
\* (ValidationResult.reject refuses an empty list).
TypeOK ==
    /\ verdict.errors \subseteq Categories
    /\ Decided => (verdict.approved <=> verdict.errors = {})
    /\ Len(verdict.safeSql) = (IF verdict.approved THEN 1 ELSE 0)

\* On statements whose names are used plainly, the flat alias dictionary of
\* validate_columns and the global CTE set of validate_allowlist give exactly
\* the verdict of SQL scoping: nothing unknown passes, nothing known is refused.
AgreesWithScoping ==
    Decided /\ Single /\ PlainNames(Query, Schema) =>
        /\ "unknown_table" \in verdict.errors <=> UnknownTable(Query, Schema)
        /\ "unknown_column" \in verdict.errors <=> UnknownColumn(Query, Schema)

\* Where tables are named on the search path and CTEs where they are visible,
\* an approved statement reads warehouse tables only, through whatever CTEs it
\* defines; and whatever the names, no scope of it writes or calls a denylisted
\* function.  One bad node in any scope, however deep, is fatal.  (The premise is
\* needed: rules.py looks at the name alone, so other.orders is taken for orders,
\* and information_schema.x for a CTE x.)
ApprovedIsClean ==
    verdict.approved =>
        /\ NamesInScope(Query, Schema) => ~UnknownTable(Query, Schema)
        /\ Query.root = "query"
        /\ \A i \in ScopesOf(Query) :
              ~Query.scopes[i].writes /\ Query.scopes[i].functions \cap Denylisted = {}

\* The safe statement is the candidate with another LIMIT: never more than the
\* setting that applies, and a plain number is only ever cut to MAX_ROWS.  (A
\* LIMIT that is no plain number, as LIMIT 2+3 or FETCH FIRST 5 ROWS ONLY,
\* becomes MAX_ROWS even where it asked for fewer rows.)
LimitIsBounded ==
    verdict.approved =>
        /\ [Safe EXCEPT !.limit = Query.limit] = Query
        /\ Safe.limit <= IF Query.limit = NoLimit THEN DefaultLimit ELSE MaxRows
        /\ Query.limit \in Int => Safe.limit = Min({Query.limit, MaxRows})

\* The gate has nothing to say about its own output: judged again, the safe
\* statement is approved unchanged (given settings that agree).
SafeIsFixpoint ==
    verdict.approved /\ DefaultLimit <= MaxRows =>
        Validate([kind |-> "parsed", stmts |-> <<Safe>>], Schema) = verdict

(***************************************************************************)
(* Statements of the documentation that the code does not meet.            *)
(***************************************************************************)
\* gate.py: qualified columns must exist.  (The flat alias dictionary of
\* validate_columns looks an outer alias up in the table of an inner one.)
QualifiedColumnsExist ==
    verdict.approved => ~UnknownColumn(Query, Schema)
=============================================================================
