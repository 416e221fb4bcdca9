------------------------------- MODULE Metadata -------------------------------
(***************************************************************************)
(* The authored structural metadata (app/metadata/metadata.py): its drift  *)
(* report against a schema, and what it adds to the system prompt          *)
(* (app/semantic/grounding.py).                                            *)
(*                                                                         *)
(* A catalog is [facts, dimensions], two sets of records:                  *)
(*   a fact       [table, timeKey, measures, joins], where a join is       *)
(*                [dimension, factKey, dimensionKey];                      *)
(*   a dimension  [table, key].                                            *)
(* A column reference is a name or the sentinel.  Prose is left out.       *)
(***************************************************************************)
EXTENDS WarehouseSchema

CONSTANT Unresolved  \* the sentinel UNRESOLVED, no column's name

JoinColumns(f, j) == {<<f.table, j.factKey>>, <<j.dimension, j.dimensionKey>>}

\* The joins whose dimension exists; `continue` skips the keys of the others.
JoinsFound(f, schema) == {j \in f.joins : HasTable(schema, j.dimension)}

\* The references check_col sees.  A missing table hides all of them.
FactColumns(f, schema) ==
    IF ~HasTable(schema, f.table) THEN {}
    ELSE {<<f.table, c>> : c \in {f.timeKey} \cup f.measures}
         \cup UNION {JoinColumns(f, j) : j \in JoinsFound(f, schema)}

DimensionColumns(d, schema) ==
    IF ~HasTable(schema, d.table) THEN {} ELSE {<<d.table, d.key>>}

ObjectReport(t, columns, joinIssues, schema) ==
    [table      |-> t,
     exists     |-> HasTable(schema, t),
     missing    |-> {k \in columns : k[2] # Unresolved /\ ~HasColumn(schema, k[1], k[2])},
     unresolved |-> {k \in columns : k[2] = Unresolved},
     joinIssues |-> joinIssues]

FactReport(f, schema) ==
    ObjectReport(f.table, FactColumns(f, schema),
                 IF HasTable(schema, f.table)
                   THEN {j.dimension : j \in f.joins \ JoinsFound(f, schema)} ELSE {},
                 schema)

DimensionReport(d, schema) ==
    ObjectReport(d.table, DimensionColumns(d, schema), {}, schema)

\* Mutant: a column that is missing is forgotten.
StatusColumnsForgotten(o) ==
    IF ~o.exists \/ o.joinIssues # {} THEN "missing"
    ELSE IF o.unresolved # {} THEN "unresolved" ELSE "ok"

Status(o) ==
    IF ~o.exists \/ o.missing # {} \/ o.joinIssues # {} THEN "missing"
    ELSE IF o.unresolved # {} THEN "unresolved" ELSE "ok"

ReportOf(catalog, schema) ==
    {FactReport(f, schema) : f \in catalog.facts}
      \cup {DimensionReport(d, schema) : d \in catalog.dimensions}

HasErrors(report) == \E o \in report : Status(o) = "missing"
HasUnresolved(report) == \E o \in report : Status(o) = "unresolved"
IsShippable(report) == ~HasErrors(report) /\ ~HasUnresolved(report)
-------------------------------------------------------------------------------
(***************************************************************************)
(* What to_prompt_text names.  A join with an unresolved key still names   *)
(* its dimension, but no column of either side.                            *)
(***************************************************************************)
Resolved(columns) == {k \in columns : k[2] # Unresolved}

JoinText(f, j) ==
    IF j.factKey # Unresolved /\ j.dimensionKey # Unresolved THEN JoinColumns(f, j) ELSE {}

FactText(f) ==
    Resolved({<<f.table, c>> : c \in {f.timeKey} \cup f.measures})
      \cup UNION {JoinText(f, j) : j \in f.joins}

ColumnsNamed(catalog) ==
    Resolved({<<d.table, d.key>> : d \in catalog.dimensions})
      \cup UNION {FactText(f) : f \in catalog.facts}

TablesNamed(catalog) ==
    {f.table : f \in catalog.facts} \cup {d.table : d \in catalog.dimensions}
      \cup UNION {{j.dimension : j \in f.joins} : f \in catalog.facts}

\* build_grounding_context: the schema, then the structural guidance.
Grounding(schema, catalog) ==
    [tables  |-> DOMAIN schema \cup TablesNamed(catalog),
     columns |-> SchemaText(schema) \cup ColumnsNamed(catalog)]

\* The prompt tells nothing but what the warehouse has.
Grounded(prompt, schema) ==
    /\ \A t \in prompt.tables : HasTable(schema, t)
    /\ \A k \in prompt.columns : HasColumn(schema, k[1], k[2])
-------------------------------------------------------------------------------
(***************************************************************************)
(* Drift, defined without the report: a table the catalog names is gone, a *)
(* field is unresolved, or a column is not where the catalog has it.       *)
(***************************************************************************)
References(catalog) ==
    {<<d.table, d.key>> : d \in catalog.dimensions}
      \cup UNION {{<<f.table, c>> : c \in {f.timeKey} \cup f.measures}
                    \cup UNION {JoinColumns(f, j) : j \in f.joins} : f \in catalog.facts}

Aligned(catalog, schema) ==
    /\ \A t \in TablesNamed(catalog) : HasTable(schema, t)
    /\ \A k \in References(catalog) : k[2] # Unresolved /\ HasColumn(schema, k[1], k[2])
===============================================================================
