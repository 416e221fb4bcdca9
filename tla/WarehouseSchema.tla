--------------------------- MODULE WarehouseSchema ---------------------------
(***************************************************************************)
(* The introspected schema and its lookups (app/warehouse/schema.py): a    *)
(* function from table names to their columns.  Names are in lower case,   *)
(* as the lookups make them.                                               *)
(***************************************************************************)
HasTable(schema, t) == t \in DOMAIN schema
HasColumn(schema, t, c) == HasTable(schema, t) /\ c \in schema[t]

\* The columns that to_prompt_text lists, table by table.
SchemaText(schema) == UNION {{<<t, c>> : c \in schema[t]} : t \in DOMAIN schema}
==============================================================================
