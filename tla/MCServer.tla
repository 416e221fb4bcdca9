------------------------------ MODULE MCServer ------------------------------
(***************************************************************************)
(* Instance of Server.  Requests are interchangeable, so it is enough to   *)
(* assign the kinds in one order.  Before DuckDB a runaway does whatever   *)
(* another question does, so one other question is enough; and the kinds   *)
(* that only pass through come up one at a time.                           *)
(***************************************************************************)
EXTENDS Server

MCOrder == [ask |-> 1, runaway |-> 2, ready |-> 3, health |-> 4, invalid |-> 5]

AtMost(n, k, kinds) == Cardinality({r \in Requests : k[r] \in kinds}) <= n

MCWorkloads ==
    {k \in [Requests -> Kinds] :
        /\ \A r, s \in Requests : r < s => MCOrder[k[r]] <= MCOrder[k[s]]
        /\ AtMost(2, k, {"runaway"}) /\ AtMost(2, k, {"ready"})
        /\ AtMost(1, k, {"ask"}) /\ AtMost(1, k, {"health", "invalid"})}
=============================================================================
