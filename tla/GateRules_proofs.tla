-------------------------- MODULE GateRules_proofs --------------------------
(***************************************************************************)
(* Lemmas about the gate as a function, for the proofs of the gate itself  *)
(* and of the pipeline behind it: for any candidate, any schema and any    *)
(* settings.  The last section compares the name rules with SQL scoping.   *)
(***************************************************************************)
EXTENDS GateRules, WellFoundedInduction, TLAPS

\* A candidate is approved only as a statement no rule complains about.
LEMMA ApprovalMeansNoErrors ==
    ASSUME NEW s, NEW schema, Validate(s, schema).approved
    PROVE  /\ StatementErrors(s.stmts[1], schema) = {}
           /\ Validate(s, schema) = Approve(ApplyLimit(s.stmts[1]))
<1>1. Validate(s, schema) = ValidateStatement(s.stmts[1], schema)
  BY DEF Validate, Reject
<1>2. QED
  BY <1>1 DEF ValidateStatement, Reject, Approve

\* Each rule reports its category exactly when it finds a violation.
LEMMA NoErrorsMeansNoViolation ==
    ASSUME NEW stmt, NEW schema, StatementErrors(stmt, schema) = {}
    PROVE  /\ stmt.root = "query"
           /\ \A i \in ScopesOf(stmt) : ~stmt.scopes[i].writes
           /\ \A i \in ScopesOf(stmt) : stmt.scopes[i].functions \cap Denylisted = {}
           /\ \A t \in TablesOf(stmt) :
                 t.name # "" /\ (t.name \in CteNames(stmt) \/ HasTable(schema, t.name))
<1>1. /\ ValidateStatementType(stmt) = {}
      /\ ValidateAllowlist(stmt, schema) = {}
      /\ ValidateFunctions(stmt) = {}
  BY DEF StatementErrors
<1>2. stmt.root = "query" /\ \A i \in ScopesOf(stmt) : ~stmt.scopes[i].writes
  BY <1>1 DEF ValidateStatementType, Report
<1>3. \A i \in ScopesOf(stmt) : stmt.scopes[i].functions \cap Denylisted = {}
  BY <1>1 DEF ValidateFunctions, Report
<1>4. \A t \in TablesOf(stmt) :
         t.name # "" /\ (t.name \in CteNames(stmt) \/ HasTable(schema, t.name))
  BY <1>1 DEF ValidateAllowlist, Report
<1>5. QED
  BY <1>2, <1>3, <1>4

\* An approved candidate has exactly one safe statement.
LEMMA ApprovedIsOne ==
    ASSUME NEW s, NEW schema, Validate(s, schema).approved
    PROVE  Validate(s, schema).safeSql = <<Validate(s, schema).safeSql[1]>>
<1>1. Validate(s, schema) = ValidateStatement(s.stmts[1], schema)
  BY DEF Validate, Reject
<1>2. Validate(s, schema) = Approve(ApplyLimit(s.stmts[1]))
  BY <1>1 DEF ValidateStatement, Reject, Approve
<1>3. QED
  BY <1>2 DEF Approve

\* What is approved was one parsed statement.
LEMMA ApprovedIsStatement ==
    ASSUME NEW s, NEW schema, IsCandidate(s), Validate(s, schema).approved
    PROVE  IsStatement(s.stmts[1])
<1>1. /\ ValidateNonEmpty(s) = {} /\ ~ParseFails(s)
      /\ ValidateSingleStatement(s.stmts) = {}
  BY DEF Validate, Reject
<1>2. s.kind = "parsed" /\ Len(s.stmts) = 1
  BY <1>1 DEF IsCandidate, ValidateNonEmpty, ParseFails, ValidateSingleStatement, Report
<1>3. QED
  BY <1>2 DEF IsCandidate

(***************************************************************************)
(* The bound of apply_limit.                                               *)
(***************************************************************************)
\* Min of a pair.
LEMMA MinOfTwo ==
    ASSUME NEW a \in Int, NEW b \in Int
    PROVE  Min({a, b}) = IF a > b THEN b ELSE a
  BY DEF Min

\* ApplyLimit replaces the limit by a number and nothing else.
LEMMA LimitApplied ==
    ASSUME NEW stmt, IsStatement(stmt)
    PROVE  /\ IsStatement(ApplyLimit(stmt))
           /\ [ApplyLimit(stmt) EXCEPT !.limit = stmt.limit] = stmt
           /\ stmt.limit = NoLimit => ApplyLimit(stmt).limit = DefaultLimit
           /\ stmt.limit = OddLimit => ApplyLimit(stmt).limit = MaxRows
           /\ stmt.limit \in Int =>
                 ApplyLimit(stmt).limit = IF stmt.limit > MaxRows THEN MaxRows ELSE stmt.limit
<1>1. /\ stmt = [root |-> stmt.root, scopes |-> stmt.scopes, limit |-> stmt.limit]
      /\ IsNested(stmt) /\ stmt.limit \in Int \cup {NoLimit, OddLimit}
  BY DEF IsStatement
<1> DEFINE bound == CASE stmt.limit = NoLimit  -> DefaultLimit
                      [] stmt.limit = OddLimit -> MaxRows
                      [] OTHER -> IF stmt.limit > MaxRows THEN MaxRows ELSE stmt.limit
<1>2. ApplyLimit(stmt) = [root |-> stmt.root, scopes |-> stmt.scopes, limit |-> bound]
  BY <1>1 DEF ApplyLimit
<1>3. /\ bound \in Int
      /\ stmt.limit = NoLimit => bound = DefaultLimit
      /\ stmt.limit = OddLimit => bound = MaxRows
      /\ stmt.limit \in Int => bound = IF stmt.limit > MaxRows THEN MaxRows ELSE stmt.limit
  BY <1>1, GateAssumption
<1> HIDE DEF bound
<1>4. IsStatement(ApplyLimit(stmt))
  BY <1>1, <1>2, <1>3 DEF IsStatement, IsNested
<1>5. [ApplyLimit(stmt) EXCEPT !.limit = stmt.limit] = stmt
  BY <1>1, <1>2
<1>6. QED
  BY <1>2, <1>3, <1>4, <1>5

\* So what is approved has a number for its LIMIT.
LEMMA SafeLimitIsNumber ==
    ASSUME NEW s, NEW schema, IsCandidate(s), Validate(s, schema).approved
    PROVE  Validate(s, schema).safeSql[1].limit \in Int
<1>1. IsStatement(s.stmts[1]) /\ Validate(s, schema).safeSql[1] = ApplyLimit(s.stmts[1])
  BY ApprovedIsStatement, ApprovalMeansNoErrors DEF Approve
<1>2. s.stmts[1].limit \in Int \cup {NoLimit, OddLimit}
  BY <1>1 DEF IsStatement
<1>3. QED
  BY <1>1, <1>2, LimitApplied, GateAssumption

\* No rule but apply_limit looks at the LIMIT.
LEMMA RulesIgnoreLimit ==
    ASSUME NEW stmt, NEW other, NEW schema,
           other.root = stmt.root, other.scopes = stmt.scopes
    PROVE  StatementErrors(other, schema) = StatementErrors(stmt, schema)
<1>1. /\ TablesOf(other) = TablesOf(stmt) /\ ColumnsOf(other) = ColumnsOf(stmt)
      /\ CteNames(other) = CteNames(stmt)
  BY DEF TablesOf, ColumnsOf, CteNames, ScopesOf
<1>2. ASSUME NEW a PROVE AliasToTable(other, a) = AliasToTable(stmt, a)
  <2>1. Aliasing(other, a) = Aliasing(stmt, a)
    BY DEF Aliasing, ScopesOf
  <2> DEFINE pick(tables) == CHOOSE t \in tables : t.alias = a
             named(s) == IF Aliasing(s, a) = {} THEN a
                         ELSE pick(s.scopes[Max(Aliasing(s, a))].tables).name
  <2>2. AliasToTable(other, a) = named(other) /\ AliasToTable(stmt, a) = named(stmt)
    BY DEF AliasToTable
  <2> HIDE DEF pick
  <2>3. named(other) = named(stmt)
    BY <2>1
  <2>4. QED
    BY <2>2, <2>3
<1>3. ValidateColumns(other, schema) = ValidateColumns(stmt, schema)
  <2> DEFINE bad(s, c) == /\ c.qual # ""
                          /\ HasTable(schema, AliasToTable(s, c.qual))
                          /\ ~HasColumn(schema, AliasToTable(s, c.qual), c.name)
  <2>1. ASSUME NEW c
        PROVE  bad(other, c) <=> bad(stmt, c)
    <3>1. AliasToTable(other, c.qual) = AliasToTable(stmt, c.qual)
      BY <1>2
    <3>2. QED
      BY <3>1
  <2>2. /\ ValidateColumns(other, schema)
             = Report("unknown_column", \E c \in ColumnsOf(other) : bad(other, c))
        /\ ValidateColumns(stmt, schema)
             = Report("unknown_column", \E c \in ColumnsOf(stmt) : bad(stmt, c))
    BY Zenon DEF ValidateColumns
  <2> HIDE DEF bad
  <2>3. (\E c \in ColumnsOf(other) : bad(other, c)) <=> (\E c \in ColumnsOf(stmt) : bad(stmt, c))
    BY <1>1, <2>1, Zenon
  <2>4. QED
    BY <2>2, <2>3 DEF Report
<1>4. ValidateAllowlist(other, schema) = ValidateAllowlist(stmt, schema)
  BY <1>1 DEF ValidateAllowlist
<1>5. /\ ValidateStatementType(other) = ValidateStatementType(stmt)
      /\ ValidateFunctions(other) = ValidateFunctions(stmt)
  BY DEF ValidateStatementType, ValidateFunctions, ScopesOf
<1>6. QED
  BY <1>3, <1>4, <1>5 DEF StatementErrors

\* A number that is within MAX_ROWS already is left as it is.
LEMMA LimitIdempotent ==
    ASSUME NEW stmt, IsStatement(stmt), DefaultLimit <= MaxRows
    PROVE  ApplyLimit(ApplyLimit(stmt)) = ApplyLimit(stmt)
<1> DEFINE once == ApplyLimit(stmt)
           twice == ApplyLimit(once)
<1>1. IsStatement(once) /\ IsStatement(twice)
  BY LimitApplied
<1>2. once.limit \in Int /\ once.limit <= MaxRows
  BY LimitApplied, GateAssumption DEF IsStatement
<1>3. twice.limit = once.limit
  BY <1>1, <1>2, LimitApplied, GateAssumption
<1>4. [twice EXCEPT !.limit = once.limit] = once
  BY <1>1, LimitApplied
<1>5. QED
  BY <1>1, <1>3, <1>4 DEF IsStatement
-----------------------------------------------------------------------------
(***************************************************************************)
(* The flat dictionaries of validate_allowlist and validate_columns        *)
(* against the scoping of SQL.  Both sides walk the scopes of a statement, *)
(* of which there may be any number, so their arguments are by induction.  *)
(***************************************************************************)
\* The natural numbers are well-founded, so a set that has 0 and with n also n + 1
\* has them all.
LEMMA SetInduction ==
    ASSUME NEW S, 0 \in S, \A n \in Nat : n \in S => n + 1 \in S
    PROVE  Nat \subseteq S
<1> DEFINE Missing == Nat \ S
<1>1. SUFFICES ASSUME Missing # {} PROVE FALSE
  OBVIOUS
<1>2. IsWellFoundedOn({p \in Nat \X Nat : p[1] < p[2]}, Nat)
  BY NatLessThanWellFounded DEF OpToRel
<1>3. PICK n \in Missing : \A m \in Missing : <<m, n>> \notin {p \in Nat \X Nat : p[1] < p[2]}
  BY <1>1, <1>2, WFMin
<1>4. \A m \in Missing : ~(m < n)
  BY <1>3
<1>5. n - 1 \in Nat /\ n - 1 < n /\ n - 1 + 1 = n
  OBVIOUS
<1>6. QED
  BY <1>4, <1>5

\* A bounded set of numbers that is not empty has a largest member.
LEMMA MaxIsMember ==
    ASSUME NEW n \in Nat, NEW S \in SUBSET (1 .. n), S # {}
    PROVE  Max(S) \in S /\ \A m \in S : m <= Max(S)
<1> DEFINE Good == {k \in Nat : \A T \in SUBSET (1 .. k) :
                        T # {} => \E x \in T : \A y \in T : x >= y}
<1>1. 0 \in Good
  <2>1. 1 .. 0 = {}
    OBVIOUS
  <2>2. QED
    BY <2>1
<1>2. ASSUME NEW k \in Nat, k \in Good PROVE k + 1 \in Good
  <2>1. SUFFICES ASSUME NEW T \in SUBSET (1 .. k + 1), T # {}
                 PROVE  \E x \in T : \A y \in T : x >= y
    OBVIOUS
  <2>2. CASE k + 1 \in T
    BY <2>2
  <2>3. CASE k + 1 \notin T
    <3>1. T \in SUBSET (1 .. k)
      BY <2>3
    <3>2. QED
      BY <1>2, <2>1, <3>1
  <2>4. QED
    BY <2>2, <2>3
<1>3. n \in Good
  <2> HIDE DEF Good
  <2>1. QED
    BY <1>1, <1>2, SetInduction
<1>4. \E x \in S : \A y \in S : x >= y
  BY <1>3
<1>5. Max(S) \in S /\ \A m \in S : Max(S) >= m
  BY <1>4 DEF Max
<1>6. QED
  BY <1>5

\* The chain of enclosing scopes, for each of the first n scopes of a statement.
IsChain(stmt, n, up) ==
    up = [j \in 1 .. n |->
            {j} \cup (IF stmt.scopes[j].parent = 0 THEN {} ELSE up[stmt.scopes[j].parent])]

LEMMA ChainExists ==
    ASSUME NEW stmt, IsNested(stmt), NEW n \in Nat, n <= Len(stmt.scopes)
    PROVE  \E up : IsChain(stmt, n, up)
<1> DEFINE Good == {k \in Nat : k <= Len(stmt.scopes) => \E up : IsChain(stmt, k, up)}
<1>1. 0 \in Good
  <2>1. IsChain(stmt, 0, [j \in {} |-> {}])
    BY DEF IsChain
  <2>2. QED
    BY <2>1
<1>2. ASSUME NEW k \in Nat, k \in Good PROVE k + 1 \in Good
  <2>1. SUFFICES ASSUME k + 1 <= Len(stmt.scopes)
                 PROVE  \E up : IsChain(stmt, k + 1, up)
    OBVIOUS
  <2>2. PICK up : IsChain(stmt, k, up)
    BY <1>2, <2>1 DEF IsNested
  <2> DEFINE next(f, j) == {j} \cup (IF stmt.scopes[j].parent = 0 THEN {}
                                     ELSE f[stmt.scopes[j].parent])
             more == [j \in 1 .. k + 1 |-> IF j = k + 1 THEN next(up, j) ELSE up[j]]
  <2>3. ASSUME NEW j \in 1 .. k + 1
        PROVE  more[j] = next(more, j)
    <3>1. stmt.scopes[j].parent \in 0 .. j - 1
      BY <2>1 DEF IsNested
    <3>2. stmt.scopes[j].parent # 0 => more[stmt.scopes[j].parent] = up[stmt.scopes[j].parent]
      BY <3>1
    <3>3. more[j] = next(up, j)
      <4>1. CASE j = k + 1
        BY <4>1
      <4>2. CASE j # k + 1
        <5>1. j \in 1 .. k
          BY <4>2
        <5>2. up[j] = next(up, j)
          BY <5>1, <2>2 DEF IsChain
        <5>3. QED
          BY <4>2, <5>2
      <4>3. QED
        BY <4>1, <4>2
    <3>4. QED
      BY <3>2, <3>3
  <2>4. IsChain(stmt, k + 1, more)
    <3>1. more = [j \in 1 .. k + 1 |-> more[j]]
      OBVIOUS
    <3> HIDE DEF more
    <3>2. QED
      BY <2>3, <3>1 DEF IsChain
  <2>5. QED
    BY <2>4
<1>3. QED
  <2> HIDE DEF Good
  <2>1. n \in Good
    BY <1>1, <1>2, SetInduction
  <2>2. QED
    BY <2>1 DEF Good

\* A scope encloses only scopes that come after it.
LEMMA ChainsLeadOut ==
    ASSUME NEW stmt, IsNested(stmt), NEW up, IsChain(stmt, Len(stmt.scopes), up)
    PROVE  \A i \in ScopesOf(stmt) : up[i] \subseteq ScopesOf(stmt)
<1> DEFINE Good == {k \in Nat : \A i \in 1 .. k : i \in ScopesOf(stmt) => up[i] \subseteq ScopesOf(stmt)}
<1>1. 0 \in Good
  OBVIOUS
<1>2. ASSUME NEW k \in Nat, k \in Good PROVE k + 1 \in Good
  <2>1. SUFFICES ASSUME k + 1 \in ScopesOf(stmt)
                 PROVE  up[k + 1] \subseteq ScopesOf(stmt)
    <3>1. \A i \in 1 .. k + 1 : i \in 1 .. k \/ i = k + 1
      OBVIOUS
    <3>2. QED
      BY <1>2, <3>1
  <2>2. stmt.scopes[k + 1].parent \in 0 .. k /\ ScopesOf(stmt) = 1 .. Len(stmt.scopes)
    BY <2>1 DEF IsNested, ScopesOf
  <2>3. up[k + 1] = {k + 1} \cup (IF stmt.scopes[k + 1].parent = 0 THEN {}
                                 ELSE up[stmt.scopes[k + 1].parent])
    BY <2>1, <2>2 DEF IsChain
  <2>4. stmt.scopes[k + 1].parent # 0 =>
           up[stmt.scopes[k + 1].parent] \subseteq ScopesOf(stmt)
    BY <1>2, <2>1, <2>2
  <2>5. QED
    BY <2>1, <2>3, <2>4
<1>3. Nat \subseteq Good
  <2> HIDE DEF Good
  <2>1. QED
    BY <1>1, <1>2, SetInduction
<1>4. QED
  BY <1>3 DEF IsNested, ScopesOf

LEMMA EnclosingAreScopes ==
    ASSUME NEW stmt, IsNested(stmt), NEW i \in ScopesOf(stmt)
    PROVE  Enclosing(stmt, i) \subseteq ScopesOf(stmt)
<1> DEFINE up == CHOOSE up : up = [j \in ScopesOf(stmt) |->
                    {j} \cup (IF stmt.scopes[j].parent = 0 THEN {} ELSE up[stmt.scopes[j].parent])]
<1>1. Enclosing(stmt, i) = up[i]
  BY DEF Enclosing
<1>2. IsChain(stmt, Len(stmt.scopes), up)
  <2>1. \E f : IsChain(stmt, Len(stmt.scopes), f)
    BY ChainExists DEF IsNested
  <2>2. ScopesOf(stmt) = 1 .. Len(stmt.scopes)
    BY DEF IsNested, ScopesOf
  <2>3. QED
    BY <2>1, <2>2 DEF IsChain
<1> HIDE DEF up
<1>3. QED
  BY <1>1, <1>2, ChainsLeadOut

(***************************************************************************)
(* validate_allowlist: one set of CTE names for the whole statement.       *)
(***************************************************************************)
\* The CTEs a scope sees are among them.
LEMMA VisibleAreCtes ==
    ASSUME NEW stmt, IsNested(stmt), NEW i \in ScopesOf(stmt)
    PROVE  VisibleCtes(stmt, i) \subseteq CteNames(stmt)
<1>1. ASSUME NEW j \in ScopesOf(stmt)
      PROVE  Lent(stmt, j) \subseteq CteNames(stmt)
  <2>1. CASE stmt.scopes[j].parent = 0
    BY <2>1 DEF Lent
  <2>2. CASE stmt.scopes[j].parent # 0
    <3> DEFINE p == stmt.scopes[j].parent
    <3>1. p \in ScopesOf(stmt)
      BY <2>2 DEF IsNested, ScopesOf
    <3>2. Lent(stmt, j) \subseteq Range(stmt.scopes[p].ctes)
      BY <2>2 DEF Lent, Range
    <3> HIDE DEF p
    <3>3. QED
      BY <3>1, <3>2 DEF CteNames
  <2>3. QED
    BY <2>1, <2>2
<1>2. Range(stmt.scopes[i].ctes) \subseteq CteNames(stmt)
  BY DEF CteNames
<1>3. QED
  BY <1>1, <1>2, EnclosingAreScopes DEF VisibleCtes

\* Where names are used in scope, what the allowlist accepts is what DuckDB finds
\* in the warehouse or among the CTEs, and nothing else.
LEMMA NamedIsKnown ==
    ASSUME NEW stmt, NEW schema, IsNested(stmt), ~HasTable(schema, ""),
           NamesInScope(stmt, schema),
           NEW i \in ScopesOf(stmt), NEW t \in stmt.scopes[i].tables
    PROVE  t.name # "" /\ (t.name \in CteNames(stmt) \/ HasTable(schema, t.name))
              <=> IsCte(stmt, i, t) \/ InWarehouse(schema, t)
<1>1. VisibleCtes(stmt, i) \subseteq CteNames(stmt)
  BY VisibleAreCtes
<1>2. InMain(t) /\ (t.name \in CteNames(stmt) => IsCte(stmt, i, t) \/ HasTable(schema, t.name))
  BY DEF NamesInScope
<1>3. QED
  BY <1>1, <1>2 DEF IsCte, InWarehouse

LEMMA AllowlistAgrees ==
    ASSUME NEW stmt, NEW schema, IsNested(stmt), ~HasTable(schema, ""),
           NamesInScope(stmt, schema)
    PROVE  ValidateAllowlist(stmt, schema) = Report("unknown_table", UnknownTable(stmt, schema))
<1> DEFINE bad(t) == t.name = "" \/ (t.name \notin CteNames(stmt) /\ ~HasTable(schema, t.name))
<1>1. ASSUME NEW i \in ScopesOf(stmt), NEW t \in stmt.scopes[i].tables
      PROVE  bad(t) <=> ~IsCte(stmt, i, t) /\ ~InWarehouse(schema, t)
  BY NamedIsKnown
<1>2. (\E t \in TablesOf(stmt) : bad(t)) <=> UnknownTable(stmt, schema)
  BY <1>1 DEF TablesOf, UnknownTable
<1>3. ValidateAllowlist(stmt, schema) = Report("unknown_table", \E t \in TablesOf(stmt) : bad(t))
  BY Zenon DEF ValidateAllowlist
<1> HIDE DEF bad
<1>4. QED
  BY <1>2, <1>3 DEF Report

(***************************************************************************)
(* validate_columns: one dictionary of aliases for the whole statement.    *)
(***************************************************************************)
\* An alias that is used is entered for a table that has it.
LEMMA AliasIsOfTable ==
    ASSUME NEW stmt, NEW a, IsNested(stmt), Aliasing(stmt, a) # {}
    PROVE  \E t \in TablesOf(stmt) :
              t.alias # "" /\ t.alias = a /\ AliasToTable(stmt, a) = t.name
<1> DEFINE m == Max(Aliasing(stmt, a))
           t == CHOOSE t \in stmt.scopes[m].tables : t.alias = a
<1>1. m \in Aliasing(stmt, a)
  <2>1. Len(stmt.scopes) \in Nat /\ Aliasing(stmt, a) \in SUBSET (1 .. Len(stmt.scopes))
    BY DEF IsNested, ScopesOf, Aliasing
  <2>2. QED
    BY <2>1, MaxIsMember
<1>2. m \in ScopesOf(stmt) /\ \E u \in stmt.scopes[m].tables : a # "" /\ u.alias = a
  BY <1>1 DEF Aliasing
<1>3. t \in stmt.scopes[m].tables /\ t.alias = a
  BY <1>2
<1>4. AliasToTable(stmt, a) = t.name
  BY DEF AliasToTable
<1> HIDE DEF t, m
<1>5. t \in TablesOf(stmt)
  BY <1>2, <1>3 DEF TablesOf
<1>6. QED
  BY <1>2, <1>3, <1>4, <1>5

\* Where names are plain, whatever table in scope a qualifier can denote, the
\* dictionary has its name.
LEMMA ExposedIsAliased ==
    ASSUME NEW stmt, NEW schema, NEW q, PlainNames(stmt, schema), IsNested(stmt)
    PROVE  \A u \in TablesOf(stmt) : Exposes(u, q) => u.name = AliasToTable(stmt, q)
<1>1. CASE Aliasing(stmt, q) = {}
  <2>1. AliasToTable(stmt, q) = q
    BY <1>1 DEF AliasToTable
  <2>2. \A u \in TablesOf(stmt) : u.alias # "" => u.alias # q
    BY <1>1 DEF Aliasing, TablesOf
  <2>3. QED
    BY <2>1, <2>2 DEF Exposes
<1>2. CASE Aliasing(stmt, q) # {}
  <2>1. PICK t \in TablesOf(stmt) : t.alias # "" /\ t.alias = q /\ AliasToTable(stmt, q) = t.name
    BY <1>2, AliasIsOfTable
  <2>2. QED
    BY <2>1 DEF PlainNames
<1>3. QED
  BY <1>1, <1>2

\* A derived table's alias is no entry of the dictionary, and no table's name.
LEMMA DerivedIsUnlisted ==
    ASSUME NEW stmt, NEW schema, IsNested(stmt), PlainNames(stmt, schema),
           NEW i \in ScopesOf(stmt), NEW d \in stmt.scopes[i].derived
    PROVE  AliasToTable(stmt, d) = d /\ ~HasTable(schema, d)
<1>1. ~HasTable(schema, d) /\ \A t \in TablesOf(stmt) : t.alias # d
  BY DEF PlainNames
<1>2. Aliasing(stmt, d) = {}
  BY <1>1, AliasIsOfTable
<1>3. QED
  BY <1>1, <1>2 DEF AliasToTable

\* The scopes that bind a qualifier are scopes of the statement.
LEMMA BindingAreScopes ==
    ASSUME NEW stmt, IsNested(stmt), NEW i \in ScopesOf(stmt), NEW q
    PROVE  BindingScopes(stmt, i, q) \subseteq ScopesOf(stmt)
<1>1. ASSUME NEW j \in Enclosing(stmt, i), stmt.scopes[j].parent # 0
      PROVE  stmt.scopes[j].parent \in ScopesOf(stmt)
  BY <1>1, EnclosingAreScopes DEF IsNested, ScopesOf
<1>2. Seen(stmt, i) \subseteq ScopesOf(stmt)
  BY <1>1 DEF Seen
<1>3. QED
  BY <1>2 DEF BindingScopes

\* So a qualifier offers the columns of its entry in the dictionary.
LEMMA OfferedIsAliased ==
    ASSUME NEW stmt, NEW schema, IsNested(stmt), PlainNames(stmt, schema),
           NEW i \in ScopesOf(stmt), NEW c \in stmt.scopes[i].columns, c.qual # ""
    PROVE  Offered(stmt, schema, i, c.qual) =
             IF HasTable(schema, AliasToTable(stmt, c.qual))
               THEN {schema[AliasToTable(stmt, c.qual)]} ELSE {}
<1> DEFINE q == c.qual
           real == AliasToTable(stmt, q)
           j == Max(BindingScopes(stmt, i, q))
           named == {u \in stmt.scopes[j].tables :
                        Exposes(u, q) /\ ~IsCte(stmt, j, u) /\ InWarehouse(schema, u)}
<1>1. BindingScopes(stmt, i, q) # {}
  BY DEF PlainNames, Bound
<1>2. Offered(stmt, schema, i, q) = {schema[t.name] : t \in named}
  BY <1>1 DEF Offered
<1>3. j \in BindingScopes(stmt, i, q) /\ j \in ScopesOf(stmt)
  <2>1. BindingScopes(stmt, i, q) \subseteq ScopesOf(stmt)
    BY BindingAreScopes
  <2>2. Len(stmt.scopes) \in Nat /\ BindingScopes(stmt, i, q) \in SUBSET (1 .. Len(stmt.scopes))
    BY <2>1 DEF IsNested, ScopesOf
  <2>3. QED
    BY <1>1, <2>1, <2>2, MaxIsMember
<1>4. \A t \in stmt.scopes[j].tables : t \in TablesOf(stmt)
  BY <1>3 DEF TablesOf
<1>5. \A t \in stmt.scopes[j].tables : Exposes(t, q) => t.name = real
  BY <1>4, ExposedIsAliased
<1>6. CASE HasTable(schema, real)
  <2>1. q \notin stmt.scopes[j].derived
    BY <1>3, <1>6, DerivedIsUnlisted
  <2>2. PICK u \in stmt.scopes[j].tables : Exposes(u, q)
    BY <1>3, <2>1 DEF BindingScopes
  <2>3. ~IsCte(stmt, j, u) /\ InWarehouse(schema, u)
    <3>1. VisibleCtes(stmt, j) \subseteq CteNames(stmt)
      BY <1>3, VisibleAreCtes
    <3>2. u.name \in DOMAIN schema
      BY <2>2, <1>5, <1>6 DEF HasTable
    <3>3. CteNames(stmt) \cap DOMAIN schema = {} /\ InMain(u)
      BY <1>3, <2>2 DEF PlainNames, NamesInScope
    <3>4. QED
      BY <3>1, <3>2, <3>3 DEF IsCte, InWarehouse, HasTable
  <2>4. u \in named
    BY <2>2, <2>3
  <2>5. \A t \in named : t.name = real
    BY <1>5
  <2> HIDE DEF named, real, q
  <2>6. {schema[t.name] : t \in named} = {schema[real]}
    BY <2>4, <2>5
  <2>7. QED
    BY <2>6, <1>2, <1>6 DEF real, q
<1>7. CASE ~HasTable(schema, real)
  <2>1. named = {}
    BY <1>5, <1>7 DEF InWarehouse
  <2>2. QED
    BY <2>1, <1>2, <1>7
<1>8. QED
  BY <1>6, <1>7

LEMMA ColumnsAgree ==
    ASSUME NEW stmt, NEW schema, IsNested(stmt), PlainNames(stmt, schema)
    PROVE  ValidateColumns(stmt, schema) = Report("unknown_column", UnknownColumn(stmt, schema))
<1> DEFINE bad(c) == /\ c.qual # ""
                     /\ HasTable(schema, AliasToTable(stmt, c.qual))
                     /\ ~HasColumn(schema, AliasToTable(stmt, c.qual), c.name)
           unknown(i, c) == c.qual # "" /\ \E cols \in Offered(stmt, schema, i, c.qual) : c.name \notin cols
<1>1. ASSUME NEW i \in ScopesOf(stmt), NEW c \in stmt.scopes[i].columns
      PROVE  bad(c) <=> unknown(i, c)
  <2>1. CASE c.qual = ""
    BY <2>1
  <2>2. CASE c.qual # ""
    <3>1. Offered(stmt, schema, i, c.qual) =
             IF HasTable(schema, AliasToTable(stmt, c.qual))
               THEN {schema[AliasToTable(stmt, c.qual)]} ELSE {}
      BY <2>2, OfferedIsAliased
    <3>2. QED
      BY <2>2, <3>1 DEF HasColumn
  <2>3. QED
    BY <2>1, <2>2
<1>2. /\ ValidateColumns(stmt, schema) = Report("unknown_column", \E c \in ColumnsOf(stmt) : bad(c))
      /\ UnknownColumn(stmt, schema)
            <=> \E i \in ScopesOf(stmt) : \E c \in stmt.scopes[i].columns : unknown(i, c)
  BY Zenon DEF ValidateColumns, UnknownColumn
<1> HIDE DEF bad, unknown
<1>3. (\E c \in ColumnsOf(stmt) : bad(c)) <=> UnknownColumn(stmt, schema)
  BY <1>1, <1>2 DEF ColumnsOf
<1>4. QED
  BY <1>2, <1>3 DEF Report
============================================================================
