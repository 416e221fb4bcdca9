----------------------------- MODULE Gate_proofs -----------------------------
(***************************************************************************)
(* Proofs about the gate, for any set of candidates (any number of scopes, *)
(* tables and columns), any schema and any settings.                       *)
(***************************************************************************)
EXTENDS Gate, GateRules_proofs

\* The recorded verdict is the gate's verdict on the candidate.
Faithful == verdict = NoVerdict \/ verdict = Validate(sql, Schema)

LEMMA VerdictIsFaithful == Spec => []Faithful
<1>1. Init => Faithful
  BY DEF Init, Faithful
<1>2. Faithful /\ [Next]_vars => Faithful'
  BY DEF Faithful, Next, Judge, vars
<1>3. QED
  BY <1>1, <1>2, PTL DEF Spec

(***************************************************************************)
(* The verdict has its shape, whatever the candidate: one safe statement   *)
(* and no error, or an error and nothing to run.                           *)
(***************************************************************************)
\* Every rule reports its own category or nothing.
LEMMA StatementErrorsAreCategories ==
    ASSUME NEW stmt, NEW schema
    PROVE  StatementErrors(stmt, schema) \subseteq Categories
<1>1. /\ ValidateStatementType(stmt) \subseteq Categories
      /\ ValidateAllowlist(stmt, schema) \subseteq Categories
      /\ ValidateColumns(stmt, schema) \subseteq Categories
      /\ ValidateFunctions(stmt) \subseteq Categories
  BY DEF ValidateStatementType, ValidateAllowlist, ValidateColumns, ValidateFunctions,
         Report, Categories
<1>2. QED
  BY <1>1 DEF StatementErrors

WellFormed(v) ==
    /\ v.errors \subseteq Categories
    /\ v.approved <=> v.errors = {}
    /\ Len(v.safeSql) = (IF v.approved THEN 1 ELSE 0)

LEMMA RejectIsWellFormed ==
    ASSUME NEW errors, errors \subseteq Categories, errors # {}
    PROVE  WellFormed(Reject(errors))
  BY DEF Reject, WellFormed

LEMMA ValidateIsWellFormed ==
    ASSUME NEW s, NEW schema
    PROVE  WellFormed(Validate(s, schema))
<1>1. CASE ValidateNonEmpty(s) # {}
  BY <1>1, RejectIsWellFormed DEF Validate, ValidateNonEmpty, Report, Categories
<1>2. CASE ValidateNonEmpty(s) = {} /\ ParseFails(s)
  BY <1>2, RejectIsWellFormed DEF Validate, Categories
<1>3. CASE ValidateNonEmpty(s) = {} /\ ~ParseFails(s) /\ ValidateSingleStatement(s.stmts) # {}
  BY <1>3, RejectIsWellFormed DEF Validate, ValidateSingleStatement, Report, Categories
<1>4. CASE /\ Validate(s, schema) = ValidateStatement(s.stmts[1], schema)
           /\ StatementErrors(s.stmts[1], schema) # {}
  BY <1>4, RejectIsWellFormed, StatementErrorsAreCategories DEF ValidateStatement
<1>5. CASE /\ Validate(s, schema) = ValidateStatement(s.stmts[1], schema)
           /\ StatementErrors(s.stmts[1], schema) = {}
  <2>1. Validate(s, schema) = Approve(ApplyLimit(s.stmts[1]))
    BY <1>5 DEF ValidateStatement
  <2>2. QED
    BY <2>1 DEF Approve, WellFormed
<1>6. QED
  BY <1>1, <1>2, <1>3, <1>4, <1>5 DEF Validate

\* A ValidationResult is approved exactly when it carries no error, and only
\* then carries safe SQL, one statement of it (ValidationResult.approve and
\* ValidationResult.reject): no rule combination leaves the two apart.
THEOREM VerdictTyped == Spec => []TypeOK
<1>1. Faithful => TypeOK
  <2>1. CASE verdict = NoVerdict
    BY <2>1 DEF NoVerdict, TypeOK, Decided
  <2>2. CASE verdict = Validate(sql, Schema)
    BY <2>2, ValidateIsWellFormed DEF WellFormed, TypeOK
  <2>3. QED
    BY <2>1, <2>2 DEF Faithful
<1>2. QED
  BY <1>1, VerdictIsFaithful, PTL

(***************************************************************************)
(* The bound.  These need the shape of a candidate, which is the one thing *)
(* assumed of them.                                                        *)
(***************************************************************************)
CandidateInv == sql \in Candidates /\ Faithful

LEMMA CandidateInvariant == Spec => []CandidateInv
<1>1. Init => sql \in Candidates
  BY DEF Init
<1>2. sql \in Candidates /\ [Next]_vars => (sql \in Candidates)'
  BY DEF Next, Judge, vars
<1>3. QED
  BY <1>1, <1>2, VerdictIsFaithful, PTL DEF Spec, CandidateInv

\* What is approved is one parsed statement, bounded by ApplyLimit.
LEMMA ApprovedIsBounded ==
    ASSUME CandidateInv, verdict.approved
    PROVE  /\ IsStatement(Query) /\ StatementErrors(Query, Schema) = {}
           /\ Safe = ApplyLimit(Query) /\ verdict = Approve(Safe)
<1>1. verdict = Validate(sql, Schema)
  BY DEF CandidateInv, Faithful, NoVerdict
<1>2. IsStatement(Query)
  BY <1>1, ApprovedIsStatement, CandidateAssumption DEF CandidateInv, Query
<1>3. StatementErrors(Query, Schema) = {} /\ verdict = Approve(ApplyLimit(Query))
  BY <1>1, ApprovalMeansNoErrors DEF Query
<1>4. QED
  BY <1>2, <1>3 DEF Approve, Safe

(***************************************************************************)
(* The allowlist is the wall: however deeply a statement nests its scopes, *)
(* and whatever CTEs it defines, it is approved only if every table that   *)
(* it reads is in the warehouse, where its names are used in scope, and in *)
(* any case only if no scope writes or calls a denylisted function         *)
(* (rules.py, gate.py).                                                    *)
(***************************************************************************)
THEOREM ApprovalIsClean == Spec => []ApprovedIsClean
<1>1. CandidateInv => ApprovedIsClean
  <2>1. SUFFICES ASSUME CandidateInv, verdict.approved
                 PROVE  ApprovedIsClean
    BY DEF ApprovedIsClean
  <2>2. IsNested(Query) /\ StatementErrors(Query, Schema) = {}
    BY <2>1, ApprovedIsBounded DEF IsStatement
  <2>3. /\ Query.root = "query"
        /\ \A i \in ScopesOf(Query) : ~Query.scopes[i].writes
        /\ \A i \in ScopesOf(Query) : Query.scopes[i].functions \cap Denylisted = {}
    BY <2>2, NoErrorsMeansNoViolation
  <2>4. ASSUME NamesInScope(Query, Schema)
        PROVE  ~UnknownTable(Query, Schema)
    <3>1. ValidateAllowlist(Query, Schema) = Report("unknown_table", UnknownTable(Query, Schema))
      BY <2>2, <2>4, SchemaAssumption, AllowlistAgrees
    <3>2. ValidateAllowlist(Query, Schema) = {}
      BY <2>2 DEF StatementErrors
    <3>3. QED
      BY <3>1, <3>2 DEF Report
  <2>5. QED
    BY <2>3, <2>4 DEF ApprovedIsClean
<1>2. QED
  BY <1>1, CandidateInvariant, PTL

\* The LIMIT the executor gets is a number within the setting that applies, a
\* plain LIMIT is never loosened, and the LIMIT is the only thing about the
\* candidate that apply_limit changes (bounds.py).
THEOREM LimitsAreBounded == Spec => []LimitIsBounded
<1>1. CandidateInv => LimitIsBounded
  <2>1. SUFFICES ASSUME CandidateInv, verdict.approved
                 PROVE  LimitIsBounded
    BY DEF LimitIsBounded
  <2>2. IsStatement(Query) /\ Safe = ApplyLimit(Query)
    BY <2>1, ApprovedIsBounded
  <2>3. Query.limit \in Int \cup {NoLimit, OddLimit}
    BY <2>2 DEF IsStatement
  <2>4. [Safe EXCEPT !.limit = Query.limit] = Query
    BY <2>2, LimitApplied
  <2>5. Safe.limit <= IF Query.limit = NoLimit THEN DefaultLimit ELSE MaxRows
    BY <2>2, <2>3, LimitApplied, GateAssumption
  <2>6. Query.limit \in Int => Safe.limit = Min({Query.limit, MaxRows})
    BY <2>2, LimitApplied, MinOfTwo, GateAssumption
  <2>7. QED
    BY <2>4, <2>5, <2>6 DEF LimitIsBounded
<1>2. QED
  BY <1>1, CandidateInvariant, PTL

(***************************************************************************)
(* The gate has nothing to say about its own output.                       *)
(***************************************************************************)
\* Judged again, the safe statement is approved unchanged, so the gate and the
\* executor agree on what was approved (gate.py, validate), where the settings
\* agree: DEFAULT_LIMIT is at most MAX_ROWS.
THEOREM SafeSqlIsFixpoint == Spec => []SafeIsFixpoint
<1>1. CandidateInv => SafeIsFixpoint
  <2>1. SUFFICES ASSUME CandidateInv, verdict.approved, DefaultLimit <= MaxRows
                 PROVE  Validate([kind |-> "parsed", stmts |-> <<Safe>>], Schema) = verdict
    BY DEF SafeIsFixpoint
  <2>2. /\ IsStatement(Query) /\ StatementErrors(Query, Schema) = {}
        /\ Safe = ApplyLimit(Query) /\ verdict = Approve(Safe)
    BY <2>1, ApprovedIsBounded
  <2>3. Safe.root = Query.root /\ Safe.scopes = Query.scopes
    BY <2>2 DEF ApplyLimit, IsStatement
  <2>4. StatementErrors(Safe, Schema) = {}
    BY <2>2, <2>3, RulesIgnoreLimit
  <2>5. ApplyLimit(Safe) = Safe
    BY <2>1, <2>2, LimitIdempotent
  <2>6. Validate([kind |-> "parsed", stmts |-> <<Safe>>], Schema)
          = ValidateStatement(Safe, Schema)
    BY DEF Validate, ValidateNonEmpty, ParseFails, ValidateSingleStatement, Report
  <2>7. QED
    BY <2>2, <2>4, <2>5, <2>6 DEF ValidateStatement
<1>2. QED
  BY <1>1, CandidateInvariant, PTL

(***************************************************************************)
(* Where names are used plainly, one flat dictionary is as good as scopes: *)
(* however many scopes a statement nests, validate_allowlist reports an    *)
(* unknown table, and validate_columns an unknown column, exactly when SQL *)
(* scoping has one (rules.py).                                             *)
(***************************************************************************)
THEOREM ScopingAgrees == Spec => []AgreesWithScoping
<1>1. CandidateInv => AgreesWithScoping
  <2>1. SUFFICES ASSUME CandidateInv, Decided, Single, PlainNames(Query, Schema)
                 PROVE  /\ "unknown_table" \in verdict.errors <=> UnknownTable(Query, Schema)
                        /\ "unknown_column" \in verdict.errors <=> UnknownColumn(Query, Schema)
    BY DEF AgreesWithScoping
  <2>2. IsNested(Query)
    <3>1. IsCandidate(sql)
      BY <2>1, CandidateAssumption DEF CandidateInv
    <3>2. IsStatement(Query)
      BY <2>1, <3>1 DEF Single, Query, IsCandidate
    <3>3. QED
      BY <3>2 DEF IsStatement
  <2>3. verdict.errors = StatementErrors(Query, Schema)
    <3>1. verdict = Validate(sql, Schema)
      BY <2>1 DEF CandidateInv, Faithful, Decided
    <3>2. Validate(sql, Schema) = ValidateStatement(Query, Schema)
      BY <2>1 DEF Single, Query, Validate, ValidateNonEmpty, ParseFails,
                  ValidateSingleStatement, Report
    <3>3. QED
      BY <3>1, <3>2 DEF ValidateStatement, Reject, Approve
  <2>4. /\ ValidateAllowlist(Query, Schema) = Report("unknown_table", UnknownTable(Query, Schema))
        /\ ValidateColumns(Query, Schema) = Report("unknown_column", UnknownColumn(Query, Schema))
    BY <2>1, <2>2, SchemaAssumption, AllowlistAgrees, ColumnsAgree DEF PlainNames
  <2>5. /\ "unknown_table" \in verdict.errors
             <=> "unknown_table" \in ValidateAllowlist(Query, Schema)
        /\ "unknown_column" \in verdict.errors
             <=> "unknown_column" \in ValidateColumns(Query, Schema)
    BY <2>3 DEF StatementErrors, ValidateStatementType, ValidateAllowlist, ValidateColumns,
                ValidateFunctions, Report
  <2>6. QED
    BY <2>4, <2>5 DEF Report
<1>2. QED
  BY <1>1, CandidateInvariant, PTL
=============================================================================
