--------------------------- MODULE Preflight_proofs ---------------------------
(***************************************************************************)
(* Proofs about the programs that run before the server does, and about    *)
(* the one call of the client that they make.  Metadata: the drift report  *)
(* finds all drift and nothing else.  Preflight: no request is spent on    *)
(* metadata that drifted, what the diagnostics certify as ready starts,    *)
(* and the exit codes tell what happened.  LLMClient: what a call costs    *)
(* and what it proposes.                                                   *)
(***************************************************************************)
EXTENDS Preflight, WellFoundedInduction, TLAPS
-----------------------------------------------------------------------------
(***************************************************************************)
(* Metadata: the drift report and the guidance.                            *)
(***************************************************************************)

\* An object is fine exactly if its report has nothing to list.
LEMMA StatusOk ==
    ASSUME NEW o
    PROVE  Status(o) = "ok" <=> /\ o.exists /\ o.missing = {}
                                /\ o.joinIssues = {} /\ o.unresolved = {}
  BY DEF Status

\* A report can be shipped exactly if each of its objects is fine.
LEMMA ShippableMeansAllOk ==
    ASSUME NEW report
    PROVE  IsShippable(report) <=> \A o \in report : Status(o) = "ok"
<1>1. \A o : Status(o) \in {"missing", "unresolved", "ok"}
  BY DEF Status
<1>2. QED
  BY <1>1 DEF IsShippable, HasErrors, HasUnresolved

\* What a column reference has to be.
Holds(k, schema) == k[2] # Unresolved /\ HasColumn(schema, k[1], k[2])

\* A report on columns is fine exactly if its table, its joins and its columns are.
LEMMA ObjectOk ==
    ASSUME NEW t, NEW columns, NEW joinIssues, NEW schema
    PROVE  Status(ObjectReport(t, columns, joinIssues, schema)) = "ok"
             <=> /\ HasTable(schema, t) /\ joinIssues = {}
                 /\ \A k \in columns : Holds(k, schema)
<1> DEFINE o == ObjectReport(t, columns, joinIssues, schema)
<1>1. /\ o.exists = HasTable(schema, t)
      /\ o.joinIssues = joinIssues
      /\ o.missing = {k \in columns : k[2] # Unresolved /\ ~HasColumn(schema, k[1], k[2])}
      /\ o.unresolved = {k \in columns : k[2] = Unresolved}
  BY DEF ObjectReport
<1>2. o.missing = {} /\ o.unresolved = {} <=> \A k \in columns : Holds(k, schema)
  BY <1>1 DEF Holds
<1>3. QED
  BY <1>1, <1>2, StatusOk

\* The columns of a fact, its joins' included.
FactReferences(f) ==
    {<<f.table, c>> : c \in {f.timeKey} \cup f.measures}
      \cup UNION {JoinColumns(f, j) : j \in f.joins}

FactAligned(f, schema) ==
    /\ HasTable(schema, f.table)
    /\ \A j \in f.joins : HasTable(schema, j.dimension)
    /\ \A k \in FactReferences(f) : Holds(k, schema)

LEMMA FactOk ==
    ASSUME NEW f, NEW schema
    PROVE  Status(FactReport(f, schema)) = "ok" <=> FactAligned(f, schema)
<1>1. CASE HasTable(schema, f.table)
  <2> DEFINE issues == {j.dimension : j \in f.joins \ JoinsFound(f, schema)}
  <2>1. FactReport(f, schema) = ObjectReport(f.table, FactColumns(f, schema), issues, schema)
    BY <1>1 DEF FactReport
  <2>2. Status(FactReport(f, schema)) = "ok"
          <=> issues = {} /\ \A k \in FactColumns(f, schema) : Holds(k, schema)
    BY <1>1, <2>1, ObjectOk
  <2>3. issues = {} <=> \A j \in f.joins : HasTable(schema, j.dimension)
    BY DEF JoinsFound
  <2>4. ASSUME \A j \in f.joins : HasTable(schema, j.dimension)
        PROVE  FactColumns(f, schema) = FactReferences(f)
    <3>1. JoinsFound(f, schema) = f.joins
      BY <2>4 DEF JoinsFound
    <3>2. QED
      BY <1>1, <3>1 DEF FactColumns, FactReferences
  <2>5. QED
    BY <1>1, <2>2, <2>3, <2>4 DEF FactAligned
<1>2. CASE ~HasTable(schema, f.table)
  BY <1>2, ObjectOk DEF FactReport, FactAligned
<1>3. QED
  BY <1>1, <1>2

LEMMA DimensionOk ==
    ASSUME NEW d, NEW schema
    PROVE  Status(DimensionReport(d, schema)) = "ok"
             <=> HasTable(schema, d.table) /\ Holds(<<d.table, d.key>>, schema)
<1>1. Status(DimensionReport(d, schema)) = "ok"
        <=> HasTable(schema, d.table) /\ \A k \in DimensionColumns(d, schema) : Holds(k, schema)
  BY ObjectOk DEF DimensionReport
<1>2. HasTable(schema, d.table) => DimensionColumns(d, schema) = {<<d.table, d.key>>}
  BY DEF DimensionColumns
<1>3. QED
  BY <1>1, <1>2

\* Aligned, object by object.
LEMMA AlignedByObject ==
    ASSUME NEW authored, NEW schema
    PROVE  Aligned(authored, schema) <=>
             /\ \A f \in authored.facts : FactAligned(f, schema)
             /\ \A d \in authored.dimensions :
                    HasTable(schema, d.table) /\ Holds(<<d.table, d.key>>, schema)
<1>1. References(authored) =
        {<<d.table, d.key>> : d \in authored.dimensions}
          \cup UNION {FactReferences(f) : f \in authored.facts}
  BY DEF References, FactReferences
<1>2. (\A k \in References(authored) : Holds(k, schema)) <=>
        /\ \A f \in authored.facts : \A k \in FactReferences(f) : Holds(k, schema)
        /\ \A d \in authored.dimensions : Holds(<<d.table, d.key>>, schema)
  BY <1>1
<1>3. (\A t \in TablesNamed(authored) : HasTable(schema, t)) <=>
        /\ \A f \in authored.facts :
              HasTable(schema, f.table) /\ \A j \in f.joins : HasTable(schema, j.dimension)
        /\ \A d \in authored.dimensions : HasTable(schema, d.table)
  BY DEF TablesNamed
<1>4. Aligned(authored, schema) <=>
        /\ \A t \in TablesNamed(authored) : HasTable(schema, t)
        /\ \A k \in References(authored) : Holds(k, schema)
  BY DEF Aligned, Holds
<1>5. QED
  BY <1>2, <1>3, <1>4 DEF FactAligned

(***************************************************************************)
(* The drift report is exact: the authored metadata can be shipped against *)
(* a schema exactly if every table it names exists and every column it     *)
(* names is resolved and where it says.  No early `continue` of            *)
(* WarehouseMetadata.validate hides a problem from the verdict.           *)
(***************************************************************************)
THEOREM DriftReportExact ==
    ASSUME NEW authored, NEW schema
    PROVE  IsShippable(ReportOf(authored, schema)) <=> Aligned(authored, schema)
<1>1. IsShippable(ReportOf(authored, schema)) <=>
        /\ \A f \in authored.facts : Status(FactReport(f, schema)) = "ok"
        /\ \A d \in authored.dimensions : Status(DimensionReport(d, schema)) = "ok"
  BY ShippableMeansAllOk DEF ReportOf
<1>2. QED
  BY <1>1, FactOk, DimensionOk, AlignedByObject

\* The structural guidance names nothing but the catalog's references.
LEMMA GuidanceNamesReferences ==
    ASSUME NEW authored
    PROVE  ColumnsNamed(authored) \subseteq References(authored)
<1>1. ASSUME NEW f \in authored.facts PROVE FactText(f) \subseteq FactReferences(f)
  BY DEF FactText, FactReferences, Resolved, JoinText
<1>2. References(authored) =
        {<<d.table, d.key>> : d \in authored.dimensions}
          \cup UNION {FactReferences(f) : f \in authored.facts}
  BY DEF References, FactReferences
<1>3. Resolved({<<d.table, d.key>> : d \in authored.dimensions}) \subseteq References(authored)
  BY <1>2 DEF Resolved
<1>4. UNION {FactText(f) : f \in authored.facts} \subseteq References(authored)
  BY <1>1, <1>2
<1>5. QED
  BY <1>3, <1>4 DEF ColumnsNamed

\* Metadata that the drift report lets pass grounds the system prompt: every
\* table and column that build_grounding_context names is in the schema.
LEMMA ShippableGrounds ==
    ASSUME NEW authored, NEW schema, IsShippable(ReportOf(authored, schema))
    PROVE  Grounded(Grounding(schema, authored), schema)
<1>1. Aligned(authored, schema)
  BY DriftReportExact
<1>2. \A t \in DOMAIN schema \cup TablesNamed(authored) : HasTable(schema, t)
  BY <1>1 DEF Aligned, HasTable
<1>3. \A k \in SchemaText(schema) : HasColumn(schema, k[1], k[2])
  BY DEF SchemaText, HasColumn, HasTable
<1>4. \A k \in ColumnsNamed(authored) : HasColumn(schema, k[1], k[2])
  BY <1>1, GuidanceNamesReferences DEF Aligned
<1>5. QED
  BY <1>2, <1>3, <1>4 DEF Grounded, Grounding
-----------------------------------------------------------------------------
(***************************************************************************)
(* The smoke test: what it has established before it spends a request.     *)
(***************************************************************************)
\* What the smoke test has established before it builds its client.
Sound ==
    /\ known # None /\ KeySet
    /\ IsShippable(ReportOf(catalog, SchemaOf[known]))

\* The inductive strengthening: a program that has sent a request is the smoke
\* test, at its question or past it, with what it established still true.
SpendInv ==
    /\ at \in {"smoke_open", "smoke_build", "smoke_ask"} => KeySet
    /\ at \in {"smoke_build", "smoke_ask"} => Sound
    /\ attempts > 0 => at \in {"smoke_ask", "exited"} /\ Sound

LEMMA SpendInvInit == PreflightInit => SpendInv
  BY DEF PreflightInit, Init, SpendInv

\* No step but the call sends anything, and none changes the environment.
LEMMA OthersSendNothing ==
    ASSUME NEW others, Own(others)
    PROVE  UNCHANGED <<env, catalog, attempts>>
  BY DEF Own, vars

\* The diagnostic and the startup have sent nothing, and ask nothing.
LEMMA OtherProgramsKeepSpendInv ==
    ASSUME SpendInv,
           \/ LoadContext \/ CheckWarehouse \/ CheckReadOnly
           \/ ImportApp \/ ValidateConfig \/ Introspect
    PROVE  SpendInv'
<1>1. /\ at \notin {"smoke_ask", "exited"}
      /\ at' \notin {"smoke_open", "smoke_build", "smoke_ask"}
  BY DEF LoadContext, CheckWarehouse, CheckReadOnly, ImportApp, ValidateConfig,
         Introspect, Report, Proceed, Goto
<1>2. UNCHANGED attempts
  BY OthersSendNothing DEF LoadContext, CheckWarehouse, CheckReadOnly, ImportApp,
         ValidateConfig, Introspect
<1>3. QED
  BY <1>1, <1>2 DEF SpendInv

LEMMA SmokeKeepsSpendInv ==
    ASSUME SpendInv, SmokeLoad \/ SmokeStep \/ SmokeAsk
    PROVE  SpendInv'
<1>1. CASE SmokeLoad
  <2>1. UNCHANGED <<env, attempts>>
    BY <1>1, OthersSendNothing DEF SmokeLoad
  <2>2. at = "idle" /\ (at' = "exited" \/ (at' = "smoke_open" /\ KeySet))
    BY <1>1 DEF SmokeLoad, Exit, Goto
  <2>3. QED
    BY <2>1, <2>2 DEF SpendInv, KeySet
<1>2. CASE SmokeOpen
  <2>1. UNCHANGED <<env, catalog, attempts>>
    BY <1>2, OthersSendNothing DEF SmokeOpen
  <2>2. at = "smoke_open"
    BY <1>2 DEF SmokeOpen
  <2>3. \/ at' = "exited"
        \/ /\ at' = "smoke_build"
           /\ known' # None /\ IsShippable(ReportOf(catalog, SchemaOf[known']))
    BY <1>2 DEF SmokeOpen, Exit, Goto
  <2>4. KeySet /\ KeySet'
    BY <2>1, <2>2 DEF SpendInv, KeySet
  <2>5. IsShippable(ReportOf(catalog, SchemaOf[known']))
          => IsShippable(ReportOf(catalog, SchemaOf[known]))'
    BY <2>1
  <2>6. QED
    BY <2>1, <2>2, <2>3, <2>4, <2>5 DEF SpendInv, Sound
<1>3. CASE SmokeBuild
  <2>1. /\ at = "smoke_build" /\ at' = "smoke_ask"
        /\ UNCHANGED <<env, catalog, known, attempts>>
    BY <1>3 DEF SmokeBuild, Goto, Build
  <2>2. KeySet' = KeySet /\ Sound' = Sound
    BY <2>1 DEF Sound, KeySet
  <2>3. QED
    BY <2>1, <2>2 DEF SpendInv
<1>4. CASE SmokeAsk
  <2>1. at = "smoke_ask" /\ UNCHANGED <<env, catalog, known, at>>
    BY <1>4 DEF SmokeAsk, preflight
  <2>2. KeySet' = KeySet /\ Sound' = Sound
    BY <2>1 DEF Sound, KeySet
  <2>3. QED
    BY <2>1, <2>2 DEF SpendInv
<1>5. CASE SmokeConclude
  <2>1. UNCHANGED <<env, catalog, attempts>>
    BY <1>5, OthersSendNothing DEF SmokeConclude
  <2>2. at' = "exited" /\ UNCHANGED known
    BY <1>5 DEF SmokeConclude, Exit, Goto, Own
  <2>3. KeySet' = KeySet /\ Sound' = Sound
    BY <2>1, <2>2 DEF Sound, KeySet
  <2>4. QED
    BY <2>1, <2>2, <2>3 DEF SpendInv
<1>6. QED
  BY <1>1, <1>2, <1>3, <1>4, <1>5 DEF SmokeStep

\* A change of the file, or none of anything.
LEMMA IdlenessKeepsSpendInv ==
    ASSUME SpendInv, FileChanges \/ UNCHANGED allVars
    PROVE  SpendInv'
<1>1. UNCHANGED <<env, catalog, known, at, attempts>>
  BY DEF FileChanges, allVars, preflight, vars
<1>2. KeySet' = KeySet /\ Sound' = Sound
  BY <1>1 DEF Sound, KeySet
<1>3. QED
  BY <1>1, <1>2 DEF SpendInv

LEMMA SpendInvInductive == PreflightSpec => []SpendInv
<1>1. SpendInv /\ [PreflightNext]_allVars => SpendInv'
  BY OtherProgramsKeepSpendInv, SmokeKeepsSpendInv, IdlenessKeepsSpendInv DEF PreflightNext
<1>2. QED
  BY <1>1, SpendInvInit, PTL DEF PreflightSpec

(***************************************************************************)
(* Whatever the environment, the authored metadata and the file are, and   *)
(* however often the file is replaced, the smoke test (main of             *)
(* scripts/smoke_test_openai.py) has sent a request only with a key and a  *)
(* system prompt that names nothing but what it found in the warehouse.    *)
(***************************************************************************)
THEOREM SpendIsGrounded == PreflightSpec => []GroundedSpend
<1>1. SpendInv => GroundedSpend
  BY ShippableGrounds DEF SpendInv, Sound, GroundedSpend
<1>2. QED
  BY <1>1, SpendInvInductive, PTL
-----------------------------------------------------------------------------
(***************************************************************************)
(* The diagnostic and the startup: READY is enough.                        *)
(***************************************************************************)
\* What makes ReadyMeansStarts inductive: the diagnostic's checks imply what the
\* startup will ask of the same environment, and of the same file.
ReadyInv ==
    /\ at \in {"check_warehouse", "check_read_only"} /\ passed => ProcessChecks
    /\ verdict = "READY" => ProcessChecks
    /\ verdict = "READY" /\ settled => IsFile(warehouse) /\ Opens(warehouse)
    /\ ReadyMeansStarts

\* The diagnostic asks more than the startup does.
LEMMA ChecksSuffice ==
    ASSUME ProcessChecks
    PROVE  ApiImports /\ KeySet
<1>1. env.key = "set" => KeySet
  BY DEF KeySet
<1>2. {"fastapi", "duckdb", "openai", "sqlglot", "pydantic", "uvicorn"} \cap env.absent = {}
  BY DEF ProcessChecks, RequiredPackages
<1>3. QED
  BY <1>1, <1>2 DEF ProcessChecks, CheckConfiguration, ApiImports, PipelineImports

LEMMA DiagnosticKeepsReadyInv ==
    ASSUME ReadyInv, LoadContext \/ CheckWarehouse \/ CheckReadOnly
    PROVE  ReadyInv'
<1>1. UNCHANGED <<env, warehouse>>
  BY DEF LoadContext, CheckWarehouse, CheckReadOnly, Own
<1>2. ProcessChecks' = ProcessChecks
  BY <1>1 DEF ProcessChecks, CheckConfiguration, SettingsLoad, ConfigImports, Installed,
              SettingsRaise, MaxRows, DefaultLimit
<1>3. CASE LoadContext
  <2>1. /\ verdict' # "READY" \/ verdict' = verdict
        /\ at' \in {"reported", "check_warehouse"}
        /\ at' = "check_warehouse" => passed' = ProcessChecks
        /\ UNCHANGED settled
    BY <1>3 DEF LoadContext, Goto, Own
  <2>2. QED
    BY <1>1, <1>2, <2>1 DEF ReadyInv, ReadyMeansStarts, IsFile, Opens
<1>4. CASE CheckWarehouse
  <2>1. /\ at = "check_warehouse" /\ at' = "check_read_only"
        /\ passed' => passed
        /\ UNCHANGED <<verdict, settled>>
    BY <1>4 DEF CheckWarehouse, Goto, Own
  <2>2. QED
    BY <1>1, <1>2, <2>1 DEF ReadyInv, ReadyMeansStarts, IsFile, Opens
<1>5. CASE CheckReadOnly
  <2>1. /\ at = "check_read_only" /\ at' = "reported"
        /\ verdict' = "READY" => passed /\ IsFile(warehouse) /\ Opens(warehouse)
    BY <1>5 DEF CheckReadOnly, Report, Goto
  <2>2. QED
    BY <1>1, <1>2, <2>1 DEF ReadyInv, ReadyMeansStarts, IsFile, Opens
<1>6. QED
  BY <1>3, <1>4, <1>5

LEMMA StartupKeepsReadyInv ==
    ASSUME ReadyInv, ImportApp \/ ValidateConfig \/ Introspect
    PROVE  ReadyInv'
<1>1. UNCHANGED <<env, warehouse, passed, verdict, settled>>
  BY DEF ImportApp, ValidateConfig, Introspect, Own, checked
<1>2. ProcessChecks' = ProcessChecks
  BY <1>1 DEF ProcessChecks, CheckConfiguration, SettingsLoad, ConfigImports, Installed,
              SettingsRaise, MaxRows, DefaultLimit
<1>3. at' \in {"validate_config", "introspect", "serving", "failed"}
  BY DEF ImportApp, ValidateConfig, Introspect, Proceed, Goto
<1>4. ASSUME verdict = "READY", settled PROVE at' # "failed"
  <2>1. ApiImports /\ KeySet /\ IsFile(warehouse) /\ Opens(warehouse)
    BY <1>4, ChecksSuffice DEF ReadyInv
  <2>2. QED
    BY <2>1 DEF ImportApp, ValidateConfig, Introspect, Proceed, Goto, IsFile, Exists
<1>5. QED
  BY <1>1, <1>2, <1>3, <1>4 DEF ReadyInv, ReadyMeansStarts, IsFile, Opens

LEMMA SmokeKeepsReadyInv ==
    ASSUME ReadyInv, SmokeLoad \/ SmokeStep \/ SmokeAsk
    PROVE  ReadyInv'
<1>1. UNCHANGED <<env, warehouse, passed, verdict, settled>>
  BY DEF SmokeLoad, SmokeStep, SmokeOpen, SmokeBuild, SmokeConclude, SmokeAsk, Own,
         preflight, checked
<1>2. ProcessChecks' = ProcessChecks
  BY <1>1 DEF ProcessChecks, CheckConfiguration, SettingsLoad, ConfigImports, Installed,
              SettingsRaise, MaxRows, DefaultLimit
<1>3. at' \in {"smoke_open", "smoke_build", "smoke_ask", "exited"}
  BY DEF SmokeLoad, SmokeStep, SmokeOpen, SmokeBuild, SmokeConclude, SmokeAsk, Exit, Goto,
         preflight
<1>4. QED
  BY <1>1, <1>2, <1>3 DEF ReadyInv, ReadyMeansStarts, IsFile, Opens

LEMMA IdlenessKeepsReadyInv ==
    ASSUME ReadyInv, FileChanges \/ UNCHANGED allVars
    PROVE  ReadyInv'
<1>1. UNCHANGED <<env, at, passed, verdict>> /\ (~settled' \/ UNCHANGED <<warehouse, settled>>)
  BY DEF FileChanges, allVars, preflight, checked
<1>2. ProcessChecks' = ProcessChecks
  BY <1>1 DEF ProcessChecks, CheckConfiguration, SettingsLoad, ConfigImports, Installed,
              SettingsRaise, MaxRows, DefaultLimit
<1>3. QED
  BY <1>1, <1>2 DEF ReadyInv, ReadyMeansStarts, IsFile, Opens

(***************************************************************************)
(* READY can be relied on: in every environment that verify_env finds      *)
(* ready, the startup of the API does not fail (_validate_config and       *)
(* lifespan), unless someone replaces the warehouse in between.            *)
(***************************************************************************)
THEOREM ReadyIsEnough == PreflightSpec => []ReadyMeansStarts
<1>1. PreflightInit => ReadyInv
  BY DEF PreflightInit, ReadyInv, ReadyMeansStarts
<1>2. ReadyInv /\ [PreflightNext]_allVars => ReadyInv'
  BY DiagnosticKeepsReadyInv, StartupKeepsReadyInv, SmokeKeepsReadyInv, IdlenessKeepsReadyInv
     DEF PreflightNext
<1>3. ReadyInv => ReadyMeansStarts
  BY DEF ReadyInv
<1>4. QED
  BY <1>1, <1>2, <1>3, PTL DEF PreflightSpec
-----------------------------------------------------------------------------
(***************************************************************************)
(* LLMClient: what one call may cost.  The timeout in force is that of the *)
(* environment or the default, and each stage is paid for by the attempts  *)
(* made so far: a pause for each but one, and the waits of each that ended *)
(* or, of the one under way, a wait for each sign of life.                 *)
(***************************************************************************)
Patience ==
    IF raw \in Values \cap (Nat \ {0}) THEN raw
    ELSE IF raw = Infinity THEN Infinity ELSE DefaultTimeout

\* The waits of one attempt, and of `ended` attempts with `pauses` pauses.
AttemptCost == (MaxPieces + 1) * Longest
Cost(ended, pauses) == ended * AttemptCost + pauses * Backoff

CallInv ==
    /\ stage \in {"unbuilt", "ready", "calling", "pausing", "answered", "done"}
    /\ raw \in Values \cup {Infinity, Unset, Garbage}
    /\ timeout = IF stage = "unbuilt" THEN 0 ELSE Patience
    /\ attempts \in Nat /\ pieces \in 0 .. MaxPieces /\ elapsed \in Nat
    /\ stage \in {"unbuilt", "ready"} => attempts = 0 /\ elapsed = 0
    /\ stage = "calling" =>
          /\ attempts \in 1 .. MaxRetries + 1
          /\ elapsed <= Cost(attempts - 1, attempts - 1) + pieces * Longest
    /\ stage = "pausing" =>
          attempts \in 1 .. MaxRetries /\ elapsed <= Cost(attempts, attempts - 1)
    /\ stage \in {"answered", "done"} =>
          attempts \in 1 .. MaxRetries + 1 /\ elapsed <= Cost(attempts, attempts - 1)
    /\ outcome = "LLMTimeoutError" => timeout # Infinity /\ elapsed >= timeout
    /\ stage = "done" <=> outcome # "none"

\* More of the same costs no less.
LEMMA ProductGrows ==
    ASSUME NEW a \in Nat, NEW b \in Nat, NEW c \in Nat, a <= b
    PROVE  a * c <= b * c
<1>1. PICK d \in Nat : b = a + d
  <2>1. b - a \in Nat /\ b = a + (b - a)
    OBVIOUS
  <2>2. QED
    BY <2>1
<1>2. b * c = a * c + d * c /\ d * c >= 0
  BY <1>1
<1>3. QED
  BY <1>2

LEMMA PatienceIsPositive ==
    /\ Patience \in (Nat \ {0}) \cup {Infinity} /\ Infinity \notin Nat
    /\ raw # Infinity => Patience \in Nat \ {0}
  BY LLMClientAssumption DEF Patience

\* A wait that ends is of some length, and the waits of an attempt add up.
LEMMA WaitsAddUp ==
    ASSUME CallInv
    PROVE  /\ Longest \in Nat /\ AttemptCost \in Nat
           /\ pieces * Longest \in Nat
           /\ (pieces + 1) * Longest = pieces * Longest + Longest
           /\ pieces * Longest + Longest <= AttemptCost
<1>1. Longest \in Nat
  BY PatienceIsPositive, LLMClientAssumption DEF CallInv, Longest
<1>2. pieces \in Nat /\ MaxPieces \in Nat /\ pieces <= MaxPieces
  BY LLMClientAssumption DEF CallInv
<1>3. (pieces + 1) * Longest <= (MaxPieces + 1) * Longest
  BY <1>1, <1>2, ProductGrows
<1>4. (pieces + 1) * Longest = pieces * Longest + Longest /\ pieces * Longest \in Nat
  BY <1>1, <1>2
<1>5. AttemptCost \in Nat
  BY <1>1, <1>2 DEF AttemptCost
<1>6. QED
  BY <1>1, <1>3, <1>4, <1>5 DEF AttemptCost

LEMMA CallInvInit == Init => CallInv
  BY LLMClientAssumption DEF Init, CallInv

\* A step that ends a wait, and with it perhaps the attempt.
LEMMA WaitIsPaid ==
    ASSUME CallInv, stage = "calling", elapsed' \in elapsed .. elapsed + Longest,
           UNCHANGED <<raw, timeout, attempts>>
    PROVE  /\ elapsed' \in Nat /\ elapsed' >= elapsed
           /\ elapsed' <= Cost(attempts - 1, attempts - 1)' + (pieces + 1) * Longest'
           /\ elapsed' <= Cost(attempts, attempts - 1)'
           /\ attempts' \in 1 .. MaxRetries + 1
           /\ raw' \in Values \cup {Infinity, Unset, Garbage} /\ timeout' = Patience'
<1>1. /\ Longest \in Nat /\ AttemptCost \in Nat /\ pieces * Longest \in Nat
      /\ (pieces + 1) * Longest = pieces * Longest + Longest
      /\ pieces * Longest + Longest <= AttemptCost
  BY WaitsAddUp
<1>2. /\ elapsed \in Nat /\ timeout = Patience /\ attempts \in 1 .. MaxRetries + 1
      /\ elapsed <= Cost(attempts - 1, attempts - 1) + pieces * Longest
      /\ raw \in Values \cup {Infinity, Unset, Garbage}
  BY DEF CallInv
<1>3. Longest' = Longest /\ AttemptCost' = AttemptCost /\ Patience' = Patience
  BY DEF Longest, AttemptCost, Patience
<1>4. /\ Cost(attempts - 1, attempts - 1)' = Cost(attempts - 1, attempts - 1)
      /\ Cost(attempts, attempts - 1)' = Cost(attempts, attempts - 1)
  BY <1>3 DEF Cost
<1>5. MaxRetries \in Nat /\ Backoff \in Nat
  BY LLMClientAssumption
<1>6. /\ (attempts - 1) * AttemptCost \in Int /\ (attempts - 1) * Backoff \in Int
      /\ (attempts - 1) * AttemptCost + AttemptCost = attempts * AttemptCost
  BY <1>1, <1>2, <1>5
<1>7. /\ Cost(attempts - 1, attempts - 1) \in Int
      /\ Cost(attempts - 1, attempts - 1) + AttemptCost = Cost(attempts, attempts - 1)
  BY <1>1, <1>6 DEF Cost
<1>8. elapsed' \in Nat /\ elapsed' >= elapsed /\ elapsed' <= elapsed + Longest
  BY <1>1, <1>2
<1>9. elapsed' <= Cost(attempts - 1, attempts - 1) + (pieces + 1) * Longest
  BY <1>1, <1>2, <1>7, <1>8
<1>10. elapsed' <= Cost(attempts, attempts - 1)
  BY <1>1, <1>7, <1>8, <1>9
<1>11. QED
  BY <1>2, <1>3, <1>4, <1>8, <1>9, <1>10

\* The pauses are between attempts, and the timeout is the client's own.
LEMMA CallKeepsInv ==
    ASSUME CallInv, Next
    PROVE  CallInv'
<1>1. Backoff \in Nat /\ MaxRetries \in Nat /\ MaxPieces \in Nat
  BY LLMClientAssumption
<1>2. CASE Build
  <2>1. ResolveTimeout(raw) = Patience /\ Patience' = Patience
    <3>1. raw' = raw
      BY <1>2 DEF Build
    <3>2. Infinity \notin Values /\ Values \subseteq Int
      BY LLMClientAssumption
    <3>3. raw # Infinity => (Positive(raw) <=> raw \in Values \cap (Nat \ {0}))
      <4>1. CASE raw \in Values
        <5>1. raw \in Int /\ raw # Infinity
          BY <3>2, <4>1
        <5>2. raw > 0 <=> raw \in Nat \ {0}
          BY <5>1
        <5>3. QED
          BY <4>1, <5>1, <5>2 DEF Positive
      <4>2. CASE raw \notin Values
        BY <4>2 DEF Positive
      <4>3. QED
        BY <4>1, <4>2
    <3>4. raw = Infinity => Positive(raw) /\ raw \notin Values
      BY <3>2 DEF Positive
    <3>5. QED
      BY <3>1, <3>3, <3>4 DEF ResolveTimeout, Patience
  <2>2. /\ stage' = "ready" /\ timeout' = Patience'
        /\ UNCHANGED <<raw, attempts, pieces, elapsed, outcome>> /\ stage = "unbuilt"
    BY <1>2, <2>1 DEF Build
  <2>3. QED
    BY <2>2 DEF CallInv
<1>3. CASE Send
  <2>1. /\ timeout' = Patience /\ timeout = Patience /\ stage' = "calling"
        /\ attempts' = attempts + 1 /\ pieces' = 0 /\ UNCHANGED <<raw, outcome>>
        /\ attempts \in Nat /\ elapsed \in Nat
        /\ elapsed' \in elapsed .. elapsed + (IF stage = "pausing" THEN Backoff ELSE 0)
    BY <1>3 DEF Send, CallInv
  <2>2. elapsed' \in Nat
    BY <1>1, <2>1
  <2>3. Longest' = Longest /\ AttemptCost' = AttemptCost /\ Patience' = Patience
    BY <2>1 DEF Longest, AttemptCost, Patience
  <2>4. Longest \in Nat /\ AttemptCost \in Nat /\ pieces' * Longest' = 0
    BY <2>1, <2>3, WaitsAddUp
  <2>5. CASE stage = "ready"
    <3>1. attempts = 0 /\ elapsed' = 0
      BY <2>1, <2>5 DEF CallInv
    <3>2. Cost(attempts - 1, attempts - 1)' = 0
      BY <1>1, <2>1, <2>3, <2>4, <3>1 DEF Cost
    <3>3. attempts' \in 1 .. MaxRetries + 1 /\ 0 <= 0 + pieces' * Longest'
      BY <1>1, <2>1, <2>4, <3>1
    <3>4. outcome = "none"
      BY <2>5 DEF CallInv
    <3>5. QED
      BY <1>1, <2>1, <2>2, <2>3, <3>1, <3>2, <3>3, <3>4 DEF CallInv
  <2>6. CASE stage = "pausing"
    <3>1. attempts \in 1 .. MaxRetries /\ elapsed <= Cost(attempts, attempts - 1)
      BY <2>6 DEF CallInv
    <3>2. (attempts - 1) * Backoff + Backoff = attempts * Backoff
      BY <1>1, <3>1
    <3>3. attempts * AttemptCost \in Int /\ (attempts - 1) * Backoff \in Int
      BY <1>1, <2>4, <3>1
    <3>4. elapsed' <= attempts * AttemptCost + attempts * Backoff
      BY <1>1, <2>1, <2>6, <3>1, <3>2, <3>3 DEF Cost
    <3>5. Cost(attempts - 1, attempts - 1)' = attempts * AttemptCost + attempts * Backoff
      <4>1. attempts' - 1 = attempts
        BY <2>1
      <4>2. QED
        BY <2>3, <4>1 DEF Cost
    <3>6. attempts * AttemptCost + attempts * Backoff \in Int
      BY <1>1, <3>1, <3>3
    <3>7. elapsed' <= Cost(attempts - 1, attempts - 1)' + pieces' * Longest'
      BY <2>4, <3>4, <3>5, <3>6
    <3>8. attempts' \in 1 .. MaxRetries + 1 /\ outcome = "none"
      BY <1>1, <2>1, <2>6, <3>1 DEF CallInv
    <3>9. QED
      BY <1>1, <2>1, <2>2, <2>3, <3>7, <3>8 DEF CallInv
  <2>7. QED
    BY <1>3, <2>5, <2>6 DEF Send
<1>4. CASE Progress
  <2>1. /\ stage = "calling" /\ pieces < MaxPieces /\ pieces' = pieces + 1
        /\ elapsed' \in elapsed .. elapsed + Longest
        /\ UNCHANGED <<raw, timeout, stage, attempts, outcome>>
        /\ pieces \in 0 .. MaxPieces
    BY <1>4 DEF Progress, Wait, CallInv
  <2>2. pieces' \in 0 .. MaxPieces
    BY <1>1, <2>1
  <2>3. /\ elapsed' \in Nat /\ timeout' = Patience' /\ attempts' \in 1 .. MaxRetries + 1
        /\ elapsed' <= Cost(attempts - 1, attempts - 1)' + pieces' * Longest'
    BY <2>1, WaitIsPaid
  <2>4. outcome = "none"
    BY <2>1 DEF CallInv
  <2>5. QED
    BY <1>1, <2>1, <2>2, <2>3, <2>4 DEF CallInv
<1>5. CASE AttemptTimesOut
  <2>1. /\ stage = "calling" /\ UNCHANGED <<raw, timeout, attempts, pieces>>
        /\ timeout # Infinity /\ elapsed' = elapsed + timeout
        /\ elapsed \in Nat /\ timeout = Patience /\ outcome = "none"
    BY <1>5 DEF AttemptTimesOut, CallInv
  <2>2. timeout \in Nat /\ Longest = timeout
    BY <2>1, PatienceIsPositive DEF Longest
  <2>3. elapsed' \in elapsed .. elapsed + Longest /\ elapsed' >= timeout
    BY <2>1, <2>2
  <2>4. \/ stage' = "pausing" /\ attempts <= MaxRetries /\ UNCHANGED outcome
        \/ stage' = "done" /\ outcome' = "LLMTimeoutError"
    BY <1>5 DEF AttemptTimesOut, RetryOrRaise, Raise
  <2>5. /\ elapsed' \in Nat /\ elapsed' <= Cost(attempts, attempts - 1)'
        /\ attempts' \in 1 .. MaxRetries + 1 /\ timeout' = Patience'
    BY <2>1, <2>3, WaitIsPaid
  <2>6. /\ raw' \in (Values \cup {Infinity, Unset, Garbage})'
        /\ attempts' \in Nat /\ pieces' \in 0 .. MaxPieces
        /\ timeout' # Infinity /\ elapsed' >= timeout'
    BY <2>1, <2>3 DEF CallInv
  <2>7. CASE stage' = "pausing"
    <3>1. attempts' \in 1 .. MaxRetries /\ outcome' = "none"
      BY <1>1, <2>1, <2>4, <2>5, <2>7
    <3>2. QED
      BY <2>5, <2>6, <2>7, <3>1 DEF CallInv
  <2>8. CASE stage' = "done"
    <3>1. outcome' = "LLMTimeoutError"
      BY <2>4, <2>8
    <3>2. QED
      BY <2>5, <2>6, <2>8, <3>1 DEF CallInv
  <2>9. QED
    BY <2>4, <2>7, <2>8
<1>6. CASE AttemptFails \/ ProviderRefuses \/ ProviderAnswers
  <2>1. /\ stage = "calling" /\ UNCHANGED <<raw, timeout, attempts, pieces>>
        /\ elapsed' \in elapsed .. elapsed + Longest /\ outcome = "none"
    BY <1>6 DEF AttemptFails, ProviderRefuses, ProviderAnswers, Wait, CallInv
  <2>2. \/ stage' = "pausing" /\ attempts <= MaxRetries /\ UNCHANGED outcome
        \/ stage' = "done" /\ outcome' = "LLMError"
        \/ stage' = "answered" /\ UNCHANGED outcome
    BY <1>6 DEF AttemptFails, ProviderRefuses, ProviderAnswers, RetryOrRaise, Raise
  <2>3. /\ elapsed' \in Nat /\ elapsed' <= Cost(attempts, attempts - 1)'
        /\ attempts' \in 1 .. MaxRetries + 1 /\ timeout' = Patience'
    BY <2>1, WaitIsPaid
  <2>4. QED
    BY <1>1, <2>1, <2>2, <2>3 DEF CallInv
<1>7. CASE Extract
  <2>1. /\ stage = "answered" /\ stage' = "done" /\ outcome' = "proposed"
        /\ UNCHANGED <<raw, timeout, attempts, pieces, elapsed>>
    BY <1>7 DEF Extract
  <2>2. Cost(attempts, attempts - 1)' = Cost(attempts, attempts - 1)
    BY <2>1 DEF Cost, AttemptCost, Longest
  <2>3. Patience' = Patience
    BY <2>1 DEF Patience
  <2>4. attempts \in 1 .. MaxRetries + 1 /\ elapsed <= Cost(attempts, attempts - 1)
    BY <2>1 DEF CallInv
  <2>5. elapsed' <= Cost(attempts, attempts - 1)'
    BY <2>1, <2>2, <2>4
  <2>6. /\ timeout' = Patience' /\ stage' = "done" /\ outcome' = "proposed"
        /\ outcome' # "LLMTimeoutError" /\ outcome' # "none"
    BY <2>1, <2>3 DEF CallInv
  <2>7. /\ raw' \in (Values \cup {Infinity, Unset, Garbage})'
        /\ attempts' \in Nat /\ pieces' \in 0 .. MaxPieces /\ elapsed' \in Nat
        /\ attempts' \in 1 .. MaxRetries + 1
    BY <2>1, <2>4 DEF CallInv
  <2>8. timeout' = IF stage' = "unbuilt" THEN 0 ELSE Patience'
    BY <2>6
  <2>9. /\ stage' \notin {"unbuilt", "ready", "calling", "pausing"}
        /\ stage' \in {"unbuilt", "ready", "calling", "pausing", "answered", "done"}
    BY <2>6
  <2>10. QED
    BY <2>5, <2>6, <2>7, <2>8, <2>9 DEF CallInv
<1>8. QED
  BY <1>2, <1>3, <1>4, <1>5, <1>6, <1>7 DEF Next

\* Nothing that an invariant of the client speaks of changes outside its steps.
LEMMA CallInvStutters ==
    ASSUME CallInv, UNCHANGED vars
    PROVE  CallInv'
<1>1. UNCHANGED <<raw, timeout, stage, attempts, pieces, elapsed, outcome>>
  BY DEF vars
<1>2. Patience' = Patience /\ Cost(attempts - 1, attempts - 1)' = Cost(attempts - 1, attempts - 1)
      /\ Cost(attempts, attempts - 1)' = Cost(attempts, attempts - 1) /\ Longest' = Longest
  BY <1>1 DEF Patience, Cost, AttemptCost, Longest
<1>3. QED
  BY <1>1, <1>2 DEF CallInv

\* The programs around the call take no step of it but its own.
LEMMA ProgramsKeepTheCall ==
    ASSUME PreflightNext
    PROVE  [Next]_vars
<1>1. CASE SmokeBuild
  BY <1>1 DEF SmokeBuild, Next
<1>2. CASE SmokeAsk
  BY <1>2 DEF SmokeAsk, CallStep, OwnCallStep, Next
<1>3. CASE \/ LoadContext \/ CheckWarehouse \/ CheckReadOnly
           \/ ImportApp \/ ValidateConfig \/ Introspect
           \/ SmokeLoad \/ SmokeOpen \/ SmokeConclude \/ FileChanges
  BY <1>3 DEF LoadContext, CheckWarehouse, CheckReadOnly, ImportApp, ValidateConfig,
         Introspect, SmokeLoad, SmokeOpen, SmokeConclude, FileChanges, Own
<1>4. QED
  BY <1>1, <1>2, <1>3 DEF PreflightNext, SmokeStep

LEMMA CallInvInductive == PreflightSpec => []CallInv
<1>1. PreflightInit => CallInv
  BY CallInvInit DEF PreflightInit
<1>2. CallInv /\ [PreflightNext]_allVars => CallInv'
  BY ProgramsKeepTheCall, CallKeepsInv, CallInvStutters DEF allVars
<1>3. QED
  BY <1>1, <1>2, PTL DEF PreflightSpec

(***************************************************************************)
(* One propose_query (app/llm/client.py) is at a stage it can be at, never *)
(* makes more attempts than the SDK allows, has a positive timeout once it *)
(* is built, and has an outcome exactly when it is over.                   *)
(***************************************************************************)
THEOREM CallTyped == PreflightSpec => []TypeOK
<1>1. CallInv => TypeOK
  BY PatienceIsPositive, LLMClientAssumption DEF CallInv, TypeOK
<1>2. QED
  BY <1>1, CallInvInductive, PTL

\* What the attempts made so far cost at most is what all of them may cost.
LEMMA CallIsPaid ==
    ASSUME CallInv
    PROVE  elapsed <= (MaxRetries + 1) * AttemptCost + MaxRetries * Backoff
<1>1. /\ Backoff \in Nat /\ MaxRetries \in Nat /\ elapsed \in Nat
      /\ Longest \in Nat /\ AttemptCost \in Nat /\ pieces * Longest \in Nat
      /\ pieces * Longest + Longest <= AttemptCost
  BY LLMClientAssumption, WaitsAddUp DEF CallInv
<1>2. (MaxRetries + 1) * AttemptCost \in Nat /\ MaxRetries * Backoff \in Nat
  BY <1>1
<1>3. CASE stage \in {"unbuilt", "ready"}
  BY <1>1, <1>2, <1>3 DEF CallInv
<1>4. CASE stage \notin {"unbuilt", "ready"}
  <2>1. /\ attempts \in 1 .. MaxRetries + 1
        /\ \/ elapsed <= Cost(attempts - 1, attempts - 1) + pieces * Longest
           \/ elapsed <= Cost(attempts, attempts - 1)
    BY <1>1, <1>4 DEF CallInv
  <2>2. /\ attempts * AttemptCost <= (MaxRetries + 1) * AttemptCost
        /\ (attempts - 1) * Backoff <= MaxRetries * Backoff
    BY <1>1, <2>1, ProductGrows
  <2>3. /\ (attempts - 1) * AttemptCost \in Int /\ attempts * AttemptCost \in Int
        /\ (attempts - 1) * Backoff \in Int
        /\ (attempts - 1) * AttemptCost + AttemptCost = attempts * AttemptCost
    BY <1>1, <2>1
  <2>4. elapsed <= attempts * AttemptCost + (attempts - 1) * Backoff
    BY <1>1, <2>1, <2>3 DEF Cost
  <2>5. QED
    BY <1>1, <1>2, <2>2, <2>3, <2>4
<1>5. QED
  BY <1>3, <1>4

(***************************************************************************)
(* Whatever OPENAI_TIMEOUT_SECONDS holds, "inf" excepted, and however the  *)
(* provider fails or dawdles, a call lasts no longer than the attempts,    *)
(* their waits and the pauses that it is entitled to (_resolve_timeout,    *)
(* the SDK's retries, and httpx, which times every wait), for any bound on *)
(* the signs of life in an attempt; and LLMTimeoutError is raised only     *)
(* after one timeout in full.                                              *)
(***************************************************************************)
THEOREM CallIsBounded == PreflightSpec => []CallTimeBounded
<1>1. ASSUME CallInv, raw # Infinity
      PROVE  /\ elapsed <= (MaxRetries + 1) * ((MaxPieces + 1) * Patience)
                             + MaxRetries * Backoff
             /\ outcome = "LLMTimeoutError" => elapsed >= Patience
  <2>1. Patience \in Nat \ {0} /\ Patience # Infinity
    BY <1>1, PatienceIsPositive
  <2>2. CASE stage = "unbuilt"
    <3>1. elapsed = 0 /\ outcome = "none"
      BY <1>1, <2>2 DEF CallInv
    <3>2. /\ MaxRetries \in Nat /\ MaxPieces \in Nat /\ Backoff \in Nat
      BY LLMClientAssumption
    <3>3. (MaxPieces + 1) * Patience \in Nat /\ MaxRetries * Backoff \in Nat
      BY <2>1, <3>2
    <3>4. (MaxRetries + 1) * ((MaxPieces + 1) * Patience) \in Nat
      BY <3>2, <3>3
    <3>5. QED
      BY <3>1, <3>3, <3>4
  <2>3. CASE stage # "unbuilt"
    <3>1. timeout = Patience /\ Longest = Patience
      BY <1>1, <2>1, <2>3 DEF CallInv, Longest
    <3>2. AttemptCost = (MaxPieces + 1) * Patience
      BY <3>1 DEF AttemptCost
    <3>3. outcome = "LLMTimeoutError" => elapsed >= Patience
      BY <1>1, <3>1 DEF CallInv
    <3>4. QED
      BY <1>1, <3>2, <3>3, CallIsPaid
  <2>4. QED
    BY <2>2, <2>3
<1>2. CallInv => CallTimeBounded
  BY <1>1 DEF CallTimeBounded, Patience
<1>3. QED
  BY <1>2, CallInvInductive, PTL
-----------------------------------------------------------------------------
(***************************************************************************)
(* What the call proposes.  WalkedSql folds over the items of the output,  *)
(* and what the fold computes is proved by induction on their number.      *)
(***************************************************************************)
\* The natural numbers are well-founded, so a set that has 0 and with n also n + 1
\* has them all.
LEMMA SetInduction ==
    ASSUME NEW S, 0 \in S, \A n \in Nat : n \in S => n + 1 \in S
    PROVE  Nat \subseteq S
<1> DEFINE Missing == Nat \ S
<1>1. SUFFICES ASSUME Missing # {} PROVE FALSE
  OBVIOUS
<1>2. IsWellFoundedOn({p \in Nat \X Nat : p[1] < p[2]}, Nat)
  BY NatLessThanWellFounded DEF OpToRel
<1>3. PICK n \in Missing : \A m \in Missing : <<m, n>> \notin {p \in Nat \X Nat : p[1] < p[2]}
  BY <1>1, <1>2, WFMin
<1>4. \A m \in Missing : ~(m < n)
  BY <1>3
<1>5. n - 1 \in Nat /\ n - 1 < n /\ n - 1 + 1 = n
  OBVIOUS
<1>6. QED
  BY <1>4, <1>5

\* A bounded set of numbers that is not empty has a largest member.
LEMMA MaxIsMember ==
    ASSUME NEW n \in Nat, NEW S \in SUBSET (1 .. n), S # {}
    PROVE  Max(S) \in S /\ \A m \in S : m <= Max(S)
<1> DEFINE Good == {k \in Nat : \A T \in SUBSET (1 .. k) :
                        T # {} => \E x \in T : \A y \in T : x >= y}
<1>1. 0 \in Good
  <2>1. 1 .. 0 = {}
    OBVIOUS
  <2>2. QED
    BY <2>1
<1>2. ASSUME NEW k \in Nat, k \in Good PROVE k + 1 \in Good
  <2>1. SUFFICES ASSUME NEW T \in SUBSET (1 .. k + 1), T # {}
                 PROVE  \E x \in T : \A y \in T : x >= y
    OBVIOUS
  <2>2. CASE k + 1 \in T
    BY <2>2
  <2>3. CASE k + 1 \notin T
    <3>1. T \in SUBSET (1 .. k)
      BY <2>3
    <3>2. QED
      BY <1>2, <2>1, <3>1
  <2>4. QED
    BY <2>2, <2>3
<1>3. n \in Good
  <2> HIDE DEF Good
  <2>1. QED
    BY <1>1, <1>2, SetInduction
<1>4. \E x \in S : \A y \in S : x >= y
  BY <1>3
<1>5. Max(S) \in S /\ \A m \in S : Max(S) >= m
  BY <1>4 DEF Max
<1>6. QED
  BY <1>5

\* The walk over the first n items, as the function of sets of them that the fold
\* of WalkedSql computes.
IsWalk(items, n, walk) ==
    walk = [S \in SUBSET (1 .. n) |->
              IF S = {} THEN 0 ELSE Visit(items, Max(S), walk[S \ {Max(S)}])]

LEMMA WalkExists ==
    ASSUME NEW items, NEW n \in Nat
    PROVE  \E walk : IsWalk(items, n, walk)
<1> DEFINE Good == {k \in Nat : \E walk : IsWalk(items, k, walk)}
<1>1. 0 \in Good
  <2>1. SUBSET (1 .. 0) = {{}}
    OBVIOUS
  <2>2. IsWalk(items, 0, [S \in {{}} |-> 0])
    BY <2>1 DEF IsWalk
  <2>3. QED
    BY <2>2
<1>2. ASSUME NEW k \in Nat, k \in Good PROVE k + 1 \in Good
  <2>1. PICK walk : IsWalk(items, k, walk)
    BY <1>2
  <2> DEFINE more == [S \in SUBSET (1 .. k + 1) |->
                        IF k + 1 \in S THEN Visit(items, k + 1, walk[S \ {k + 1}]) ELSE walk[S]]
  <2>2. ASSUME NEW S \in SUBSET (1 .. k + 1)
        PROVE  more[S] = IF S = {} THEN 0 ELSE Visit(items, Max(S), more[S \ {Max(S)}])
    <3>1. CASE k + 1 \in S
      <4>1. Max(S) \in S /\ \A m \in S : m <= Max(S)
        <5>1. k + 1 \in Nat /\ S # {}
          BY <3>1
        <5> HIDE DEF more
        <5>2. QED
          BY <5>1, MaxIsMember
      <4>2. Max(S) = k + 1
        <5>1. Max(S) \in 1 .. k + 1 /\ k + 1 <= Max(S)
          BY <3>1, <4>1
        <5>2. QED
          BY <5>1
      <4>3. /\ S \ {k + 1} \in SUBSET (1 .. k + 1) /\ k + 1 \notin S \ {k + 1}
            /\ more[S \ {k + 1}] = walk[S \ {k + 1}]
        OBVIOUS
      <4>4. more[S] = Visit(items, k + 1, walk[S \ {k + 1}])
        BY <3>1
      <4> HIDE DEF more
      <4>5. QED
        BY <3>1, <4>2, <4>3, <4>4
    <3>2. CASE k + 1 \notin S
      <4>1. S \in SUBSET (1 .. k) /\ more[S] = walk[S]
        BY <3>2
      <4>2. walk[S] = IF S = {} THEN 0 ELSE Visit(items, Max(S), walk[S \ {Max(S)}])
        BY <2>1, <4>1 DEF IsWalk
      <4>3. more[S \ {Max(S)}] = walk[S \ {Max(S)}]
        BY <3>2
      <4> HIDE DEF more
      <4>4. QED
        BY <4>1, <4>2, <4>3
    <3>3. QED
      BY <3>1, <3>2
  <2>3. IsWalk(items, k + 1, more)
    <3>1. more = [S \in SUBSET (1 .. k + 1) |-> more[S]]
      OBVIOUS
    <3> HIDE DEF more
    <3>2. QED
      BY <2>2, <3>1 DEF IsWalk
  <2>4. QED
    BY <2>3
<1>3. QED
  <2> HIDE DEF Good
  <2>1. n \in Good
    BY <1>1, <1>2, SetInduction
  <2>2. QED
    BY <2>1 DEF Good

\* WalkedSql is the walk over all items.
LEMMA WalkedSqlIsWalk ==
    ASSUME NEW items \in Seq(Items)
    PROVE  \E walk : IsWalk(items, Len(items), walk) /\ WalkedSql(items) = walk[1 .. Len(items)]
<1> DEFINE n == Len(items)
           walk == CHOOSE walk : IsWalk(items, n, walk)
           fold == CHOOSE iter : iter =
                      [S \in SUBSET (1 .. n) |->
                          IF S = {} THEN 0
                          ELSE Visit(items, [i \in 1 .. n |-> i][Max(S)], iter[S \ {Max(S)}])]
<1>1. n \in Nat /\ DOMAIN items = 1 .. n
  OBVIOUS
<1>2. IsWalk(items, n, walk)
  BY <1>1, WalkExists
<1>3. ASSUME NEW S \in SUBSET (1 .. n), S # {}
      PROVE  [i \in 1 .. n |-> i][Max(S)] = Max(S)
  BY <1>1, <1>3, MaxIsMember
<1>4. WalkedSql(items) = fold[1 .. n]
  BY <1>1 DEF WalkedSql, FoldLeft, MapThenFoldSet
<1>5. ASSUME NEW f
      PROVE  IsWalk(items, n, f) <=>
                f = [S \in SUBSET (1 .. n) |->
                          IF S = {} THEN 0
                          ELSE Visit(items, [i \in 1 .. n |-> i][Max(S)], f[S \ {Max(S)}])]
  BY <1>3 DEF IsWalk
<1>6. fold = walk
  BY <1>5
<1>7. QED
  BY <1>2, <1>4, <1>6

\* What the walk over the first m items holds: the last of them that tells of SQL,
\* unless that one was malformed.
Telling(items, m) == {i \in 1 .. m : items[i] \in RunQueryItems \ {"no_sql"}}

HoldsLast(items, m, sql) ==
    \/ Telling(items, m) = {} /\ sql = 0
    \/ \E last \in Telling(items, m) :
          /\ \A i \in Telling(items, m) : i <= last
          /\ sql = IF items[last] = "malformed" THEN 0 ELSE last

LEMMA VisitHolds ==
    ASSUME NEW items \in Seq(Items), NEW m \in Nat, m + 1 <= Len(items),
           NEW sql, HoldsLast(items, m, sql)
    PROVE  HoldsLast(items, m + 1, Visit(items, m + 1, sql))
<1>1. items[m + 1] \in Items
  OBVIOUS
<1>2. CASE items[m + 1] \in RunQueryItems \ {"no_sql"}
  <2>1. m + 1 \in Telling(items, m + 1) /\ \A i \in Telling(items, m + 1) : i <= m + 1
    BY <1>2 DEF Telling
  <2>2. Visit(items, m + 1, sql) = IF items[m + 1] = "malformed" THEN 0 ELSE m + 1
    BY <1>2 DEF Visit, RunQueryItems
  <2>3. QED
    BY <2>1, <2>2 DEF HoldsLast
<1>3. CASE items[m + 1] \notin RunQueryItems \ {"no_sql"}
  <2>1. Telling(items, m + 1) = Telling(items, m)
    BY <1>3 DEF Telling
  <2>2. Visit(items, m + 1, sql) = sql
    BY <1>1, <1>3 DEF Visit, RunQueryItems, Items
  <2>3. QED
    BY <2>1, <2>2 DEF HoldsLast
<1>4. QED
  BY <1>2, <1>3

LEMMA WalkedSqlHolds ==
    ASSUME NEW items \in Seq(Items)
    PROVE  HoldsLast(items, Len(items), WalkedSql(items))
<1> DEFINE n == Len(items)
<1>1. PICK walk : IsWalk(items, n, walk) /\ WalkedSql(items) = walk[1 .. n]
  BY WalkedSqlIsWalk
<1> DEFINE Good == {m \in Nat : m <= n => HoldsLast(items, m, walk[1 .. m])}
<1>2. n \in Nat
  OBVIOUS
<1>3. 0 \in Good
  <2>1. 1 .. 0 = {} /\ {} \in SUBSET (1 .. n)
    OBVIOUS
  <2>2. walk[1 .. 0] = 0
    BY <1>1, <2>1 DEF IsWalk
  <2>3. Telling(items, 0) = {}
    BY <2>1 DEF Telling
  <2>4. QED
    BY <2>2, <2>3 DEF HoldsLast
<1>4. ASSUME NEW m \in Nat, m \in Good PROVE m + 1 \in Good
  <2>1. SUFFICES ASSUME m + 1 <= n PROVE HoldsLast(items, m + 1, walk[1 .. m + 1])
    OBVIOUS
  <2>2. HoldsLast(items, m, walk[1 .. m])
    BY <1>2, <1>4, <2>1
  <2>3. /\ 1 .. m + 1 \in SUBSET (1 .. n) /\ 1 .. m + 1 # {} /\ m + 1 \in Nat
        /\ 1 .. m + 1 \in SUBSET (1 .. m + 1)
    <3> HIDE DEF n
    <3>1. m + 1 \in 1 .. m + 1
      OBVIOUS
    <3>2. \A i \in 1 .. m + 1 : i \in 1 .. n
      BY <1>2, <2>1
    <3>3. QED
      BY <3>1, <3>2
  <2>4. Max(1 .. m + 1) \in 1 .. m + 1 /\ \A i \in 1 .. m + 1 : i <= Max(1 .. m + 1)
    BY <2>3, MaxIsMember
  <2>5. Max(1 .. m + 1) = m + 1
    <3>1. m + 1 \in 1 .. m + 1
      OBVIOUS
    <3>2. m + 1 <= Max(1 .. m + 1)
      BY <2>4, <3>1
    <3>3. QED
      BY <2>4, <3>2
  <2>6. (1 .. m + 1) \ {m + 1} = 1 .. m
    OBVIOUS
  <2>7. walk[1 .. m + 1] = Visit(items, m + 1, walk[1 .. m])
    BY <1>1, <2>3, <2>5, <2>6 DEF IsWalk
  <2>8. QED
    BY <2>1, <2>2, <2>7, VisitHolds
<1>5. n \in Good
  <2> HIDE DEF Good, n
  <2>1. QED
    BY <1>2, <1>3, <1>4, SetInduction
<1>6. QED
  BY <1>1, <1>5

\* A proposal is what the walk makes of the output.
ProposalInv ==
    /\ output \in Seq(Items)
    /\ outcome = "proposed" =>
          /\ proposal.sql = WalkedSql(output)
          /\ proposal.hasQuery <=> HasQuery(output, proposal.sql)

LEMMA CallKeepsProposalInv ==
    ASSUME CallInv, ProposalInv, [Next]_vars
    PROVE  ProposalInv'
<1>1. CASE Build \/ Send
  BY <1>1 DEF Build, Send, ProposalInv
<1>2. CASE Progress \/ AttemptTimesOut \/ AttemptFails \/ ProviderRefuses
  <2>1. UNCHANGED <<output, proposal>> /\ outcome' \in {outcome, "LLMError", "LLMTimeoutError"}
    BY <1>2 DEF Progress, AttemptTimesOut, AttemptFails, ProviderRefuses, RetryOrRaise, Raise
  <2>2. QED
    BY <2>1 DEF ProposalInv
<1>3. CASE ProviderAnswers
  <2>1. output' \in Seq(Items)
    BY <1>3 DEF ProviderAnswers, SeqOf
  <2>2. outcome' # "proposed"
    BY <1>3 DEF ProviderAnswers, CallInv
  <2>3. QED
    BY <2>1, <2>2 DEF ProposalInv
<1>4. CASE Extract
  BY <1>4 DEF Extract, ProposalInv
<1>5. CASE UNCHANGED vars
  BY <1>5 DEF vars, ProposalInv
<1>6. QED
  BY <1>1, <1>2, <1>3, <1>4, <1>5 DEF Next

LEMMA ProposalInvInductive == PreflightSpec => []ProposalInv
<1>1. PreflightInit => ProposalInv
  BY DEF PreflightInit, Init, ProposalInv
<1>2. CallInv /\ ProposalInv /\ [PreflightNext]_allVars => ProposalInv'
  BY ProgramsKeepTheCall, CallKeepsProposalInv DEF allVars
<1>3. QED
  BY <1>1, <1>2, CallInvInductive, PTL DEF PreflightSpec

(***************************************************************************)
(* However many items a response has and in whatever order, the SQL that   *)
(* _extract proposes is that of the last run_query call that tells of any: *)
(* no other item becomes a query, revives one or erases one.               *)
(***************************************************************************)
THEOREM LastWordDecides == PreflightSpec => []LastWordWins
<1>1. ProposalInv => LastWordWins
  <2> SUFFICES ASSUME ProposalInv, outcome = "proposed" PROVE LastWordWins
    BY DEF LastWordWins
  <2> DEFINE telling == Telling(output, Len(output))
             sql == WalkedSql(output)
  <2>1. telling = {i \in DOMAIN output : output[i] \in RunQueryItems \ {"no_sql"}}
    BY DEF Telling, ProposalInv
  <2>2. HoldsLast(output, Len(output), sql)
    BY WalkedSqlHolds DEF ProposalInv
  <2>3. proposal.sql = sql /\ (proposal.hasQuery <=> HasQuery(output, sql))
    BY DEF ProposalInv
  <2>4. CASE telling = {} /\ sql = 0
    <3>1. Max(telling \cup {0}) = 0
      BY <2>4 DEF Max
    <3> HIDE DEF telling, sql
    <3>2. QED
      BY <2>1, <2>3, <2>4, <3>1 DEF LastWordWins, HasQuery
  <2>5. ASSUME NEW last \in telling, \A i \in telling : i <= last,
               sql = IF output[last] = "malformed" THEN 0 ELSE last
        PROVE  LastWordWins
    <3>1. telling \subseteq Nat \ {0}
      BY DEF Telling
    <3>2. Max(telling \cup {0}) = last
      <4> HIDE DEF telling
      <4>1. last \in telling \cup {0} /\ \A i \in telling \cup {0} : last >= i
        BY <2>5, <3>1
      <4>2. \A m \in telling \cup {0} : (\A i \in telling \cup {0} : m >= i) => m = last
        BY <3>1, <4>1
      <4>3. QED
        BY <4>1, <4>2 DEF Max
    <3>3. last # 0 /\ output[last] \in RunQueryItems \ {"no_sql"}
      BY <2>1, <3>1
    <3> HIDE DEF telling, sql
    <3>4. HasQuery(output, sql) <=> output[last] = "sql"
      BY <2>5, <3>3 DEF HasQuery, RunQueryItems
    <3>5. QED
      BY <2>1, <2>3, <2>5, <3>2, <3>3, <3>4 DEF LastWordWins
  <2>6. QED
    BY <2>2, <2>4, <2>5 DEF HoldsLast
<1>2. QED
  BY <1>1, ProposalInvInductive, PTL
-----------------------------------------------------------------------------
(***************************************************************************)
(* Where the programs are, and what the exit codes tell.  What makes it    *)
(* inductive is that the call is built, and so paid for, only while the    *)
(* smoke test is at its question, and that a program that ended stays so.  *)
(***************************************************************************)
PlaceInv ==
    /\ PreflightTypeOK
    /\ at \notin {"smoke_ask", "exited"} => stage = "unbuilt"
    /\ at = "smoke_ask" => stage # "unbuilt"
    /\ ExitCodesTell

\* A step that is not the call's leaves it as it is, and the environment.
LEMMA OthersLeaveTheCall ==
    ASSUME NEW others, Own(others)
    PROVE  /\ UNCHANGED <<stage, attempts, outcome, proposal, warehouse, changes>>
           /\ PipelineImports' = PipelineImports
<1>1. UNCHANGED <<env, stage, attempts, outcome, proposal, warehouse, changes>>
  BY DEF Own, vars
<1>2. QED
  BY <1>1 DEF PipelineImports, SettingsLoad, ConfigImports, Installed, SettingsRaise

\* None is no content and no exit code.
LEMMA NoneIsApart == None \notin Contents /\ None # 0 /\ None # 1 /\ None # 2 /\ MaxChanges \in Nat
<1>1. None \notin Contents /\ None \notin Int /\ MaxChanges \in Nat
  BY PreflightAssumption
<1>2. QED
  BY <1>1

LEMMA PlaceInit == PreflightInit => PlaceInv
<1>1. ASSUME PreflightInit PROVE PreflightTypeOK
  <2>1. stage = "unbuilt" /\ passed \in BOOLEAN /\ settled \in BOOLEAN
    BY <1>1 DEF PreflightInit, Init
  <2>2. /\ warehouse \in Files /\ changes = 0 /\ at = "idle" /\ verdict = "none"
        /\ known = None /\ exit = None
    BY <1>1 DEF PreflightInit
  <2>3. changes \in 0 .. MaxChanges
    BY <2>2, NoneIsApart
  <2>4. QED
    BY <2>1, <2>2, <2>3 DEF PreflightTypeOK
<1>2. ASSUME PreflightInit PROVE ExitCodesTell
  BY <1>2, NoneIsApart DEF PreflightInit, ExitCodesTell
<1>3. QED
  BY <1>1, <1>2 DEF PreflightInit, Init, PlaceInv

\* A program that goes on tells nothing yet.
LEMMA NoExitTellsNothing == exit' = None => ExitCodesTell'
  BY NoneIsApart DEF ExitCodesTell

LEMMA DiagnosticKeepsPlace ==
    ASSUME PlaceInv, LoadContext \/ CheckWarehouse \/ CheckReadOnly
    PROVE  PlaceInv'
<1>1. /\ UNCHANGED <<stage, attempts, outcome, proposal, warehouse, changes>>
      /\ PipelineImports' = PipelineImports
  BY OthersLeaveTheCall DEF LoadContext, CheckWarehouse, CheckReadOnly
<1>2. UNCHANGED <<known, exit>>
  BY DEF LoadContext, CheckWarehouse, CheckReadOnly, Own
<1>3. /\ at \in {"idle", "check_warehouse", "check_read_only"}
      /\ at' \in {"check_warehouse", "check_read_only", "reported"}
  BY DEF LoadContext, CheckWarehouse, CheckReadOnly, Report, Goto
<1>4. passed' \in BOOLEAN
  BY DEF LoadContext, CheckWarehouse, CheckReadOnly, Report, PlaceInv, PreflightTypeOK,
         ProcessChecks
<1>5. verdict' \in {"none", "READY", "NOT READY", "traceback"} /\ settled' \in BOOLEAN
  BY DEF LoadContext, CheckWarehouse, CheckReadOnly, Report, Own, PlaceInv, PreflightTypeOK
<1>6. exit' = None /\ ExitCodesTell'
  BY <1>2, <1>3, NoExitTellsNothing DEF PlaceInv, PreflightTypeOK
<1>7. PreflightTypeOK'
  BY <1>1, <1>2, <1>3, <1>4, <1>5, <1>6 DEF PlaceInv, PreflightTypeOK
<1>8. QED
  BY <1>1, <1>3, <1>6, <1>7 DEF PlaceInv

LEMMA StartupKeepsPlace ==
    ASSUME PlaceInv, ImportApp \/ ValidateConfig \/ Introspect
    PROVE  PlaceInv'
<1>1. /\ UNCHANGED <<stage, attempts, outcome, proposal, warehouse, changes>>
      /\ PipelineImports' = PipelineImports
  BY OthersLeaveTheCall DEF ImportApp, ValidateConfig, Introspect
<1>2. UNCHANGED <<passed, verdict, settled, exit>>
  BY DEF ImportApp, ValidateConfig, Introspect, Own, checked
<1>3. /\ at \in {"idle", "reported", "validate_config", "introspect"}
      /\ at' \in {"validate_config", "introspect", "serving", "failed"}
  BY DEF ImportApp, ValidateConfig, Introspect, Proceed, Goto
<1>4. known' \in Contents \cup {None} /\ (at' = "serving" => known' # None)
  BY NoneIsApart DEF ImportApp, ValidateConfig, Introspect, Proceed, Goto, Own, Opens,
     PlaceInv, PreflightTypeOK
<1>5. exit' = None /\ ExitCodesTell'
  BY <1>2, <1>3, NoExitTellsNothing DEF PlaceInv, PreflightTypeOK
<1>6. PreflightTypeOK'
  BY <1>1, <1>2, <1>3, <1>4, <1>5 DEF PlaceInv, PreflightTypeOK
<1>7. QED
  BY <1>1, <1>3, <1>5, <1>6 DEF PlaceInv

LEMMA SmokeKeepsPlace ==
    ASSUME PlaceInv, CallInv, CallInv', SmokeLoad \/ SmokeStep \/ SmokeAsk
    PROVE  PlaceInv'
<1>1. UNCHANGED <<warehouse, changes, passed, verdict, settled>>
  BY DEF SmokeLoad, SmokeStep, SmokeOpen, SmokeBuild, SmokeConclude, SmokeAsk, Own,
         preflight, checked
<1>2. CASE SmokeLoad
  <2>1. /\ UNCHANGED <<stage, attempts, outcome, proposal, warehouse, changes>>
        /\ PipelineImports' = PipelineImports
    BY <1>2, OthersLeaveTheCall DEF SmokeLoad
  <2>2. /\ at = "idle" /\ UNCHANGED known
        /\ \/ at' = "exited" /\ exit' = 1 /\ ~PipelineImports
           \/ at' = "exited" /\ exit' = 2
           \/ at' = "smoke_open" /\ UNCHANGED exit
    BY <1>2 DEF SmokeLoad, Exit, Goto, Own
  <2>3. stage = "unbuilt" /\ attempts = 0 /\ exit = None
    BY <2>2 DEF PlaceInv, PreflightTypeOK, CallInv
  <2>4. ExitCodesTell'
    BY <2>1, <2>2, <2>3, NoneIsApart DEF ExitCodesTell
  <2>5. PreflightTypeOK'
    BY <1>1, <2>1, <2>2, <2>3, NoneIsApart DEF PlaceInv, PreflightTypeOK
  <2>6. QED
    BY <2>1, <2>2, <2>3, <2>4, <2>5 DEF PlaceInv
<1>3. CASE SmokeOpen
  <2>1. /\ UNCHANGED <<stage, attempts, outcome, proposal, warehouse, changes>>
        /\ PipelineImports' = PipelineImports
    BY <1>3, OthersLeaveTheCall DEF SmokeOpen
  <2>2. /\ at = "smoke_open" /\ known' \in Contents \cup {None}
        /\ \/ at' = "exited" /\ exit' = 2
           \/ at' = "smoke_build" /\ known' # None /\ UNCHANGED exit
    BY <1>3 DEF SmokeOpen, Exit, Goto, Opens
  <2>3. stage = "unbuilt" /\ attempts = 0 /\ exit = None
    BY <2>2 DEF PlaceInv, PreflightTypeOK, CallInv
  <2>4. ExitCodesTell'
    BY <2>1, <2>2, <2>3, NoneIsApart DEF ExitCodesTell
  <2>5. PreflightTypeOK'
    BY <1>1, <2>1, <2>2, <2>3, NoneIsApart DEF PlaceInv, PreflightTypeOK
  <2>6. QED
    BY <2>1, <2>2, <2>3, <2>4, <2>5 DEF PlaceInv
<1>4. CASE SmokeBuild
  <2>1. /\ at = "smoke_build" /\ at' = "smoke_ask" /\ stage' = "ready"
        /\ UNCHANGED <<known, exit, attempts>>
    BY <1>4 DEF SmokeBuild, Build, Goto
  <2>2. known # None /\ exit = None
    BY <2>1 DEF PlaceInv, PreflightTypeOK
  <2>3. PreflightTypeOK'
    BY <1>1, <2>1, <2>2 DEF PlaceInv, PreflightTypeOK
  <2>4. QED
    BY <2>1, <2>2, <2>3, NoExitTellsNothing DEF PlaceInv
<1>5. CASE SmokeAsk
  <2>1. at = "smoke_ask" /\ UNCHANGED <<at, known, exit>>
    BY <1>5 DEF SmokeAsk, preflight
  <2>2. stage' # "unbuilt"
    BY <1>5 DEF SmokeAsk, CallStep, OwnCallStep, Send, Progress, AttemptTimesOut, AttemptFails,
       ProviderRefuses, ProviderAnswers, Extract, RetryOrRaise, Raise
  <2>3. known # None /\ exit = None
    BY <2>1 DEF PlaceInv, PreflightTypeOK
  <2>4. PreflightTypeOK'
    BY <1>1, <2>1, <2>2, <2>3 DEF PlaceInv, PreflightTypeOK
  <2>5. QED
    BY <2>1, <2>2, <2>3, <2>4, NoExitTellsNothing DEF PlaceInv
<1>6. CASE SmokeConclude
  <2>1. /\ UNCHANGED <<stage, attempts, outcome, proposal, warehouse, changes>>
        /\ PipelineImports' = PipelineImports
    BY <1>6, OthersLeaveTheCall DEF SmokeConclude
  <2>2. /\ at = "smoke_ask" /\ at' = "exited" /\ stage = "done" /\ UNCHANGED known
        /\ \/ exit' = 0 /\ outcome = "proposed" /\ proposal.hasQuery
           \/ exit' = 1
    BY <1>6 DEF SmokeConclude, Completes, Exit, Goto, Own
  <2>3. attempts > 0
    BY <2>2, LLMClientAssumption DEF CallInv
  <2>4. ExitCodesTell'
    BY <2>1, <2>2, <2>3 DEF ExitCodesTell
  <2>5. PreflightTypeOK'
    BY <1>1, <2>1, <2>2, NoneIsApart DEF PlaceInv, PreflightTypeOK
  <2>6. QED
    BY <2>1, <2>2, <2>4, <2>5 DEF PlaceInv
<1>7. QED
  BY <1>2, <1>3, <1>4, <1>5, <1>6 DEF SmokeStep

\* A change of the file, or none of anything.
LEMMA IdlenessKeepsPlace ==
    ASSUME PlaceInv, FileChanges \/ UNCHANGED allVars
    PROVE  PlaceInv'
<1>1. UNCHANGED <<env, stage, attempts, outcome, proposal, at, passed, verdict, known, exit>>
  BY DEF FileChanges, allVars, preflight, checked, vars
<1>2. PipelineImports' = PipelineImports
  BY <1>1 DEF PipelineImports, SettingsLoad, ConfigImports, Installed, SettingsRaise
<1>3. settled' \in BOOLEAN
  BY DEF FileChanges, allVars, preflight, checked, PlaceInv, PreflightTypeOK
<1>4. warehouse' \in Files /\ changes' \in 0 .. MaxChanges
  <2>1. warehouse \in Files /\ changes \in 0 .. MaxChanges
    BY DEF PlaceInv, PreflightTypeOK
  <2>2. \/ changes < MaxChanges /\ changes' = changes + 1 /\ warehouse' \in Files
        \/ UNCHANGED <<warehouse, changes>>
    BY DEF FileChanges, allVars, preflight
  <2>3. QED
    BY <2>1, <2>2, NoneIsApart
<1>5. PreflightTypeOK'
  BY <1>1, <1>3, <1>4 DEF PlaceInv, PreflightTypeOK
<1>6. ExitCodesTell'
  BY <1>1, <1>2 DEF PlaceInv, ExitCodesTell
<1>7. QED
  BY <1>1, <1>5, <1>6 DEF PlaceInv

LEMMA PlaceInvInductive == PreflightSpec => []PlaceInv
<1>1. PlaceInv /\ CallInv /\ CallInv' /\ [PreflightNext]_allVars => PlaceInv'
  BY DiagnosticKeepsPlace, StartupKeepsPlace, SmokeKeepsPlace, IdlenessKeepsPlace
     DEF PreflightNext
<1>2. QED
  BY <1>1, PlaceInit, CallInvInductive, PTL DEF PreflightSpec

(***************************************************************************)
(* The programs of a behaviour are where they can be: the smoke test asks  *)
(* only once it knows a content of the warehouse, and only there is its    *)
(* client in a call; it has an exit code exactly when it has ended.        *)
(***************************************************************************)
THEOREM PreflightTyped == PreflightSpec => []PreflightTypeOK
<1>1. PlaceInv => PreflightTypeOK
  BY DEF PlaceInv
<1>2. QED
  BY <1>1, PlaceInvInductive, PTL

(***************************************************************************)
(* The exit codes of scripts/smoke_test_openai.py tell what happened, in   *)
(* every environment: 0 a query that was proposed, 2 that nothing was      *)
(* sent, 1 that something was, or that the program could not load.         *)
(***************************************************************************)
THEOREM ExitCodesAreHonest == PreflightSpec => []ExitCodesTell
<1>1. PlaceInv => ExitCodesTell
  BY DEF PlaceInv
<1>2. QED
  BY <1>1, PlaceInvInductive, PTL
===============================================================================
