------------------------------ MODULE Preflight ------------------------------
(***************************************************************************)
(* The three programs that look at an environment before anyone is served: *)
(* the diagnostic (scripts/verify_env.py), the startup of the API          *)
(* (app/api/main.py) and the live smoke test                               *)
(* (scripts/smoke_test_openai.py), whose one question is LLMClient's call. *)
(*                                                                         *)
(* They share the environment, app/config.py and the warehouse file, which *)
(* someone else may replace between any two looks at it.  A behaviour runs *)
(* the diagnostic and then the API, either alone, or the smoke test: the   *)
(* smoke test would tell the others nothing.  LOG_LEVEL and the limiter's  *)
(* settings stop no program: a value that is no number means the default.  *)
(***************************************************************************)
EXTENDS LLMClient, Metadata

CONSTANTS
    Environments, \* values of os.environ and of what is installed, see below
    Catalogs,     \* authored metadata
    Contents,     \* contents of a DuckDB file
    SchemaOf,     \* their schemas
    NoFile, Directory, Corrupt, \* what else WAREHOUSE_PATH may lead to
    None,
    MaxChanges    \* bound of the model: changes of the file

(***************************************************************************)
(* An environment is [key, maxRows, defaultLimit, absent, python]: the API *)
(* key is "unset", "blank" or "set"; a setting is an integer, Unset or     *)
(* Garbage; absent holds the distributions that are not installed; python  *)
(* tells whether the interpreter is recent enough.                         *)
(***************************************************************************)
ASSUME PreflightAssumption ==
    /\ MaxChanges \in Nat
    /\ \A e \in Environments : e.key \in {"unset", "blank", "set"} /\ e.python \in BOOLEAN
    /\ None \notin Contents /\ None \notin Int

VARIABLES
    env, catalog, \* as above, constant in a behaviour
    warehouse,    \* what WAREHOUSE_PATH leads to now
    changes,      \* counter for the bound
    at,           \* the point the running program is at
    passed,       \* the diagnostic's checks have all passed so far
    verdict,      \* what it printed
    settled,      \* history: the file is as the diagnostic last saw it
    known,        \* the content a program introspected
    exit          \* exit code of the smoke test

checked == <<passed, verdict, settled>>
preflight == <<env, catalog, warehouse, changes, at, checked, known, exit>>
allVars == <<vars, preflight>>

Files == Contents \cup {NoFile, Directory, Corrupt}
IsFile(file) == file \notin {NoFile, Directory}
Exists(file) == file # NoFile
Opens(file) == file \in Contents  \* duckdb.connect(read_only=True)

PreflightInit ==
    /\ Init
    /\ env \in Environments /\ catalog \in Catalogs
    /\ warehouse \in Files /\ changes = 0
    /\ at = "idle"
    /\ passed = TRUE /\ verdict = "none" /\ settled = FALSE
    /\ known = None /\ exit = None
-----------------------------------------------------------------------------
(***************************************************************************)
(* app/config.py.  Importing it needs python-dotenv and calls              *)
(* load_settings, where int() refuses Garbage with a ValueError.           *)
(***************************************************************************)
Installed(package) == package \notin env.absent
Setting(value, default) == IF value = Unset THEN default ELSE value
MaxRows == Setting(env.maxRows, 1000)
DefaultLimit == Setting(env.defaultLimit, 100)

ConfigImports == Installed("python-dotenv")
SettingsRaise == Garbage \in {env.maxRows, env.defaultLimit}
SettingsLoad == ConfigImports /\ ~SettingsRaise

\* What the modules behind both programs import, app/llm/client.py included: a
\* missing SDK ends either before its LLMError could be raised.
PipelineImports == SettingsLoad /\ {"duckdb", "openai", "sqlglot"} \cap env.absent = {}
ApiImports == PipelineImports /\ {"fastapi", "pydantic", "uvicorn"} \cap env.absent = {}

KeySet == env.key # "unset"  \* `not os.environ.get` takes a blank key

Goto(point) == at' = point
Own(others) == UNCHANGED <<vars, env, catalog, warehouse, changes, others>>
-----------------------------------------------------------------------------
(***************************************************************************)
(* verify_env.  The checks are a registry, and READY means that all pass.  *)
(***************************************************************************)
RequiredPackages ==
    {"fastapi", "duckdb", "openai", "sqlglot", "pydantic", "streamlit", "httpx", "uvicorn"}

CheckConfiguration ==
    /\ SettingsLoad
    /\ MaxRows > 0 /\ DefaultLimit > 0 /\ DefaultLimit <= MaxRows

\* The checks of the process alone: Python, packages, DuckDB, SDK, the key, and
\* the configuration.
ProcessChecks ==
    /\ env.python
    /\ RequiredPackages \cap env.absent = {}
    /\ env.key = "set"
    /\ CheckConfiguration

\* _load_settings turns an ImportError into a failed check, but a ValueError
\* leaves it: the module raises as it is imported.
LoadContext ==
    /\ at = "idle"
    /\ IF ConfigImports /\ SettingsRaise
         THEN Goto("reported") /\ verdict' = "traceback" /\ UNCHANGED passed
         ELSE Goto("check_warehouse") /\ passed' = ProcessChecks /\ UNCHANGED verdict
    /\ Own(<<settled, known, exit>>)

CheckWarehouse ==
    /\ at = "check_warehouse"
    /\ passed' = (passed /\ SettingsLoad /\ IsFile(warehouse))
    /\ Goto("check_read_only")
    /\ Own(<<verdict, settled, known, exit>>)

Report(ok) ==
    /\ passed' = ok
    /\ verdict' = IF ok THEN "READY" ELSE "NOT READY"
    /\ settled' = TRUE
    /\ Goto("reported")

\* Mutant: a file that is there is taken for one that opens.
CheckReadOnlyByStat ==
    /\ at = "check_read_only"
    /\ Report(passed /\ SettingsLoad /\ IsFile(warehouse))
    /\ Own(<<known, exit>>)

CheckReadOnly ==
    /\ at = "check_read_only"
    /\ Report(passed /\ SettingsLoad /\ IsFile(warehouse) /\ Opens(warehouse))
    /\ Own(<<known, exit>>)
-----------------------------------------------------------------------------
(***************************************************************************)
(* The startup of the API: the imports, then the lifespan.                 *)
(***************************************************************************)
Proceed(ok, next) == Goto(IF ok THEN next ELSE "failed")

ImportApp ==
    /\ at \in {"idle", "reported"}
    /\ Proceed(ApiImports, "validate_config")
    /\ Own(<<checked, known, exit>>)

ValidateConfig ==
    /\ at = "validate_config"
    /\ Proceed(KeySet /\ Exists(warehouse), "introspect")
    /\ Own(<<checked, known, exit>>)

\* Mutant: a connection that did not open is introspected all the same.
IntrospectAnyFile ==
    /\ at = "introspect"
    /\ Proceed(IsFile(warehouse), "serving")
    /\ known' = IF Opens(warehouse) THEN warehouse ELSE None
    /\ Own(<<checked, exit>>)

\* open_readonly and introspect; the client and the assistant are built from what
\* they return, and the metadata is not validated against it.
Introspect ==
    /\ at = "introspect"
    /\ Proceed(Opens(warehouse), "serving")
    /\ known' = IF Opens(warehouse) THEN warehouse ELSE None
    /\ Own(<<checked, exit>>)
-----------------------------------------------------------------------------
(***************************************************************************)
(* The smoke test.  Exit code 1 is also Python's own for a traceback.      *)
(***************************************************************************)
Exit(code) == Goto("exited") /\ exit' = code

SmokeLoad ==
    /\ at = "idle"
    /\ \/ ~PipelineImports /\ Exit(1)
       \/ PipelineImports /\ ~KeySet /\ Exit(2)
       \/ PipelineImports /\ KeySet /\ Goto("smoke_open") /\ UNCHANGED exit
    /\ Own(<<checked, known>>)

\* The schema is introspected, and the metadata must be shippable against it.
SmokeOpen ==
    /\ at = "smoke_open"
    /\ known' = IF Opens(warehouse) THEN warehouse ELSE None
    /\ IF known' # None /\ IsShippable(ReportOf(catalog, SchemaOf[known']))
         THEN Goto("smoke_build") /\ UNCHANGED exit
         ELSE Exit(2)
    /\ Own(checked)

SmokeBuild ==
    /\ at = "smoke_build"
    /\ Build
    /\ Goto("smoke_ask")
    /\ UNCHANGED <<env, catalog, warehouse, changes, checked, known, exit>>

\* The call, step by step.
OwnCallStep == Send \/ AttemptTimesOut \/ Extract
CallStep == OwnCallStep \/ Progress \/ AttemptFails \/ ProviderRefuses \/ ProviderAnswers

SmokeAsk == at = "smoke_ask" /\ CallStep /\ UNCHANGED preflight

\* Mutant: a pipeline that ended in any way counts as completed.
CompletesAlways == {TRUE}

\* Does the rest of ask complete?  Without a query, never; with one, the gate
\* and DuckDB decide, if the file still opens.
Completes ==
    {ok \in BOOLEAN : ok => outcome = "proposed" /\ proposal.hasQuery /\ Opens(warehouse)}

SmokeConclude ==
    /\ at = "smoke_ask" /\ stage = "done"
    /\ \E ok \in Completes : Exit(IF ok THEN 0 ELSE 1)
    /\ Own(<<checked, known>>)
-----------------------------------------------------------------------------
FileChanges ==
    /\ changes < MaxChanges
    /\ changes' = changes + 1
    /\ warehouse' \in Files \ {warehouse}
    /\ settled' = FALSE
    /\ UNCHANGED <<vars, env, catalog, at, passed, verdict, known, exit>>

SmokeStep == SmokeOpen \/ SmokeBuild \/ SmokeConclude

PreflightNext ==
    \/ LoadContext \/ CheckWarehouse \/ CheckReadOnly
    \/ ImportApp \/ ValidateConfig \/ Introspect
    \/ SmokeLoad \/ SmokeStep \/ SmokeAsk
    \/ FileChanges

\* A program that runs goes on, and the SDK's clock with it; see LLMClient.
PreflightFairness ==
    /\ WF_allVars(SmokeStep)
    /\ WF_allVars(at = "smoke_ask" /\ OwnCallStep /\ UNCHANGED preflight)

PreflightSpec == PreflightInit /\ [][PreflightNext]_allVars /\ PreflightFairness
-----------------------------------------------------------------------------
\* Every variable has its type; a smoke test asks only once it knows a content,
\* and has an exit code exactly when it has ended.
PreflightTypeOK ==
    /\ warehouse \in Files /\ changes \in 0 .. MaxChanges
    /\ at \in {"idle", "check_warehouse", "check_read_only", "reported",
               "validate_config", "introspect", "serving", "failed",
               "smoke_open", "smoke_build", "smoke_ask", "exited"}
    /\ passed \in BOOLEAN /\ settled \in BOOLEAN
    /\ verdict \in {"none", "READY", "NOT READY", "traceback"}
    /\ known \in Contents \cup {None}
    /\ at \in {"serving", "smoke_build", "smoke_ask"} => known # None
    /\ exit \in {None, 0, 1, 2} /\ (exit # None <=> at = "exited")
    /\ stage \notin {"unbuilt", "done"} => at = "smoke_ask"

\* READY can be relied on: the API started in an environment that verify_env
\* found ready does not fail, as long as nobody replaced the warehouse after the
\* diagnostic's last look at it.  The two programs share none of their checks.
ReadyMeansStarts == verdict = "READY" /\ settled => at # "failed"

\* No credit is spent on a prompt that has drifted: whenever the smoke test has
\* sent a request, everything the system prompt names exists in the content it
\* introspected, however the authored metadata and the file differ otherwise.
GroundedSpend ==
    attempts > 0 =>
        /\ known # None /\ KeySet
        /\ Grounded(Grounding(SchemaOf[known], catalog), SchemaOf[known])

\* The exit codes that the module's docstring lists: 0 only for a query that was
\* answered, 2 only before any request was sent, and 1 after one was sent, or
\* when the program could not even load.
ExitCodesTell ==
    /\ exit = 0 => outcome = "proposed" /\ proposal.hasQuery
    /\ exit = 2 => attempts = 0
    /\ exit = 1 => attempts > 0 \/ ~PipelineImports
=============================================================================
