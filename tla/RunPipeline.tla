----------------------------- MODULE RunPipeline -----------------------------
(***************************************************************************)
(* From a rule on disk to tasks in the queue: what the web layer does for  *)
(* one pressed run (_execute in web/app.py), step by step, for one         *)
(* reviewed control of one property.                                       *)
(*                                                                         *)
(* The rule is loaded twice - once for the tasks, once more by run() - and *)
(* the run is saved, its findings taken and recorded in transactions of    *)
(* their own.  Meanwhile somebody edits the rule or the hotel's settings,  *)
(* and the server may stop.  A run's id is a digest of the body of         *)
(* evidence and the instant, not of the rule that judged it, so pressing   *)
(* the same run again replaces it.                                         *)
(***************************************************************************)
EXTENDS ActionRecords

CONSTANTS
  Records,      \* record ids of the population
  Rules,        \* [version, digest] the rule file may hold
  Settings,     \* what the tenant file may state
  Verdicts,     \* Verdicts[run][digest][settings]: record -> outcome, or None (blocked)
  FirstRule     \* the rule file to begin with

OUTCOMES == {"PASS", "FAIL", "UNKNOWN"}
BLOCKED  == None

ASSUME RulesAssumption ==
  /\ FirstRule \in Rules
  /\ \A rule \in Rules : DOMAIN rule = {"version", "digest"}

Versions == {rule.version : rule \in Rules}
Digests  == {rule.digest : rule \in Rules}

ASSUME VerdictsAssumption ==
  Verdicts \in [Runs -> [Digests -> [Settings -> [Records -> OUTCOMES] \union {BLOCKED}]]]

StoredRun == [run : Runs, version : Versions, digest : Digests,
              verdicts : [Records -> OUTCOMES] \union {BLOCKED}]

ASSUME NoRunAssumption == None \notin StoredRun

VARIABLES
  ruleFile,     \* spec/ir/<control>.json
  settings,     \* the settings block of the tenant file
  runs,         \* run id -> the stored run, or None
  actions,      \* version -> record -> task row, or NoTask
  written,      \* version -> record -> the rule columns of that row: digest, action block
  pc,           \* where the server is in _execute
  ir,           \* the rule it loaded for the tasks
  result,       \* the run it holds
  completed     \* history: runs whose FAILs were recorded

vars == <<ruleFile, settings, runs, actions, written, pc, ir, result, completed>>

Init ==
  /\ ruleFile = FirstRule
  /\ settings \in Settings
  /\ runs = [run \in Runs |-> None]
  /\ actions = [v \in Versions |-> [r \in Records |-> NoTask]]
  /\ written = [v \in Versions |-> [r \in Records |-> None]]
  /\ pc = "idle"
  /\ ir = None
  /\ result = None
  /\ completed = {}

\* A run is asked for: the rule is loaded, and the evidence chosen.
Select(run) ==
  /\ pc = "idle"
  /\ pc' = "selected"
  /\ ir' = ruleFile
  /\ result' = [run |-> run]
  /\ UNCHANGED <<ruleFile, settings, runs, actions, written, completed>>

\* run(): loads the rule again, and judges the evidence under it and the hotel's
\* settings.  The version and digest are those of the rule it loaded itself.
Run ==
  /\ pc = "selected"
  /\ pc' = "judged"
  /\ result' = [run      |-> result.run,
                version  |-> ruleFile.version,
                digest   |-> ruleFile.digest,
                verdicts |-> Verdicts[result.run][ruleFile.digest][settings]]
  /\ UNCHANGED <<ruleFile, settings, runs, actions, written, ir, completed>>

Of(run, outcome) ==
  IF run.verdicts = BLOCKED THEN {} ELSE {r \in Records : run.verdicts[r] = outcome}

\* A run with nothing to show not kept.
Save_FailingOnly ==
  /\ pc = "judged"
  /\ pc' = "saved"
  /\ runs' = IF Of(result, "FAIL") = {} THEN runs
             ELSE [runs EXCEPT ![result.run] = result]
  /\ UNCHANGED <<ruleFile, settings, actions, written, ir, result, completed>>

\* save(): one transaction; the id is the evidence's and the instant's, so an
\* earlier run of the same evidence is replaced, verdicts and all.
Save ==
  /\ pc = "judged"
  /\ pc' = "saved"
  /\ runs' = [runs EXCEPT ![result.run] = result]
  /\ UNCHANGED <<ruleFile, settings, actions, written, ir, result, completed>>

\* The digests not compared.
SameRule_VersionOnly(run, rule) == run.version = rule.version

\* findings_from() refuses a rule that is not the one that judged the run.
SameRule(run, rule) == run.version = rule.version /\ run.digest = rule.digest

\* A run concluded when it was not blocked and answered about some record.
Concluded(run) == Of(run, "FAIL") \union Of(run, "PASS") # {}

\* What findings_from() takes from a run.
Failing(run) == IF Concluded(run) THEN Of(run, "FAIL") ELSE {}
Passing(run) == IF Concluded(run) THEN Of(run, "PASS") ELSE {}

\* The request fails: the run stays stored and raises nothing.
Refuse ==
  /\ pc = "saved"
  /\ ~SameRule(result, ir)
  /\ pc' = "idle"
  /\ ir' = None
  /\ result' = None
  /\ UNCHANGED <<ruleFile, settings, runs, actions, written, completed>>

\* The natural key without its version: rows of whichever version came first.
KeyVersion_First(version) == CHOOSE v \in Versions : \A w \in Versions : v <= w

\* The version a finding's task is filed under.
KeyVersion(version) == version

\* record_findings() of what findings_from() took: one transaction (with other
\* processes on the store file, see FindingsQueue).  The rule columns of a row are
\* written by the INSERT and never again: policy_digest is the run's, severity and
\* audience are copied from the action block of the rule that was handed in.
RecordFindings ==
  LET v == KeyVersion(result.version)
      after(r) ==
        LET row == actions[v][r] IN
        IF r \in Failing(result) THEN RecordFailing(row, result.run)
        ELSE IF r \in Passing(result) THEN RecordPassing(row, result.run)
        ELSE row
  IN
  /\ pc = "saved"
  /\ SameRule(result, ir)
  /\ pc' = "idle"
  /\ actions' = [actions EXCEPT ![v] = [r \in Records |-> after(r)]]
  /\ written' = [written EXCEPT ![v] =
       [r \in Records |-> IF actions[v][r] = NoTask /\ r \in Failing(result)
                          THEN [digest |-> result.digest, block |-> ir.digest]
                          ELSE written[v][r]]]
  /\ completed' = IF Of(result, "FAIL") = {} THEN completed ELSE completed \union {result}
  /\ ir' = None
  /\ result' = None
  /\ UNCHANGED <<ruleFile, settings, runs>>

\* A person closes a task (RunStore.transition, as in FindingsQueue).
MoveTask(v, r, target) ==
  /\ pc = "idle"
  /\ actions[v][r] # NoTask
  /\ Allowed(actions[v][r], target)
  /\ \E actor \in Actors :
       actions' = [actions EXCEPT ![v][r] = Close(@, target, actor)]
  /\ UNCHANGED <<ruleFile, settings, runs, written, pc, ir, result, completed>>

\* The server stops, or a step raises: what was committed stays committed.
Crash ==
  /\ pc # "idle"
  /\ pc' = "idle"
  /\ ir' = None
  /\ result' = None
  /\ UNCHANGED <<ruleFile, settings, runs, actions, written, completed>>

\* The rule file is replaced: with its version bumped, or edited without.
EditRule(rule) ==
  /\ rule # ruleFile
  /\ ruleFile' = rule
  /\ UNCHANGED <<settings, runs, actions, written, pc, ir, result, completed>>

EditSettings(stated) ==
  /\ stated # settings
  /\ settings' = stated
  /\ UNCHANGED <<ruleFile, runs, actions, written, pc, ir, result, completed>>

Next ==
  \/ \E run \in Runs : Select(run)
  \/ Run \/ Save \/ Refuse \/ RecordFindings \/ Crash
  \/ \E v \in Versions, r \in Records, target \in STATES : MoveTask(v, r, target)
  \/ \E rule \in Rules : EditRule(rule)
  \/ \E stated \in Settings : EditSettings(stated)

Spec == Init /\ [][Next]_vars

------------------------------------------------------------------------------
\* Types of the variables.
TypeOK ==
  /\ ruleFile \in Rules /\ settings \in Settings
  /\ runs \in [Runs -> StoredRun \union {None}]
  /\ actions \in [Versions -> [Records -> ActionRecord \union {NoTask}]]
  /\ written \in [Versions -> [Records -> [digest : Digests, block : Digests] \union {None}]]
  /\ pc \in {"idle", "selected", "judged", "saved"}
  /\ ir \in Rules \union {None}
  /\ completed \subseteq StoredRun

Task(v, r) == actions[v][r] # NoTask
Receipts(v, r) == {actions[v][r].raised_by_run, actions[v][r].last_failing_run,
                   actions[v][r].cleared_by_run} \ {None}

\* Every run a task names - who raised it, who last found it failing, who found it
\* passing since - is in the store under that id, wherever the server stopped.
ReceiptsAreStored ==
  \A v \in Versions, r \in Records :
    Task(v, r) => \A run \in Receipts(v, r) : runs[run] # None

\* A task names the rule that raised it: the digest beside its version and the
\* action block its severity and audience came from are one rule's, and a run
\* judged under that rule, the run it names, failed the record - however the rule
\* was edited between the two loads, or since.
TaskIsItsRules ==
  \A v \in Versions, r \in Records : Task(v, r) =>
    /\ written[v][r].digest = written[v][r].block
    /\ \E run \in completed :
         /\ run.run = actions[v][r].raised_by_run
         /\ run.version = v /\ run.digest = written[v][r].digest
         /\ run.verdicts # BLOCKED /\ run.verdicts[r] = "FAIL"

\* A run that failed records and whose request went through has left a task for
\* each, under the version that judged it, with a receipt no older than itself.
CompletedRunsRaised ==
  \A run \in completed : \A r \in Of(run, "FAIL") :
    /\ Task(run.version, r)
    /\ At[run.run] <= At[actions[run.version][r].last_failing_run]

\* Tasks of one version are never touched by runs judged under another (a fixed
\* rule raises a new task; "the old one stays linked to the rule that raised it").
OtherVersionsUntouched ==
  [][\A v \in Versions : pc = "saved" /\ v # result.version => actions'[v] = actions[v]]_vars

\* "run_id links to the stored run that is this record's receipt": the stored run
\* of a task's receipt shows the record failing, under the version the task names.
ReceiptShowsTheFailure ==
  \A v \in Versions, r \in Records : Task(v, r) =>
    LET run == runs[actions[v][r].last_failing_run] IN
    /\ run # None
    /\ run.version = v
    /\ r \in Of(run, "FAIL")
==============================================================================
