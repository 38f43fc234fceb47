-------------------------- MODULE RunPipelineProofs --------------------------
(* What _execute promises about the tasks it leaves, for any rules, settings *)
(* and evidence, however they are edited and wherever the server stops.      *)
EXTENDS RunPipeline, TLAPS

\* What the server holds between two steps.
HeldOK ==
  /\ pc = "selected" => result \in [run : Runs] /\ ir \in Rules
  /\ pc \in {"judged", "saved"} => result \in StoredRun /\ ir \in Rules
  /\ pc = "saved" => runs[result.run] # None

PipeInv == TypeOK /\ HeldOK /\ ReceiptsAreStored /\ TaskIsItsRules /\ CompletedRunsRaised

\* What one finding leaves of a row, typed.
LEMMA RowsStayRows ==
  ASSUME NEW run \in Runs, NEW row \in ActionRecord \union {NoTask}
  PROVE  /\ RecordFailing(row, run) \in ActionRecord
         /\ RecordPassing(row, run) \in ActionRecord \union {NoTask}
         /\ \A target \in STATES, actor \in Actors :
              row # NoTask => Close(row, target, actor) \in ActionRecord
BY NoTaskAssumption
   DEF RecordFailing, RecordPassing, Annotates, Annotate, NewTask, Close,
       ActionRecord, STATES, PENDING, DONE, DISMISSED

\* A row is never unraised, and names as its raiser the run it always named.
LEMMA RaiserStays ==
  ASSUME NEW run \in Runs, NEW row \in ActionRecord
  PROVE  /\ RecordFailing(row, run).raised_by_run = row.raised_by_run
         /\ RecordPassing(row, run) # NoTask
         /\ RecordPassing(row, run).raised_by_run = row.raised_by_run
         /\ RecordPassing(row, run).last_failing_run = row.last_failing_run
BY NoTaskAssumption
   DEF RecordFailing, RecordPassing, Annotates, Annotate, NewTask, ActionRecord

\* The receipt of a failure only moves to later runs.
LEMMA ReceiptMovesOn ==
  ASSUME NEW run \in Runs, NEW row \in ActionRecord \union {NoTask}
  PROVE  LET after == RecordFailing(row, run) IN
         /\ At[run] <= At[after.last_failing_run]
         /\ row # NoTask => At[row.last_failing_run] <= At[after.last_failing_run]
BY AtAssumption, NoTaskAssumption DEF RecordFailing, NewTask, ActionRecord

\* The runs a row names afterwards it named before, or are the run offered.
LEMMA NamesOnlyTheOffered ==
  ASSUME NEW run \in Runs, NEW row \in ActionRecord \union {NoTask}
  PROVE  /\ \A named \in {RecordFailing(row, run).raised_by_run,
                          RecordFailing(row, run).last_failing_run,
                          RecordFailing(row, run).cleared_by_run} :
              \/ named \in {None, run}
              \/ row # NoTask /\ named \in {row.raised_by_run, row.last_failing_run,
                                            row.cleared_by_run}
         /\ RecordPassing(row, run) # NoTask =>
              /\ row # NoTask
              /\ \A named \in {RecordPassing(row, run).raised_by_run,
                               RecordPassing(row, run).last_failing_run,
                               RecordPassing(row, run).cleared_by_run} :
                   named \in {run, row.raised_by_run, row.last_failing_run,
                              row.cleared_by_run}
BY NoTaskAssumption
   DEF RecordFailing, RecordPassing, Annotates, Annotate, NewTask, ActionRecord

\* Nothing is both failing and passing, and a run that failed a record concluded.
LEMMA FailuresConclude ==
  ASSUME NEW run \in StoredRun
  PROVE  /\ Failing(run) = Of(run, "FAIL")
         /\ Failing(run) \subseteq Records
         /\ \A r \in Failing(run) : run.verdicts # BLOCKED /\ run.verdicts[r] = "FAIL"
BY DEF Failing, Concluded, Of

LEMMA PipeInvInit == Init => PipeInv
BY RulesAssumption
   DEF Init, PipeInv, TypeOK, HeldOK, ReceiptsAreStored, TaskIsItsRules,
       CompletedRunsRaised, Task

\* What a person's move leaves of a row.
LEMMA MovesKeepRuns ==
  ASSUME NEW row \in ActionRecord, NEW target \in STATES, NEW actor \in Actors
  PROVE  LET moved == Close(row, target, actor) IN
         /\ moved \in ActionRecord
         /\ moved.raised_by_run = row.raised_by_run
         /\ moved.last_failing_run = row.last_failing_run
         /\ moved.cleared_by_run = row.cleared_by_run
BY DEF Close, ActionRecord

\* The three things that may happen to a row when findings are recorded.
LEMMA FindingsByRow ==
  ASSUME TypeOK, HeldOK, RecordFindings
  PROVE  /\ result \in StoredRun /\ runs[result.run] # None
         /\ result.digest = ir.digest
         /\ completed' \subseteq completed \union {result}
         /\ completed \subseteq completed'
         /\ Failing(result) # {} => result \in completed'
         /\ \A v \in Versions, r \in Records :
              \/ actions'[v][r] = actions[v][r] /\ written'[v][r] = written[v][r]
              \/ /\ v = result.version /\ r \in Failing(result)
                 /\ actions'[v][r] = RecordFailing(actions[v][r], result.run)
                 /\ written'[v][r] = IF actions[v][r] = NoTask
                                     THEN [digest |-> result.digest, block |-> ir.digest]
                                     ELSE written[v][r]
              \/ /\ v = result.version /\ r \notin Failing(result)
                 /\ actions'[v][r] = RecordPassing(actions[v][r], result.run)
                 /\ written'[v][r] = written[v][r]
         /\ \A r \in Failing(result) :
              actions'[result.version][r]
                = RecordFailing(actions[result.version][r], result.run)
<1>1. /\ result \in StoredRun /\ runs[result.run] # None /\ result.digest = ir.digest
      /\ result.version \in Versions
  BY DEF HeldOK, RecordFindings, SameRule, StoredRun
<1>2. Failing(result) = Of(result, "FAIL") /\ Failing(result) \subseteq Records
  BY <1>1, FailuresConclude
<1>3. /\ completed' \subseteq completed \union {result}
      /\ completed \subseteq completed'
      /\ Failing(result) # {} => result \in completed'
  BY <1>2 DEF RecordFindings
<1>4. \A v \in Versions, r \in Records : v # result.version =>
        actions'[v][r] = actions[v][r] /\ written'[v][r] = written[v][r]
  BY <1>1 DEF RecordFindings, KeyVersion, TypeOK
<1>5. \A r \in Records :
        /\ r \in Failing(result) =>
             /\ actions'[result.version][r]
                  = RecordFailing(actions[result.version][r], result.run)
             /\ written'[result.version][r]
                  = IF actions[result.version][r] = NoTask
                    THEN [digest |-> result.digest, block |-> ir.digest]
                    ELSE written[result.version][r]
        /\ r \notin Failing(result) =>
             /\ actions'[result.version][r]
                  \in {actions[result.version][r],
                       RecordPassing(actions[result.version][r], result.run)}
             /\ written'[result.version][r] = written[result.version][r]
  BY <1>1 DEF RecordFindings, KeyVersion, TypeOK
<1>. QED BY <1>1, <1>2, <1>3, <1>4, <1>5

LEMMA TypesStay == TypeOK /\ HeldOK /\ Next => TypeOK' /\ HeldOK'
<1>. SUFFICES ASSUME TypeOK, HeldOK, Next PROVE TypeOK' /\ HeldOK'
  OBVIOUS
<1>1. ASSUME NEW run \in Runs, Select(run) PROVE TypeOK' /\ HeldOK'
  BY <1>1 DEF Select, TypeOK, HeldOK
<1>2. CASE Run
  <2>1. /\ ruleFile.version \in Versions /\ ruleFile.digest \in Digests
        /\ result.run \in Runs /\ ir \in Rules
    BY <1>2 DEF Run, TypeOK, HeldOK, Versions, Digests
  <2>2. result' \in StoredRun
    BY <1>2, <2>1, VerdictsAssumption DEF Run, TypeOK, StoredRun
  <2>. QED BY <1>2, <2>1, <2>2 DEF Run, TypeOK, HeldOK
<1>3. CASE Save
  <2>1. result \in StoredRun /\ result.run \in Runs /\ ir \in Rules
    BY <1>3 DEF Save, HeldOK, StoredRun
  <2>2. runs'[result.run] # None
    BY <1>3, <2>1, NoRunAssumption DEF Save, TypeOK
  <2>. QED BY <1>3, <2>1, <2>2 DEF Save, TypeOK, HeldOK
<1>4. CASE Refuse
  BY <1>4 DEF Refuse, TypeOK, HeldOK
<1>5. CASE RecordFindings
  <2>1. result \in StoredRun /\ ir \in Rules /\ result.run \in Runs
        /\ result.version \in Versions /\ result.digest \in Digests
        /\ ir.digest \in Digests
    BY <1>5 DEF RecordFindings, HeldOK, StoredRun, Digests
  <2>2. actions' \in [Versions -> [Records -> ActionRecord \union {NoTask}]]
    BY <1>5, <2>1, RowsStayRows DEF RecordFindings, KeyVersion, TypeOK
  <2>3. written' \in [Versions -> [Records -> [digest : Digests, block : Digests]
                                                \union {None}]]
    BY <1>5, <2>1 DEF RecordFindings, KeyVersion, TypeOK
  <2>4. completed' \subseteq StoredRun
    BY <1>5, <2>1 DEF RecordFindings, TypeOK
  <2>. QED BY <1>5, <2>2, <2>3, <2>4 DEF RecordFindings, TypeOK, HeldOK
<1>6. CASE Crash
  BY <1>6 DEF Crash, TypeOK, HeldOK
<1>7. ASSUME NEW v \in Versions, NEW r \in Records, NEW target \in STATES,
             MoveTask(v, r, target)
      PROVE  TypeOK' /\ HeldOK'
  <2>1. actions[v][r] \in ActionRecord
    BY <1>7 DEF MoveTask, TypeOK
  <2>2. actions' \in [Versions -> [Records -> ActionRecord \union {NoTask}]]
    BY <1>7, <2>1, MovesKeepRuns DEF MoveTask, TypeOK
  <2>. QED BY <1>7, <2>2 DEF MoveTask, TypeOK, HeldOK
<1>8. ASSUME NEW rule \in Rules, EditRule(rule) PROVE TypeOK' /\ HeldOK'
  BY <1>8 DEF EditRule, TypeOK, HeldOK
<1>9. ASSUME NEW stated \in Settings, EditSettings(stated) PROVE TypeOK' /\ HeldOK'
  BY <1>9 DEF EditSettings, TypeOK, HeldOK
<1>. QED BY <1>1, <1>2, <1>3, <1>4, <1>5, <1>6, <1>7, <1>8, <1>9 DEF Next

\* Everything but the recording and a person's move leaves rows and history alone,
\* and no stored run is ever taken out of the store.
LEMMA OthersLeaveTasks ==
  ASSUME TypeOK, HeldOK, Next
  PROVE  /\ \/ RecordFindings
            \/ \E v \in Versions, r \in Records, target \in STATES : MoveTask(v, r, target)
            \/ UNCHANGED <<actions, written, completed>>
         /\ \A run \in Runs : runs[run] # None => runs'[run] # None
<1>1. ASSUME Save PROVE \A run \in Runs : runs[run] # None => runs'[run] # None
  BY <1>1, NoRunAssumption DEF Save, TypeOK, HeldOK
<1>2. \/ Save \/ UNCHANGED runs
  BY DEF Next, Select, Run, Save, Refuse, RecordFindings, Crash, MoveTask, EditRule,
         EditSettings
<1>3. \/ RecordFindings
      \/ \E v \in Versions, r \in Records, target \in STATES : MoveTask(v, r, target)
      \/ UNCHANGED <<actions, written, completed>>
  BY DEF Next, Select, Run, Save, Refuse, Crash, EditRule, EditSettings
<1>. QED BY <1>1, <1>2, <1>3

\* A move changes one row, which was there, and none of the runs it names.
LEMMA MovesByRow ==
  ASSUME TypeOK,
         NEW u \in Versions, NEW s \in Records, NEW target \in STATES,
         MoveTask(u, s, target)
  PROVE  /\ UNCHANGED <<written, completed>>
         /\ \A v \in Versions, r \in Records :
              \/ actions'[v][r] = actions[v][r]
              \/ /\ Task(v, r)
                 /\ actions'[v][r].raised_by_run = actions[v][r].raised_by_run
                 /\ actions'[v][r].last_failing_run = actions[v][r].last_failing_run
                 /\ actions'[v][r].cleared_by_run = actions[v][r].cleared_by_run
<1>1. actions[u][s] \in ActionRecord /\ Task(u, s)
  BY DEF MoveTask, TypeOK, Task
<1>. QED BY <1>1, MovesKeepRuns DEF MoveTask, TypeOK, Task

LEMMA ReceiptsStayStored ==
  ASSUME TypeOK, HeldOK, ReceiptsAreStored, Next
  PROVE  ReceiptsAreStored'
<1>. SUFFICES ASSUME NEW v \in Versions, NEW r \in Records, Task(v, r)'
              PROVE  \A run \in Receipts(v, r)' : runs'[run] # None
  BY DEF ReceiptsAreStored
<1>1. \A run \in Runs : runs[run] # None => runs'[run] # None
  BY OthersLeaveTasks
<1>2. Task(v, r) => \A run \in Receipts(v, r) : run \in Runs /\ runs[run] # None
  BY DEF ReceiptsAreStored, TypeOK, ActionRecord, Receipts, Task
<1>3. ASSUME RecordFindings
      PROVE  \A run \in Receipts(v, r)' :
               run = result.run \/ (Task(v, r) /\ run \in Receipts(v, r))
  <2>1. result.run \in Runs /\ actions[v][r] \in ActionRecord \union {NoTask}
    BY <1>3, FindingsByRow DEF StoredRun, TypeOK
  <2>2. \/ actions'[v][r] = actions[v][r]
        \/ actions'[v][r] = RecordFailing(actions[v][r], result.run)
        \/ actions'[v][r] = RecordPassing(actions[v][r], result.run)
    BY <1>3, FindingsByRow
  <2>. QED BY <2>1, <2>2, NamesOnlyTheOffered DEF Receipts, Task
<1>4. ASSUME NEW u \in Versions, NEW s \in Records, NEW target \in STATES,
             MoveTask(u, s, target)
      PROVE  \A run \in Receipts(v, r)' : Task(v, r) /\ run \in Receipts(v, r)
  BY <1>4, MovesByRow DEF Receipts, Task
<1>5. ASSUME UNCHANGED <<actions, written, completed>>
      PROVE  \A run \in Receipts(v, r)' : Task(v, r) /\ run \in Receipts(v, r)
  BY <1>5 DEF Receipts, Task
<1>6. RecordFindings => result.run \in Runs /\ runs[result.run] # None
  BY FindingsByRow DEF StoredRun
<1>. QED BY <1>1, <1>2, <1>3, <1>4, <1>5, <1>6, OthersLeaveTasks

LEMMA TasksStayTheirRules ==
  ASSUME TypeOK, HeldOK, TaskIsItsRules, Next
  PROVE  TaskIsItsRules'
<1>. DEFINE Raised(v, r, row, stamp, done) ==
       /\ stamp.digest = stamp.block
       /\ \E run \in done :
            /\ run.run = row.raised_by_run
            /\ run.version = v /\ run.digest = stamp.digest
            /\ run.verdicts # BLOCKED /\ run.verdicts[r] = "FAIL"
<1>. SUFFICES ASSUME NEW v \in Versions, NEW r \in Records, Task(v, r)'
              PROVE  Raised(v, r, actions'[v][r], written'[v][r], completed')
  BY DEF TaskIsItsRules
<1>1. Task(v, r) => Raised(v, r, actions[v][r], written[v][r], completed)
  BY DEF TaskIsItsRules
<1>2. ASSUME \/ actions'[v][r] = actions[v][r]
             \/ Task(v, r) /\ actions'[v][r].raised_by_run = actions[v][r].raised_by_run,
             written'[v][r] = written[v][r], completed \subseteq completed'
      PROVE  Raised(v, r, actions'[v][r], written'[v][r], completed')
  BY <1>1, <1>2 DEF Task
<1>3. CASE RecordFindings
  <2>1. /\ result \in StoredRun /\ result.run \in Runs /\ result.digest = ir.digest
        /\ completed \subseteq completed'
        /\ actions[v][r] \in ActionRecord \union {NoTask}
    BY <1>3, FindingsByRow DEF StoredRun, TypeOK
  <2>2. CASE actions'[v][r] = actions[v][r] /\ written'[v][r] = written[v][r]
    BY <1>2, <2>1, <2>2
  <2>3. CASE /\ v = result.version /\ r \in Failing(result)
             /\ actions'[v][r] = RecordFailing(actions[v][r], result.run)
             /\ written'[v][r] = IF actions[v][r] = NoTask
                                 THEN [digest |-> result.digest, block |-> ir.digest]
                                 ELSE written[v][r]
    <3>1. CASE actions[v][r] = NoTask
      <4>1. result \in completed' /\ result.verdicts # BLOCKED
            /\ result.verdicts[r] = "FAIL"
        BY <1>3, <2>1, <2>3, FindingsByRow, FailuresConclude
      <4>2. actions'[v][r].raised_by_run = result.run
        BY <2>3, <3>1 DEF RecordFailing, NewTask
      <4>. QED BY <2>1, <2>3, <3>1, <4>1, <4>2
    <3>2. CASE actions[v][r] # NoTask
      BY <1>2, <2>1, <2>3, <3>2, RaiserStays DEF Task
    <3>. QED BY <3>1, <3>2
  <2>4. CASE /\ v = result.version /\ r \notin Failing(result)
             /\ actions'[v][r] = RecordPassing(actions[v][r], result.run)
             /\ written'[v][r] = written[v][r]
    <3>1. actions[v][r] # NoTask
      BY <2>1, <2>4, NamesOnlyTheOffered DEF Task
    <3>. QED BY <1>2, <2>1, <2>4, <3>1, RaiserStays DEF Task
  <2>. QED BY <1>3, <2>2, <2>3, <2>4, FindingsByRow
<1>4. ASSUME NEW u \in Versions, NEW s \in Records, NEW target \in STATES,
             MoveTask(u, s, target)
      PROVE  Raised(v, r, actions'[v][r], written'[v][r], completed')
  BY <1>2, <1>4, MovesByRow
<1>5. CASE UNCHANGED <<actions, written, completed>>
  BY <1>2, <1>5
<1>. QED BY <1>3, <1>4, <1>5, OthersLeaveTasks

LEMMA CompletedRunsStayRaised ==
  ASSUME TypeOK, HeldOK, CompletedRunsRaised, Next
  PROVE  CompletedRunsRaised'
<1>. SUFFICES ASSUME NEW run \in completed', NEW r \in Of(run, "FAIL")
              PROVE  /\ actions'[run.version][r] # NoTask
                     /\ At[run.run] <= At[actions'[run.version][r].last_failing_run]
  BY DEF CompletedRunsRaised, Task, Of
<1>. DEFINE v == run.version
<1>1. r \in Records
  BY DEF Of
<1>2. run \in completed =>
        /\ run.run \in Runs /\ v \in Versions
        /\ actions[v][r] \in ActionRecord
        /\ At[run.run] <= At[actions[v][r].last_failing_run]
  BY <1>1 DEF CompletedRunsRaised, Task, TypeOK, StoredRun
<1>3. CASE RecordFindings
  <2>1. result \in StoredRun /\ result.run \in Runs /\ result.version \in Versions
    BY <1>3, FindingsByRow DEF StoredRun
  <2>2. CASE run \in completed
    <3>1. \/ actions'[v][r] = actions[v][r]
          \/ actions'[v][r] = RecordFailing(actions[v][r], result.run)
          \/ actions'[v][r] = RecordPassing(actions[v][r], result.run)
      BY <1>1, <1>2, <1>3, <2>2, FindingsByRow
    <3>2. At[actions[v][r].last_failing_run] \in Nat /\ At[run.run] \in Nat
      BY <1>2, <2>2, AtAssumption DEF ActionRecord
    <3>3. CASE actions'[v][r] = RecordFailing(actions[v][r], result.run)
      <4>1. actions'[v][r] \in ActionRecord /\ actions'[v][r] # NoTask
        BY <1>2, <2>1, <2>2, <3>3, RowsStayRows, NoTaskAssumption
      <4>2. At[actions'[v][r].last_failing_run] \in Nat
        BY <4>1, AtAssumption DEF ActionRecord
      <4>3. At[actions[v][r].last_failing_run] <= At[actions'[v][r].last_failing_run]
        BY <1>2, <2>1, <2>2, <3>3, ReceiptMovesOn, NoTaskAssumption
      <4>. QED BY <1>2, <2>2, <3>2, <4>1, <4>2, <4>3
    <3>4. CASE actions'[v][r] = RecordPassing(actions[v][r], result.run)
      BY <1>2, <2>1, <2>2, <3>4, RaiserStays
    <3>5. CASE actions'[v][r] = actions[v][r]
      BY <1>2, <2>2, <3>5, NoTaskAssumption
    <3>. QED BY <3>1, <3>3, <3>4, <3>5
  <2>3. CASE run = result
    <3>1. r \in Failing(result)
      BY <2>1, <2>3, FailuresConclude
    <3>2. /\ actions'[v][r] = RecordFailing(actions[v][r], result.run)
          /\ actions[v][r] \in ActionRecord \union {NoTask}
      BY <1>1, <1>3, <2>1, <2>3, <3>1, FindingsByRow DEF TypeOK
    <3>. QED BY <2>1, <2>3, <3>2, ReceiptMovesOn, RowsStayRows, NoTaskAssumption
  <2>. QED BY <1>3, <2>2, <2>3, FindingsByRow
<1>4. ASSUME NEW u \in Versions, NEW s \in Records, NEW target \in STATES,
             MoveTask(u, s, target)
      PROVE  /\ actions'[v][r] # NoTask
             /\ At[run.run] <= At[actions'[v][r].last_failing_run]
  <2>1. run \in completed /\ actions[u][s] \in ActionRecord
    BY <1>4 DEF MoveTask, TypeOK
  <2>2. actions'[v][r] \in ActionRecord
    BY <1>1, <1>2, <1>4, <2>1, MovesKeepRuns DEF MoveTask, TypeOK
  <2>3. actions'[v][r].last_failing_run = actions[v][r].last_failing_run
    BY <1>1, <1>2, <1>4, <2>1, MovesByRow
  <2>. QED BY <1>2, <2>1, <2>2, <2>3, NoTaskAssumption
<1>5. CASE UNCHANGED <<actions, written, completed>>
  BY <1>2, <1>5, NoTaskAssumption
<1>. QED BY <1>3, <1>4, <1>5, OthersLeaveTasks

LEMMA PipeInvStep == PipeInv /\ [Next]_vars => PipeInv'
<1>1. ASSUME PipeInv, Next PROVE PipeInv'
  BY <1>1, TypesStay, ReceiptsStayStored, TasksStayTheirRules, CompletedRunsStayRaised
     DEF PipeInv
<1>2. ASSUME PipeInv, UNCHANGED vars PROVE PipeInv'
  <2>1. TypeOK' /\ HeldOK'
    BY <1>2 DEF PipeInv, TypeOK, HeldOK, vars
  <2>2. ReceiptsAreStored'
    BY <1>2 DEF PipeInv, ReceiptsAreStored, Receipts, Task, vars
  <2>3. TaskIsItsRules' /\ CompletedRunsRaised'
    BY <1>2 DEF PipeInv, TaskIsItsRules, CompletedRunsRaised, Task, vars
  <2>. QED BY <2>1, <2>2, <2>3 DEF PipeInv
<1>. QED BY <1>1, <1>2

\* The store, the tasks and what the server holds keep their types.
THEOREM PipelineTypeCorrect == Spec => []TypeOK
<1>1. PipeInv => TypeOK
  BY DEF PipeInv
<1>. QED BY PipeInvInit, PipeInvStep, <1>1, PTL DEF Spec

\* For any evidence and any edits: a run a task names is in the store, wherever the
\* server stopped.
THEOREM ReceiptsStored == Spec => []ReceiptsAreStored
<1>1. PipeInv => ReceiptsAreStored
  BY DEF PipeInv
<1>. QED BY PipeInvInit, PipeInvStep, <1>1, PTL DEF Spec

\* A task's digest and its routing are one rule's, and a run judged under that rule
\* failed its record, however the rule is edited between the two loads.
THEOREM TasksAreTheirRules == Spec => []TaskIsItsRules
<1>1. PipeInv => TaskIsItsRules
  BY DEF PipeInv
<1>. QED BY PipeInvInit, PipeInvStep, <1>1, PTL DEF Spec

\* A request that went through left a task, with a receipt no older than its run,
\* for every record the run failed.
THEOREM FailuresAreRaised == Spec => []CompletedRunsRaised
<1>1. PipeInv => CompletedRunsRaised
  BY DEF PipeInv
<1>. QED BY PipeInvInit, PipeInvStep, <1>1, PTL DEF Spec

\* No step of a run judged under one version touches the tasks of another.
THEOREM VersionsKeepTheirTasks == Spec => OtherVersionsUntouched
<1>1. PipeInv /\ [Next]_vars =>
        [\A v \in Versions : pc = "saved" /\ v # result.version => actions'[v] = actions[v]]_vars
  <2>1. ASSUME PipeInv, Next, NEW v \in Versions, pc = "saved", v # result.version
        PROVE  actions'[v] = actions[v]
    <3>1. CASE RecordFindings
      BY <2>1, <3>1 DEF RecordFindings, KeyVersion, PipeInv, TypeOK
    <3>2. CASE UNCHANGED actions
      BY <3>2
    <3>3. ~(\E u \in Versions, r \in Records, target \in STATES : MoveTask(u, r, target))
      BY <2>1 DEF MoveTask
    <3>. QED BY <2>1, <3>1, <3>2, <3>3, OthersLeaveTasks DEF PipeInv
  <2>. QED BY <2>1 DEF vars
<1>. QED BY PipeInvInit, PipeInvStep, <1>1, PTL DEF Spec, OtherVersionsUntouched
==============================================================================
