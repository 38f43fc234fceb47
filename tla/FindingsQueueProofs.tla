------------------------- MODULE FindingsQueueProofs -------------------------
(***************************************************************************)
(* What FindingsQueue guarantees for every set of runs, records and        *)
(* processes.  First what the row operators of ActionRecords do, then the  *)
(* type invariant with the facts about calls in progress it needs, then    *)
(* the queue's properties.                                                 *)
(***************************************************************************)
EXTENDS FindingsQueue, TLAPS

Row == ActionRecord \union {NoTask}

------------------------------------------------------------------------------
\* A recorded FAIL leaves a well-formed row behind.
LEMMA RecordFailingType ==
  ASSUME NEW row \in Row, NEW run \in Runs
  PROVE  RecordFailing(row, run) \in ActionRecord
<1>1. CASE row = NoTask
  BY <1>1, NoneAssumption
  DEF RecordFailing, NewTask, ActionRecord, STATES, PENDING, DONE, DISMISSED
<1>2. CASE row \in ActionRecord
  BY <1>2, NoTaskAssumption DEF RecordFailing, ActionRecord
<1>. QED BY <1>1, <1>2 DEF Row

\* A FAIL offered for a row that exists touches the receipt and the annotation,
\* nothing else.
LEMMA RecordFailingFields ==
  ASSUME NEW row \in ActionRecord, NEW run \in Runs
  PROVE  LET new == RecordFailing(row, run) IN
         /\ new.state = row.state
         /\ new.state_changed_by = row.state_changed_by
         /\ new.raised_by_run = row.raised_by_run
         /\ new.last_failing_run = IF At[run] >= At[row.last_failing_run]
                                   THEN run ELSE row.last_failing_run
         /\ new.cleared_by_run =
              IF row.cleared_by_run # None /\ At[run] >= At[row.cleared_by_run]
              THEN None ELSE row.cleared_by_run
BY NoTaskAssumption DEF RecordFailing, ActionRecord

\* An offered PASS creates no row and loses none.
LEMMA RecordPassingType ==
  ASSUME NEW row \in Row, NEW run \in Runs
  PROVE  /\ RecordPassing(row, run) \in Row
         /\ RecordPassing(row, run) = NoTask <=> row = NoTask
BY NoTaskAssumption DEF RecordPassing, Annotates, Annotate, Row, ActionRecord

\* A PASS offered to a row touches the annotation, and only when it is news.
LEMMA RecordPassingFields ==
  ASSUME NEW row \in ActionRecord, NEW run \in Runs
  PROVE  LET new == RecordPassing(row, run) IN
         /\ new.state = row.state
         /\ new.state_changed_by = row.state_changed_by
         /\ new.raised_by_run = row.raised_by_run
         /\ new.last_failing_run = row.last_failing_run
         /\ new.cleared_by_run = IF Annotates(row, run) THEN run ELSE row.cleared_by_run
BY DEF RecordPassing, Annotate, ActionRecord

\* A move leaves a well-formed row behind, and a closed row as it was.
LEMMA CloseType ==
  ASSUME NEW row \in ActionRecord, NEW target \in STATES, NEW actor \in Actors
  PROVE  /\ Close(row, target, actor) \in ActionRecord
         /\ Close(row, target, actor).raised_by_run = row.raised_by_run
         /\ Close(row, target, actor).last_failing_run = row.last_failing_run
         /\ Close(row, target, actor).cleared_by_run = row.cleared_by_run
         /\ row.state # PENDING => Close(row, target, actor) = row
BY DEF Close, ActionRecord

\* Annotating a row that exists gives a well-formed row.
LEMMA AnnotateType ==
  ASSUME NEW row \in ActionRecord, NEW run \in Runs
  PROVE  /\ Annotate(row, run) \in ActionRecord
         /\ Annotate(row, run).state = row.state
         /\ Annotate(row, run).state_changed_by = row.state_changed_by
         /\ Annotate(row, run).raised_by_run = row.raised_by_run
         /\ Annotate(row, run).last_failing_run = row.last_failing_run
         /\ Annotate(row, run).cleared_by_run = run
BY DEF Annotate, ActionRecord

------------------------------------------------------------------------------
\* What a call in progress carries: a call about to write names a row it has
\* read, so the row exists (no row is ever removed).
CallOK ==
  \A p \in Procs :
    /\ pc[p] = "reading" => call[p].run \in Runs
    /\ pc[p] = "annotating" => /\ call[p].run \in Runs
                               /\ call[p].hit \in call[p].todo
                               /\ Task(call[p].hit)
    /\ pc[p] = "moving" => call[p].hit \in Records /\ Task(call[p].hit)

\* Each row a FAIL may be recorded on ends up a row; a row without one stays.
LEMMA AfterFailingType ==
  ASSUME actions \in [Records -> Row], NEW run \in Runs,
         NEW failing \in SUBSET Records
  PROVE  /\ AfterFailing(failing, run) \in [Records -> Row]
         /\ \A r \in Records :
              AfterFailing(failing, run)[r] # NoTask <=> Task(r) \/ r \in failing
BY RecordFailingType, NoTaskAssumption DEF AfterFailing, Row, Task

LEMMA AfterPassingType ==
  ASSUME NEW rows \in [Records -> Row], NEW run \in Runs,
         NEW passing \in SUBSET Records
  PROVE  /\ AfterPassing(rows, passing, run) \in [Records -> Row]
         /\ \A r \in Records :
              AfterPassing(rows, passing, run)[r] # NoTask <=> rows[r] # NoTask
BY RecordPassingType DEF AfterPassing, Row

\* The rows AnnotatePassing writes are rows.
LEMMA AnnotatedType ==
  ASSUME actions \in [Records -> Row], NEW hit \in Records, Task(hit),
         NEW run \in Runs
  PROVE  /\ [actions EXCEPT ![hit] = Annotate(@, run)] \in [Records -> Row]
         /\ \A r \in Records :
              [actions EXCEPT ![hit] = Annotate(@, run)][r] # NoTask <=> Task(r)
<1>1. actions[hit] \in ActionRecord
  BY DEF Row, Task
<1>2. Annotate(actions[hit], run) \in ActionRecord
  BY <1>1, AnnotateType
<1>. QED BY <1>1, <1>2, NoTaskAssumption DEF Row, Task

\* No step loses a row, so what a call has read still exists.
LEMMA InitTypes == Init => TypeOK /\ CallOK
BY DEF Init, TypeOK, CallOK, Labels, Call, NoCall, STATES, PENDING

LEMMA FinishType ==
  ASSUME TypeOK, NEW p \in Procs, Finish(p)
  PROVE  /\ pc' \in [Procs -> Labels]
         /\ call' \in [Procs -> Call]
         /\ pc'[p] = "idle"
         /\ \A q \in Procs \ {p} : pc'[q] = pc[q] /\ call'[q] = call[q]
BY DEF TypeOK, Finish, Labels, Call, NoCall, STATES, PENDING

LEMMA StepTypes == TypeOK /\ CallOK /\ [Next]_vars => TypeOK' /\ CallOK'
<1>. SUFFICES ASSUME TypeOK, CallOK, [Next]_vars PROVE TypeOK' /\ CallOK'
  OBVIOUS
<1>0. actions \in [Records -> Row]
  BY DEF TypeOK, Row
<1>1. ASSUME NEW p \in Procs, NEW run \in Runs,
             NEW failing \in SUBSET Records, NEW passing \in SUBSET Records,
             RecordFindings(p, run, failing, passing)
      PROVE  TypeOK' /\ CallOK'
  <2>1. /\ actions' \in [Records -> Row]
        /\ \A r \in Records : Task(r) => Task(r)'
    BY <1>0, <1>1, AfterFailingType, AfterPassingType DEF RecordFindings, Task
  <2>2. fails' \in [Records -> SUBSET Runs] /\ passes' \in [Records -> SUBSET Runs]
    BY <1>1 DEF RecordFindings, Offer, TypeOK
  <2>. QED BY <1>1, <2>1, <2>2 DEF RecordFindings, TypeOK, CallOK, Row, Task, Call
<1>2. ASSUME NEW p \in Procs, NEW run \in Runs, NEW passing \in SUBSET Records,
             BeginPassing(p, run, passing)
      PROVE  TypeOK' /\ CallOK'
  BY <1>2 DEF BeginPassing, TypeOK, CallOK, Labels, Call, NoCall, STATES, PENDING, Task
<1>3. ASSUME NEW p \in Procs, NEW r \in Records, SkipPassing(p, r)
      PROVE  TypeOK' /\ CallOK'
  <2>1. passes' \in [Records -> SUBSET Runs]
    BY <1>3 DEF SkipPassing, Offer, TypeOK, CallOK
  <2>2. CASE call[p].todo = {r}
    BY <1>3, <2>1, <2>2, FinishType DEF SkipPassing, TypeOK, CallOK, Task
  <2>3. CASE call[p].todo # {r}
    <3>1. /\ call' = [call EXCEPT ![p].todo = @ \ {r}]
          /\ pc' = pc /\ actions' = actions /\ fails' = fails
          /\ pc[p] = "reading"
      BY <1>3, <2>3 DEF SkipPassing
    <3>2. call' \in [Procs -> Call]
      <4>1. call[p] \in Call
        BY DEF TypeOK
      <4>2. [call[p] EXCEPT !.todo = @ \ {r}] \in Call
        BY <4>1 DEF Call
      <4>. QED BY <3>1, <4>2 DEF TypeOK
    <3>3. TypeOK'
      BY <2>1, <3>1, <3>2 DEF TypeOK
    <3>4. CallOK'
      BY <3>1 DEF TypeOK, CallOK, Task, Call
    <3>. QED BY <3>3, <3>4
  <2>. QED BY <2>2, <2>3
<1>4. ASSUME NEW p \in Procs, NEW r \in Records, HitPassing(p, r)
      PROVE  TypeOK' /\ CallOK'
  BY <1>4 DEF HitPassing, TypeOK, CallOK, Labels, Call, Annotates, Task
<1>5. ASSUME NEW p \in Procs, AnnotatePassing(p)
      PROVE  TypeOK' /\ CallOK'
  <2>. DEFINE run == call[p].run
              hit == call[p].hit
              rows == [actions EXCEPT ![hit] = Annotate(@, run)]
  <2>1. run \in Runs /\ hit \in Records /\ Task(hit) /\ call[p].todo \in SUBSET Records
    BY <1>5 DEF AnnotatePassing, TypeOK, CallOK, Call
  <2>2. /\ rows \in [Records -> Row]
        /\ \A r \in Records : rows[r] # NoTask <=> Task(r)
    BY <1>0, <2>1, AnnotatedType
  <2>3. actions' = AfterPassing(rows, call[p].todo \ {hit}, run)
    BY <1>5 DEF AnnotatePassing
  <2>4. /\ actions' \in [Records -> Row]
        /\ \A r \in Records : actions'[r] # NoTask <=> rows[r] # NoTask
    <3>. HIDE DEF run, hit, rows
    <3>1. call[p].todo \ {hit} \in SUBSET Records
      BY <2>1
    <3>. QED BY <2>1, <2>2, <2>3, <3>1, AfterPassingType
  <2>5. passes' \in [Records -> SUBSET Runs] /\ fails' \in [Records -> SUBSET Runs]
    BY <1>5, <2>1 DEF AnnotatePassing, Offer, TypeOK
  <2>6. \A r \in Records : Task(r) => Task(r)'
    BY <2>2, <2>4 DEF Task
  <2>7. Finish(p)
    BY <1>5 DEF AnnotatePassing
  <2>8. CallOK'
    <3>. SUFFICES ASSUME NEW q \in Procs, q # p
                  PROVE  /\ pc[q] = "annotating" => call[q].hit \in Records
                         /\ pc'[q] = pc[q] /\ call'[q] = call[q]
      BY <2>6, <2>7, FinishType DEF CallOK
    <3>. QED BY <2>7, FinishType DEF CallOK, TypeOK, Call
  <2>. QED BY <2>4, <2>5, <2>7, <2>8, FinishType DEF TypeOK, Row
<1>6. ASSUME NEW p \in Procs, NEW r \in Records, NEW target \in STATES,
             ReadTask(p, r, target)
      PROVE  TypeOK' /\ CallOK'
  BY <1>6 DEF ReadTask, TypeOK, CallOK, Labels, Call, NoCall, Task
<1>7. ASSUME NEW p \in Procs, MoveTask(p)
      PROVE  TypeOK' /\ CallOK'
  <2>1. /\ call[p].hit \in Records
        /\ actions[call[p].hit] \in ActionRecord
        /\ call[p].target \in STATES
        /\ p \in Actors
    BY <1>7, ProcsAssumption DEF MoveTask, CallOK, TypeOK, Task, Call
  <2>2. Close(actions[call[p].hit], call[p].target, p) \in ActionRecord
    BY <2>1, CloseType
  <2>3. /\ actions' \in [Records -> Row]
        /\ \A r \in Records : Task(r) => Task(r)'
    BY <1>0, <1>7, <2>1, <2>2, NoTaskAssumption DEF MoveTask, Row, Task
  <2>. QED BY <1>7, <2>3, FinishType DEF MoveTask, TypeOK, CallOK, Row, Task
<1>8. ASSUME NEW p \in Procs, Abandon(p)
      PROVE  TypeOK' /\ CallOK'
  BY <1>8, FinishType DEF Abandon, TypeOK, CallOK, Task
<1>9. CASE UNCHANGED vars
  BY <1>9 DEF vars, TypeOK, CallOK, Task
<1>. QED
  BY <1>1, <1>2, <1>3, <1>4, <1>5, <1>6, <1>7, <1>8, <1>9 DEF Next, Step

\* The variables keep their types, and a call about to write names a row that
\* is still there.
THEOREM TypeCorrect == Spec => [](TypeOK /\ CallOK)
BY InitTypes, StepTypes, PTL DEF Spec

------------------------------------------------------------------------------
\* PASSes leave everything of a row but its annotation alone.
SameButAnnotation(new, old) ==
  /\ new.state = old.state
  /\ new.state_changed_by = old.state_changed_by
  /\ new.raised_by_run = old.raised_by_run
  /\ new.last_failing_run = old.last_failing_run

LEMMA AfterPassingFields ==
  ASSUME NEW rows \in [Records -> Row], NEW run \in Runs,
         NEW passing \in SUBSET Records, NEW r \in Records, rows[r] # NoTask
  PROVE  SameButAnnotation(AfterPassing(rows, passing, run)[r], rows[r])
<1>1. rows[r] \in ActionRecord
  BY DEF Row
<1>. QED BY <1>1, RecordPassingFields DEF AfterPassing, SameButAnnotation

LEMMA AfterFailingFields ==
  ASSUME actions \in [Records -> Row], NEW run \in Runs,
         NEW failing \in SUBSET Records, NEW r \in Records, Task(r)
  PROVE  LET new == AfterFailing(failing, run)[r] IN
         /\ new.state = actions[r].state
         /\ new.state_changed_by = actions[r].state_changed_by
         /\ new.raised_by_run = actions[r].raised_by_run
<1>1. actions[r] \in ActionRecord
  BY DEF Row, Task
<1>. QED BY <1>1, RecordFailingFields DEF AfterFailing

\* Every step leaves a row's identity and closure alone, except a person's move,
\* which may close a pending one.
RowKept(r) ==
  Task(r) => /\ Task(r)'
             /\ actions'[r].raised_by_run = actions[r].raised_by_run
             /\ actions[r].state # PENDING =>
                  /\ actions'[r].state = actions[r].state
                  /\ actions'[r].state_changed_by = actions[r].state_changed_by

\* What AnnotatePassing does to each row but for annotations: nothing.
LEMMA AnnotatePassingKeeps ==
  ASSUME TypeOK, CallOK, NEW p \in Procs, AnnotatePassing(p),
         NEW r \in Records, Task(r)
  PROVE  Task(r)' /\ SameButAnnotation(actions'[r], actions[r])
<1>. DEFINE run == call[p].run
            hit == call[p].hit
            rows == [actions EXCEPT ![hit] = Annotate(@, run)]
<1>1. run \in Runs /\ hit \in Records /\ Task(hit) /\ call[p].todo \ {hit} \in SUBSET Records
  BY DEF AnnotatePassing, TypeOK, CallOK, Call
<1>2. actions \in [Records -> Row]
  BY DEF TypeOK, Row
<1>3. rows \in [Records -> Row] /\ rows[r] # NoTask
  BY <1>1, <1>2, AnnotatedType
<1>4. SameButAnnotation(rows[r], actions[r])
  <2>1. actions[hit] \in ActionRecord
    BY <1>1, <1>2 DEF Row, Task
  <2>. QED BY <1>1, <1>2, <2>1, AnnotateType DEF SameButAnnotation
<1>5. actions' = AfterPassing(rows, call[p].todo \ {hit}, run)
  BY DEF AnnotatePassing
<1>6. SameButAnnotation(actions'[r], rows[r]) /\ actions'[r] # NoTask
  <2>. HIDE DEF run, hit, rows
  <2>. QED BY <1>1, <1>3, <1>5, AfterPassingFields, AfterPassingType
<1>. QED BY <1>4, <1>6 DEF SameButAnnotation, Task

LEMMA StepKeepsRows ==
  ASSUME TypeOK, CallOK, [Next]_vars, NEW r \in Records
  PROVE  RowKept(r)
<1>. SUFFICES ASSUME Task(r) PROVE RowKept(r)
  BY DEF RowKept
<1>0. actions \in [Records -> Row]
  BY DEF TypeOK, Row
<1>1. ASSUME NEW p \in Procs, NEW run \in Runs,
             NEW failing \in SUBSET Records, NEW passing \in SUBSET Records,
             RecordFindings(p, run, failing, passing)
      PROVE  RowKept(r)
  <2>. DEFINE rows == AfterFailing(failing, run)
  <2>1. rows \in [Records -> Row] /\ rows[r] # NoTask
    BY <1>0, AfterFailingType
  <2>2. actions' = AfterPassing(rows, passing, run)
    BY <1>1 DEF RecordFindings
  <2>3. SameButAnnotation(actions'[r], rows[r]) /\ actions'[r] # NoTask
    BY <2>1, <2>2, AfterPassingFields, AfterPassingType
  <2>. QED BY <1>0, <2>3, AfterFailingFields DEF SameButAnnotation, RowKept, Task
<1>2. ASSUME NEW p \in Procs, AnnotatePassing(p)
      PROVE  RowKept(r)
  BY <1>2, AnnotatePassingKeeps DEF RowKept, SameButAnnotation
<1>3. ASSUME NEW p \in Procs, MoveTask(p)
      PROVE  RowKept(r)
  <2>1. /\ call[p].hit \in Records
        /\ actions[call[p].hit] \in ActionRecord
        /\ call[p].target \in STATES
        /\ p \in Actors
    BY <1>3, ProcsAssumption DEF MoveTask, CallOK, TypeOK, Task, Call
  <2>2. actions' = [actions EXCEPT ![call[p].hit] = Close(@, call[p].target, p)]
    BY <1>3 DEF MoveTask
  <2>. QED BY <1>0, <2>1, <2>2, CloseType, NoTaskAssumption DEF RowKept, Task
<1>4. ASSUME actions' = actions PROVE RowKept(r)
  BY <1>4 DEF RowKept, Task
<1>. QED
  BY <1>1, <1>2, <1>3, <1>4
  DEF Next, Step, vars, BeginPassing, SkipPassing, HitPassing, ReadTask, Abandon

\* A closed task stays closed by whoever closed it, for any number of processes
\* reading it before they write.
THEOREM ClosedTasksStayClosed == Spec => ClosedStaysClosed
<1>1. TypeOK /\ CallOK /\ [Next]_vars
        => [\A r \in Records : Task(r) /\ actions[r].state # PENDING =>
              /\ Task(r)'
              /\ actions'[r].state = actions[r].state
              /\ actions'[r].state_changed_by = actions[r].state_changed_by]_vars
  BY StepKeepsRows DEF RowKept
<1>. QED BY <1>1, TypeCorrect, PTL DEF Spec, ClosedStaysClosed

\* The run that raised a task is never rewritten.
THEOREM RaisedByIsFixed == Spec => RaisedByNeverChanges
<1>1. TypeOK /\ CallOK /\ [Next]_vars
        => [\A r \in Records : Task(r) =>
              /\ Task(r)'
              /\ actions'[r].raised_by_run = actions[r].raised_by_run]_vars
  BY StepKeepsRows DEF RowKept
<1>. QED BY <1>1, TypeCorrect, PTL DEF Spec, RaisedByNeverChanges

------------------------------------------------------------------------------
\* The receipt, row by row: it moves to a run exactly when that run is recorded
\* as failing and is not older than the receipt so far.
LEMMA ReceiptStep ==
  ASSUME TypeOK, CallOK, ReceiptIsNewestFailure, NEW p \in Procs, NEW run \in Runs,
         NEW failing \in SUBSET Records, NEW passing \in SUBSET Records,
         RecordFindings(p, run, failing, passing)
  PROVE  ReceiptIsNewestFailure'
<1>. DEFINE rows == AfterFailing(failing, run)
<1>0. actions \in [Records -> Row]
  BY DEF TypeOK, Row
<1>1. /\ rows \in [Records -> Row]
      /\ \A r \in Records : rows[r] # NoTask <=> Task(r) \/ r \in failing
  BY <1>0, AfterFailingType
<1>2. actions' = AfterPassing(rows, passing, run)
  BY DEF RecordFindings
<1>. SUFFICES ASSUME NEW r \in Records
              PROVE  /\ Task(r)' <=> fails'[r] # {}
                     /\ Task(r)' => /\ actions'[r].last_failing_run \in fails'[r]
                                    /\ \A f \in fails'[r] :
                                         At[f] <= At[actions'[r].last_failing_run]
  BY DEF ReceiptIsNewestFailure
<1>3. fails'[r] = IF r \in failing THEN fails[r] \union {run} ELSE fails[r]
  BY DEF RecordFindings, TypeOK
<1>4. Task(r)' <=> Task(r) \/ r \in failing
  BY <1>1, <1>2, AfterPassingType DEF Task
<1>5. Task(r)' => actions'[r].last_failing_run = rows[r].last_failing_run
  BY <1>1, <1>2, <1>4, AfterPassingFields DEF SameButAnnotation
<1>6. fails[r] \subseteq Runs
  BY DEF TypeOK
<1>7. CASE r \notin failing
  <2>1. rows[r] = actions[r]
    BY <1>7 DEF AfterFailing
  <2>. QED BY <1>3, <1>4, <1>5, <1>7, <2>1 DEF ReceiptIsNewestFailure
<1>8. CASE r \in failing /\ Task(r)
  <2>1. actions[r] \in ActionRecord
    BY <1>0, <1>8 DEF Row, Task
  <2>2. rows[r] = RecordFailing(actions[r], run)
    BY <1>8 DEF AfterFailing
  <2>3. rows[r].last_failing_run = IF At[run] >= At[actions[r].last_failing_run]
                                   THEN run ELSE actions[r].last_failing_run
    BY <2>1, <2>2, RecordFailingFields
  <2>4. /\ actions[r].last_failing_run \in fails[r]
        /\ \A f \in fails[r] : At[f] <= At[actions[r].last_failing_run]
    BY <1>8 DEF ReceiptIsNewestFailure
  <2>5. \A f \in Runs : At[f] \in Nat
    BY AtAssumption
  <2>6. actions'[r].last_failing_run \in fails'[r]
    BY <1>3, <1>4, <1>5, <1>8, <2>3, <2>4
  <2>7. ASSUME NEW f \in fails'[r]
        PROVE  At[f] <= At[actions'[r].last_failing_run]
    <3>. DEFINE last == actions[r].last_failing_run
    <3>1. f = run \/ (f \in fails[r] /\ At[f] <= At[last])
      BY <1>3, <1>8, <2>4, <2>7
    <3>2. At[f] \in Nat /\ At[run] \in Nat /\ At[last] \in Nat
      BY <1>6, <2>4, <2>5, <3>1
    <3>3. actions'[r].last_failing_run = IF At[run] >= At[last] THEN run ELSE last
      BY <1>4, <1>5, <1>8, <2>3
    <3>. QED BY <3>1, <3>2, <3>3
  <2>. QED BY <1>3, <1>4, <1>8, <2>6, <2>7
<1>9. CASE r \in failing /\ ~Task(r)
  <2>1. fails[r] = {}
    BY <1>9 DEF ReceiptIsNewestFailure
  <2>2. rows[r].last_failing_run = run
    BY <1>9 DEF AfterFailing, RecordFailing, Task, NewTask
  <2>3. At[run] \in Nat
    BY AtAssumption
  <2>. QED BY <1>3, <1>4, <1>5, <1>9, <2>1, <2>2, <2>3
<1>. QED BY <1>7, <1>8, <1>9

\* Steps that record no FAIL keep the receipt as it was.
LEMMA ReceiptKept ==
  ASSUME ReceiptIsNewestFailure, fails' = fails,
         \A r \in Records :
           /\ Task(r)' <=> Task(r)
           /\ Task(r) => actions'[r].last_failing_run = actions[r].last_failing_run
  PROVE  ReceiptIsNewestFailure'
BY DEF ReceiptIsNewestFailure

LEMMA ReceiptNext ==
  TypeOK /\ CallOK /\ ReceiptIsNewestFailure /\ [Next]_vars => ReceiptIsNewestFailure'
<1>. SUFFICES ASSUME TypeOK, CallOK, ReceiptIsNewestFailure, [Next]_vars
              PROVE  ReceiptIsNewestFailure'
  OBVIOUS
<1>0. actions \in [Records -> Row]
  BY DEF TypeOK, Row
<1>1. ASSUME NEW p \in Procs, NEW run \in Runs,
             NEW failing \in SUBSET Records, NEW passing \in SUBSET Records,
             RecordFindings(p, run, failing, passing)
      PROVE  ReceiptIsNewestFailure'
  BY <1>1, ReceiptStep
<1>2. ASSUME NEW p \in Procs, AnnotatePassing(p)
      PROVE  ReceiptIsNewestFailure'
  <2>1. ASSUME NEW r \in Records
        PROVE  Task(r)' <=> Task(r)
    <3>. DEFINE run == call[p].run
                hit == call[p].hit
                rows == [actions EXCEPT ![hit] = Annotate(@, run)]
    <3>1. run \in Runs /\ hit \in Records /\ Task(hit) /\ call[p].todo \ {hit} \in SUBSET Records
      BY <1>2 DEF AnnotatePassing, TypeOK, CallOK, Call
    <3>2. /\ rows \in [Records -> Row]
          /\ rows[r] # NoTask <=> Task(r)
      BY <1>0, <3>1, AnnotatedType
    <3>3. actions' = AfterPassing(rows, call[p].todo \ {hit}, run)
      BY <1>2 DEF AnnotatePassing
    <3>. HIDE DEF run, hit, rows
    <3>. QED BY <3>1, <3>2, <3>3, AfterPassingType DEF Task
  <2>2. fails' = fails
    BY <1>2 DEF AnnotatePassing
  <2>. QED BY <1>2, <2>1, <2>2, AnnotatePassingKeeps, ReceiptKept DEF SameButAnnotation
<1>3. ASSUME NEW p \in Procs, MoveTask(p)
      PROVE  ReceiptIsNewestFailure'
  <2>1. /\ call[p].hit \in Records
        /\ actions[call[p].hit] \in ActionRecord
        /\ call[p].target \in STATES
        /\ p \in Actors
    BY <1>3, ProcsAssumption DEF MoveTask, CallOK, TypeOK, Task, Call
  <2>2. /\ actions' = [actions EXCEPT ![call[p].hit] = Close(@, call[p].target, p)]
        /\ fails' = fails
    BY <1>3 DEF MoveTask
  <2>3. \A r \in Records :
          /\ Task(r)' <=> Task(r)
          /\ Task(r) => actions'[r].last_failing_run = actions[r].last_failing_run
    BY <1>0, <2>1, <2>2, CloseType, NoTaskAssumption DEF Task
  <2>. QED BY <2>2, <2>3, ReceiptKept
<1>4. ASSUME actions' = actions, fails' = fails PROVE ReceiptIsNewestFailure'
  BY <1>4, ReceiptKept DEF Task
<1>. QED
  BY <1>1, <1>2, <1>3, <1>4
  DEF Next, Step, vars, BeginPassing, SkipPassing, HitPassing, ReadTask, Abandon

\* A record has a task exactly when a run failed it, and the receipt is the
\* newest run that did, whatever order the findings arrived in.
THEOREM ReceiptIsCurrent == Spec => []ReceiptIsNewestFailure
<1>1. Init => ReceiptIsNewestFailure
  BY DEF Init, ReceiptIsNewestFailure, Task
<1>. QED BY <1>1, ReceiptNext, TypeCorrect, PTL DEF Spec

------------------------------------------------------------------------------
\* One row's annotation is later than every failure and is one of the PASSes.
Sound(row, failed, passed) ==
  row.cleared_by_run # None =>
    /\ row.cleared_by_run \in passed
    /\ \A f \in failed : At[f] < At[row.cleared_by_run]

LEMMA AnnotationIsSound ==
  AnnotationIsLater <=> \A r \in Records : Task(r) => Sound(actions[r], fails[r], passes[r])
BY DEF AnnotationIsLater, Sound

LEMMA FailingIsSound ==
  ASSUME NEW row \in ActionRecord, NEW run \in Runs,
         NEW failed \in SUBSET Runs, NEW passed \in SUBSET Runs,
         Sound(row, failed, passed)
  PROVE  Sound(RecordFailing(row, run), failed \union {run}, passed)
<1>. DEFINE new == RecordFailing(row, run)
<1>1. new.cleared_by_run = IF row.cleared_by_run # None /\ At[run] >= At[row.cleared_by_run]
                           THEN None ELSE row.cleared_by_run
  BY RecordFailingFields
<1>. SUFFICES ASSUME new.cleared_by_run # None
              PROVE  /\ new.cleared_by_run \in passed
                     /\ \A f \in failed \union {run} : At[f] < At[new.cleared_by_run]
  BY DEF Sound
<1>2. /\ new.cleared_by_run = row.cleared_by_run
      /\ row.cleared_by_run # None
      /\ ~(At[run] >= At[row.cleared_by_run])
  BY <1>1
<1>3. At[run] \in Nat /\ At[row.cleared_by_run] \in Nat
  BY <1>2, AtAssumption DEF ActionRecord
<1>4. At[run] < At[row.cleared_by_run]
  BY <1>2, <1>3
<1>. QED BY <1>2, <1>4 DEF Sound

LEMMA PassingIsSound ==
  ASSUME NEW row \in ActionRecord, NEW run \in Runs,
         NEW failed \in SUBSET Runs, NEW passed \in SUBSET Runs,
         \A f \in failed : At[f] <= At[row.last_failing_run],
         Sound(row, failed, passed)
  PROVE  Sound(RecordPassing(row, run), failed, passed \union {run})
<1>1. CASE Annotates(row, run)
  <2>1. RecordPassing(row, run).cleared_by_run = run
    BY <1>1, RecordPassingFields
  <2>2. At[run] > At[row.last_failing_run]
    BY <1>1 DEF Annotates
  <2>3. \A f \in failed : At[f] \in Nat
    BY AtAssumption
  <2>4. At[run] \in Nat /\ At[row.last_failing_run] \in Nat
    BY AtAssumption DEF ActionRecord
  <2>. QED BY <2>1, <2>2, <2>3, <2>4 DEF Sound
<1>2. CASE ~Annotates(row, run)
  BY <1>2 DEF RecordPassing, Sound
<1>. QED BY <1>1, <1>2

\* With one process no other step comes between the SELECT that finds a PASS to
\* be news and the UPDATE that writes it: this is what two processes break.
OneWriter == \A p, q \in Procs : p = q

ReadStillHolds ==
  \A p \in Procs : pc[p] = "annotating" => Annotates(actions[call[p].hit], call[p].run)

AnnotationInv == ReceiptIsNewestFailure /\ AnnotationIsLater /\ ReadStillHolds

LEMMA AnnotationRecord ==
  ASSUME TypeOK, AnnotationIsLater, ReceiptIsNewestFailure', NEW p \in Procs,
         NEW run \in Runs, NEW failing \in SUBSET Records,
         NEW passing \in SUBSET Records, RecordFindings(p, run, failing, passing)
  PROVE  AnnotationIsLater'
<1>. DEFINE rows == AfterFailing(failing, run)
<1>0. actions \in [Records -> Row]
  BY DEF TypeOK, Row
<1>1. rows \in [Records -> Row]
  BY <1>0, AfterFailingType
<1>2. actions' = AfterPassing(rows, passing, run)
  BY DEF RecordFindings
<1>. SUFFICES ASSUME NEW r \in Records, Task(r)'
              PROVE  Sound(actions'[r], fails'[r], passes'[r])
  BY DEF AnnotationIsLater, Sound
<1>3. rows[r] \in ActionRecord
  BY <1>1, <1>2, AfterPassingType DEF Row, Task
<1>4. /\ fails'[r] = IF r \in failing THEN fails[r] \union {run} ELSE fails[r]
      /\ passes'[r] = IF r \in passing THEN passes[r] \union {run} ELSE passes[r]
  BY <1>1, <1>3, NoTaskAssumption DEF RecordFindings, Offer, TypeOK
<1>5. fails[r] \in SUBSET Runs /\ passes[r] \in SUBSET Runs /\ fails'[r] \in SUBSET Runs
  BY <1>4 DEF TypeOK
<1>6. Sound(rows[r], fails'[r], passes[r])
  <2>1. CASE r \notin failing
    BY <1>3, <1>4, <2>1, NoTaskAssumption DEF AfterFailing, AnnotationIsLater, Sound, Task
  <2>2. CASE r \in failing /\ Task(r)
    <3>1. actions[r] \in ActionRecord
      BY <1>0, <2>2 DEF Row, Task
    <3>2. Sound(actions[r], fails[r], passes[r])
      BY <2>2 DEF AnnotationIsLater, Sound
    <3>. QED BY <1>4, <1>5, <2>2, <3>1, <3>2, FailingIsSound DEF AfterFailing
  <2>3. CASE r \in failing /\ ~Task(r)
    BY <2>3 DEF AfterFailing, RecordFailing, NewTask, Task, Sound
  <2>. QED BY <2>1, <2>2, <2>3
<1>7. CASE r \in passing
  <2>1. actions'[r].last_failing_run = rows[r].last_failing_run
    BY <1>1, <1>2, <1>3, AfterPassingFields, NoTaskAssumption DEF SameButAnnotation
  <2>2. \A f \in fails'[r] : At[f] <= At[rows[r].last_failing_run]
    BY <2>1 DEF ReceiptIsNewestFailure
  <2>3. actions'[r] = RecordPassing(rows[r], run)
    BY <1>2, <1>7 DEF AfterPassing
  <2>4. Sound(RecordPassing(rows[r], run), fails'[r], passes[r] \union {run})
    BY <1>3, <1>5, <1>6, <2>2, PassingIsSound
  <2>. QED BY <1>4, <1>7, <2>3, <2>4
<1>8. CASE r \notin passing
  BY <1>2, <1>4, <1>6, <1>8 DEF AfterPassing
<1>. QED BY <1>7, <1>8

LEMMA AnnotationAnnotate ==
  ASSUME TypeOK, CallOK, AnnotationInv, NEW p \in Procs, AnnotatePassing(p)
  PROVE  AnnotationIsLater'
<1>. DEFINE run == call[p].run
            hit == call[p].hit
            todo == call[p].todo
            rows == [actions EXCEPT ![hit] = Annotate(@, run)]
<1>0. actions \in [Records -> Row]
  BY DEF TypeOK, Row
<1>1. run \in Runs /\ hit \in todo /\ Task(hit) /\ todo \subseteq Records
  BY DEF AnnotatePassing, TypeOK, CallOK, Call
<1>2. Annotates(actions[hit], run)
  BY DEF AnnotatePassing, AnnotationInv, ReadStillHolds
<1>3. /\ actions' = AfterPassing(rows, todo \ {hit}, run)
      /\ fails' = fails
      /\ Offer(actions, todo, run)
  BY DEF AnnotatePassing
<1>4. rows \in [Records -> Row] /\ \A r \in Records : rows[r] # NoTask <=> Task(r)
  BY <1>0, <1>1, AnnotatedType
<1>. SUFFICES ASSUME NEW r \in Records, Task(r)'
              PROVE  Sound(actions'[r], fails'[r], passes'[r])
  BY DEF AnnotationIsLater, Sound
<1>5. Task(r)
  <2>1. actions'[r] # NoTask <=> rows[r] # NoTask
    <3>. HIDE DEF run, hit, todo, rows
    <3>1. todo \ {hit} \in SUBSET Records
      BY <1>1
    <3>. QED BY <1>1, <1>3, <1>4, <3>1, AfterPassingType
  <2>. QED BY <1>4, <2>1 DEF Task
<1>6. /\ actions[r] \in ActionRecord
      /\ fails[r] \in SUBSET Runs
      /\ passes[r] \in SUBSET Runs
  BY <1>5, <1>0 DEF TypeOK, Row, Task
<1>7. /\ Sound(actions[r], fails[r], passes[r])
      /\ \A f \in fails[r] : At[f] <= At[actions[r].last_failing_run]
  BY <1>5 DEF AnnotationInv, AnnotationIsLater, ReceiptIsNewestFailure, Sound
<1>8. passes'[r] = IF r \in todo THEN passes[r] \union {run} ELSE passes[r]
  BY <1>3, <1>5 DEF Offer, Task
<1>9. actions'[r] = IF r \in todo THEN RecordPassing(actions[r], run) ELSE actions[r]
  <2>1. CASE r = hit
    <3>1. rows[r] = RecordPassing(actions[r], run)
      BY <1>0, <1>2, <2>1 DEF RecordPassing
    <3>2. actions'[r] = rows[r]
      BY <1>3, <2>1 DEF AfterPassing
    <3>. QED BY <1>1, <2>1, <3>1, <3>2
  <2>2. CASE r # hit
    BY <1>0, <1>3, <2>2 DEF AfterPassing
  <2>. QED BY <2>1, <2>2
<1>10. Sound(RecordPassing(actions[r], run), fails[r], passes[r] \union {run})
  BY <1>1, <1>6, <1>7, PassingIsSound
<1>. QED BY <1>3, <1>7, <1>8, <1>9, <1>10

\* Steps that leave the receipts alone, and only add PASSes, keep annotations sound.
LEMMA AnnotationKept ==
  ASSUME AnnotationIsLater, fails' = fails,
         \A r \in Records :
           /\ passes[r] \subseteq passes'[r]
           /\ Task(r)' <=> Task(r)
           /\ Task(r) => actions'[r].cleared_by_run = actions[r].cleared_by_run
  PROVE  AnnotationIsLater'
BY DEF AnnotationIsLater

LEMMA AnnotationNext ==
  OneWriter => (TypeOK /\ CallOK /\ AnnotationInv /\ [Next]_vars => AnnotationInv')
<1>. SUFFICES ASSUME OneWriter, TypeOK, CallOK, AnnotationInv, [Next]_vars
              PROVE  AnnotationInv'
  OBVIOUS
<1>0. actions \in [Records -> Row] /\ ReceiptIsNewestFailure'
  BY ReceiptNext DEF TypeOK, Row, AnnotationInv
<1>1. ASSUME NEW p \in Procs, NEW run \in Runs,
             NEW failing \in SUBSET Records, NEW passing \in SUBSET Records,
             RecordFindings(p, run, failing, passing)
      PROVE  AnnotationInv'
  <2>1. ReadStillHolds'
    BY <1>1 DEF OneWriter, RecordFindings, ReadStillHolds
  <2>. QED BY <1>0, <1>1, <2>1, AnnotationRecord DEF AnnotationInv
<1>2. ASSUME NEW p \in Procs, AnnotatePassing(p)
      PROVE  AnnotationInv'
  <2>1. pc'[p] = "idle"
    BY <1>2, FinishType DEF AnnotatePassing
  <2>2. ReadStillHolds'
    BY <2>1 DEF OneWriter, ReadStillHolds
  <2>. QED BY <1>0, <1>2, <2>2, AnnotationAnnotate DEF AnnotationInv
<1>3. ASSUME NEW p \in Procs, MoveTask(p)
      PROVE  AnnotationInv'
  <2>1. /\ call[p].hit \in Records
        /\ actions[call[p].hit] \in ActionRecord
        /\ call[p].target \in STATES
        /\ p \in Actors
    BY <1>3, ProcsAssumption DEF MoveTask, CallOK, TypeOK, Task, Call
  <2>2. /\ actions' = [actions EXCEPT ![call[p].hit] = Close(@, call[p].target, p)]
        /\ fails' = fails /\ passes' = passes
    BY <1>3 DEF MoveTask
  <2>3. \A r \in Records :
          /\ Task(r)' <=> Task(r)
          /\ Task(r) => actions'[r].cleared_by_run = actions[r].cleared_by_run
    BY <1>0, <2>1, <2>2, CloseType, NoTaskAssumption DEF Task
  <2>4. AnnotationIsLater'
    BY <2>2, <2>3, AnnotationKept DEF AnnotationInv
  <2>5. ReadStillHolds'
    BY <1>3, FinishType DEF MoveTask, OneWriter, ReadStillHolds
  <2>. QED BY <1>0, <2>4, <2>5 DEF AnnotationInv
<1>4. ASSUME NEW p \in Procs, NEW r \in Records, HitPassing(p, r)
      PROVE  AnnotationInv'
  <2>1. ReadStillHolds'
    BY <1>4 DEF HitPassing, OneWriter, ReadStillHolds, TypeOK
  <2>2. AnnotationIsLater'
    BY <1>4, AnnotationKept DEF HitPassing, AnnotationInv, Task
  <2>. QED BY <1>0, <2>1, <2>2 DEF AnnotationInv
<1>5. ASSUME NEW p \in Procs, NEW r \in Records, SkipPassing(p, r)
      PROVE  AnnotationInv'
  <2>1. pc'[p] \in {"reading", "idle"}
    BY <1>5, FinishType DEF SkipPassing
  <2>2. \A s \in Records : passes[s] \subseteq passes'[s]
    BY <1>5 DEF SkipPassing, Offer
  <2>3. AnnotationIsLater'
    BY <1>5, <2>2, AnnotationKept DEF SkipPassing, AnnotationInv, Task
  <2>4. ReadStillHolds'
    BY <2>1 DEF OneWriter, ReadStillHolds
  <2>. QED BY <1>0, <2>3, <2>4 DEF AnnotationInv
<1>6. ASSUME NEW p \in Procs, NEW run \in Runs, NEW passing \in SUBSET Records,
             BeginPassing(p, run, passing)
      PROVE  AnnotationInv'
  <2>1. ReadStillHolds'
    BY <1>6 DEF BeginPassing, OneWriter, ReadStillHolds, TypeOK
  <2>2. AnnotationIsLater'
    BY <1>6, AnnotationKept DEF BeginPassing, AnnotationInv, Task
  <2>. QED BY <1>0, <2>1, <2>2 DEF AnnotationInv
<1>7. ASSUME NEW p \in Procs, NEW r \in Records, NEW target \in STATES,
             ReadTask(p, r, target)
      PROVE  AnnotationInv'
  <2>1. ReadStillHolds'
    BY <1>7 DEF ReadTask, OneWriter, ReadStillHolds, TypeOK
  <2>2. AnnotationIsLater'
    BY <1>7, AnnotationKept DEF ReadTask, AnnotationInv, Task
  <2>. QED BY <1>0, <2>1, <2>2 DEF AnnotationInv
<1>8. ASSUME NEW p \in Procs, Abandon(p)
      PROVE  AnnotationInv'
  <2>1. ReadStillHolds'
    BY <1>8, FinishType DEF Abandon, OneWriter, ReadStillHolds
  <2>2. AnnotationIsLater'
    BY <1>8, AnnotationKept DEF Abandon, AnnotationInv, Task
  <2>. QED BY <1>0, <2>1, <2>2 DEF AnnotationInv
<1>9. CASE UNCHANGED vars
  BY <1>0, <1>9, AnnotationKept DEF vars, AnnotationInv, ReadStillHolds, Task
<1>. QED
  BY <1>1, <1>2, <1>3, <1>4, <1>5, <1>6, <1>7, <1>8, <1>9 DEF Next, Step

\* With one process on the store file, an annotation is always later than every
\* failure recorded: the SELECT and the UPDATE of a PASS-only batch cannot be
\* separated by another write.
THEOREM AnnotationsAreLater == OneWriter => (Spec => []AnnotationIsLater)
<1>. SUFFICES ASSUME OneWriter PROVE Spec => []AnnotationIsLater
  OBVIOUS
<1>1. Init => AnnotationInv
  BY DEF Init, AnnotationInv, ReceiptIsNewestFailure, AnnotationIsLater,
         ReadStillHolds, Task
<1>2. TypeOK /\ CallOK /\ AnnotationInv /\ [Next]_vars => AnnotationInv'
  BY AnnotationNext
<1>3. AnnotationInv => AnnotationIsLater
  BY DEF AnnotationInv
<1>. QED BY <1>1, <1>2, <1>3, TypeCorrect, PTL DEF Spec
------------------------------------------------------------------------------
(* An annotation that is due is there, row by row: row is a task's row, F the *)
(* runs that failed its record, P the runs whose PASS it was offered.         *)

Shown(row, F, P) ==
  /\ P # {} => row # NoTask
  /\ row # NoTask /\ row.cleared_by_run # None => row.cleared_by_run \in P
  /\ P # {} /\ (\A p \in P, f \in F : At[f] < At[p]) => row.cleared_by_run \in P

\* A failure forgets the annotation only when it is not older, and then the PASS
\* is no longer later than every failure.
LEMMA ShownFailing ==
  ASSUME NEW row \in Row, NEW run \in Runs, NEW F, NEW P \in SUBSET Runs,
         Shown(row, F, P)
  PROVE  Shown(RecordFailing(row, run), F \union {run}, P)
<1>. USE NoneAssumption, NoTaskAssumption, AtAssumption
<1>1. CASE row = NoTask
  BY <1>1, RecordFailingType DEF Shown, RecordFailing, NewTask
<1>2. CASE row \in ActionRecord
  <2>. DEFINE new == RecordFailing(row, run)
  <2>1. /\ new # NoTask /\ row # NoTask
        /\ new.cleared_by_run =
             IF row.cleared_by_run # None /\ At[run] >= At[row.cleared_by_run]
             THEN None ELSE row.cleared_by_run
    BY <1>2, RecordFailingFields, RecordFailingType
  <2>. HIDE DEF new
  <2>2. ASSUME P # {}, \A p \in P, f \in F \union {run} : At[f] < At[p]
        PROVE  new.cleared_by_run \in P
    <3>1. row.cleared_by_run \in P
      BY <2>2 DEF Shown
    <3>2. At[run] < At[row.cleared_by_run] /\ At[run] \in Nat /\ At[row.cleared_by_run] \in Nat
      BY <2>2, <3>1
    <3>. QED BY <2>1, <3>1, <3>2
  <2>3. Shown(new, F \union {run}, P)
    BY <2>1, <2>2 DEF Shown
  <2>. QED BY <2>3 DEF new
<1>. QED BY <1>1, <1>2 DEF Row

\* An offered PASS annotates the task unless it is annotated already or the PASS
\* is not later than the newest failure.
LEMMA ShownPassing ==
  ASSUME NEW row \in Row, NEW run \in Runs, NEW F \in SUBSET Runs, NEW P \in SUBSET Runs,
         Shown(row, F, P), row # NoTask => row.last_failing_run \in F
  PROVE  Shown(RecordPassing(row, run), F, IF row # NoTask THEN P \union {run} ELSE P)
<1>. USE NoneAssumption, NoTaskAssumption, AtAssumption
<1>1. CASE row = NoTask
  BY <1>1 DEF Shown, RecordPassing, Annotates
<1>2. CASE row \in ActionRecord
  <2>. DEFINE new == RecordPassing(row, run)
  <2>1. /\ new # NoTask /\ row # NoTask
        /\ new.cleared_by_run = IF Annotates(row, run) THEN run ELSE row.cleared_by_run
    BY <1>2, RecordPassingFields, RecordPassingType
  <2>5. SUFFICES Shown(new, F, P \union {run})
    BY <2>1 DEF new
  <2>. HIDE DEF new
  <2>2. CASE Annotates(row, run)
    BY <2>1, <2>2 DEF Shown
  <2>4. CASE ~Annotates(row, run) /\ row.cleared_by_run # None
    <3>1. new.cleared_by_run = row.cleared_by_run /\ row.cleared_by_run \in P \union {run}
      BY <2>1, <2>4 DEF Shown
    <3>. QED BY <2>1, <3>1 DEF Shown
  <2>3. CASE ~Annotates(row, run) /\ row.cleared_by_run = None
    <3>1. ~(At[run] > At[row.last_failing_run]) /\ row.last_failing_run \in F
      BY <2>1, <2>3 DEF Annotates
    <3>2. At[run] \in Nat /\ At[row.last_failing_run] \in Nat
      BY <3>1
    <3>3. ~(\A p \in P \union {run}, f \in F : At[f] < At[p])
      BY <3>1, <3>2
    <3>4. new.cleared_by_run = None
      BY <2>1, <2>3
    <3>. QED BY <2>1, <3>3, <3>4 DEF Shown
  <2>. QED BY <2>2, <2>3, <2>4
<1>. QED BY <1>1, <1>2 DEF Row

AllShown == \A r \in Records : Shown(actions[r], fails[r], passes[r])

ShownInv == ReceiptIsNewestFailure /\ AllShown

LEMMA ShownNext == TypeOK /\ CallOK /\ ShownInv /\ [Next]_vars => AllShown'
<1>. SUFFICES ASSUME TypeOK, CallOK, ShownInv, [Next]_vars, NEW r \in Records
              PROVE  Shown(actions'[r], fails'[r], passes'[r])
  BY DEF AllShown
<1>0. /\ actions \in [Records -> Row]
      /\ fails[r] \in SUBSET Runs
      /\ passes[r] \in SUBSET Runs
      /\ Shown(actions[r], fails[r], passes[r])
      /\ actions[r] # NoTask => actions[r].last_failing_run \in fails[r]
  BY DEF TypeOK, Row, ShownInv, AllShown, ReceiptIsNewestFailure, Task
<1>1. ASSUME NEW p \in Procs, NEW run \in Runs, NEW failing \in SUBSET Records,
             NEW passing \in SUBSET (Records \ failing),
             RecordFindings(p, run, failing, passing)
      PROVE  Shown(actions'[r], fails'[r], passes'[r])
  <2>. DEFINE rows == AfterFailing(failing, run)
  <2>1. /\ actions'[r] = IF r \in passing THEN RecordPassing(rows[r], run) ELSE rows[r]
        /\ fails'[r] = IF r \in failing THEN fails[r] \union {run} ELSE fails[r]
        /\ passes'[r] = IF r \in passing /\ rows[r] # NoTask
                        THEN passes[r] \union {run} ELSE passes[r]
    BY <1>1 DEF RecordFindings, AfterPassing, Offer
  <2>2. rows[r] = IF r \in failing THEN RecordFailing(actions[r], run) ELSE actions[r]
    BY DEF AfterFailing
  <2>. HIDE DEF rows
  <2>3. actions[r] \in Row
    BY <1>0
  <2>4. CASE r \in failing
    BY <1>0, <2>1, <2>2, <2>3, <2>4, ShownFailing
  <2>5. CASE r \in passing
    <3>1. /\ actions'[r] = RecordPassing(actions[r], run)
          /\ fails'[r] = fails[r]
          /\ passes'[r] = IF actions[r] # NoTask THEN passes[r] \union {run} ELSE passes[r]
      BY <2>1, <2>2, <2>5
    <3>. QED BY <1>0, <2>3, <3>1, ShownPassing
  <2>6. CASE r \notin failing \union passing
    BY <1>0, <2>1, <2>2, <2>6
  <2>. QED BY <2>4, <2>5, <2>6
<1>2. ASSUME NEW p \in Procs, NEW s \in Records, SkipPassing(p, s)
      PROVE  Shown(actions'[r], fails'[r], passes'[r])
  <2>1. /\ actions' = actions /\ fails' = fails
        /\ ~Annotates(actions[s], call[p].run)
        /\ call[p].run \in Runs
        /\ passes'[r] = IF r = s /\ actions[r] # NoTask
                        THEN passes[r] \union {call[p].run} ELSE passes[r]
    BY <1>2 DEF SkipPassing, CallOK, Offer
  <2>2. CASE r = s
    <3>1. actions[r] = RecordPassing(actions[r], call[p].run) /\ actions[r] \in Row
      BY <1>0, <2>1, <2>2 DEF RecordPassing
    <3>2. Shown(RecordPassing(actions[r], call[p].run), fails[r],
                IF actions[r] # NoTask THEN passes[r] \union {call[p].run} ELSE passes[r])
      BY <1>0, <2>1, <3>1, ShownPassing
    <3>. QED BY <2>1, <2>2, <3>1, <3>2
  <2>3. CASE r # s
    BY <1>0, <2>1, <2>3
  <2>. QED BY <2>2, <2>3
<1>3. ASSUME NEW p \in Procs, AnnotatePassing(p)
      PROVE  Shown(actions'[r], fails'[r], passes'[r])
  <2>. DEFINE run == call[p].run
              hit == call[p].hit
              rows == [actions EXCEPT ![hit] = Annotate(@, run)]
  <2>1. run \in Runs /\ hit \in call[p].todo /\ hit \in Records /\ Task(hit)
    BY <1>3 DEF AnnotatePassing, CallOK, TypeOK, Call
  <2>2. /\ fails' = fails
        /\ actions'[r] = IF r \in call[p].todo \ {hit} THEN RecordPassing(rows[r], run) ELSE rows[r]
    BY <1>3 DEF AnnotatePassing, AfterPassing
  <2>6. passes'[r] = IF r \in call[p].todo /\ actions[r] # NoTask
                     THEN passes[r] \union {run} ELSE passes[r]
    BY <1>3 DEF AnnotatePassing, Offer
  <2>3. rows[r] = IF r = hit THEN Annotate(actions[r], run) ELSE actions[r]
    BY <1>0, <2>1
  <2>. HIDE DEF run, hit, rows
  <2>4. CASE r = hit
    <3>1. actions[r] \in ActionRecord /\ actions[r] # NoTask
      BY <1>0, <2>1, <2>4 DEF Row, Task
    <3>2. rows[r] # NoTask /\ rows[r].cleared_by_run = run
      BY <2>1, <2>3, <2>4, <3>1, AnnotateType, NoTaskAssumption
    <3>. QED BY <2>1, <2>2, <2>4, <2>6, <3>1, <3>2 DEF Shown
  <2>5. CASE r # hit
    BY <1>0, <2>1, <2>2, <2>3, <2>5, <2>6, ShownPassing
  <2>. QED BY <2>4, <2>5
<1>4. ASSUME NEW p \in Procs, MoveTask(p)
      PROVE  Shown(actions'[r], fails'[r], passes'[r])
  <2>1. /\ call[p].hit \in Records
        /\ actions[call[p].hit] \in ActionRecord
        /\ call[p].target \in STATES
        /\ p \in Actors
    BY <1>4, ProcsAssumption DEF MoveTask, CallOK, TypeOK, Task, Call
  <2>2. /\ actions' = [actions EXCEPT ![call[p].hit] = Close(@, call[p].target, p)]
        /\ fails' = fails /\ passes' = passes
    BY <1>4 DEF MoveTask
  <2>3. /\ actions'[r] # NoTask <=> actions[r] # NoTask
        /\ actions[r] # NoTask => actions'[r].cleared_by_run = actions[r].cleared_by_run
    BY <1>0, <2>1, <2>2, CloseType, NoTaskAssumption
  <2>. QED BY <1>0, <2>2, <2>3 DEF Shown
<1>5. CASE UNCHANGED <<actions, fails, passes>>
  BY <1>0, <1>5
<1>. QED
  BY <1>1, <1>2, <1>3, <1>4, <1>5
  DEF Next, Step, vars, BeginPassing, HitPassing, ReadTask, Abandon

\* An annotation that is due is never missing, for any number of processes: when
\* every PASS offered to a task is later than every failure, the task says so.
THEOREM LaterPassesAreShown == Spec => []LaterPassIsShown
<1>1. Init => AllShown
  BY DEF Init, AllShown, Shown
<1>2. AllShown => LaterPassIsShown
  BY DEF AllShown, Shown, LaterPassIsShown
<1>. QED BY <1>1, <1>2, ShownNext, ReceiptIsCurrent, TypeCorrect, PTL DEF Spec, ShownInv
==============================================================================
