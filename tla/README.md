# Verification of the hotel controls engine

This directory holds TLA+ specifications of the engine under `src/`: what its
store, its dispatcher, its guest desk, its evidence gathering and transport, its
evaluator, its scheduler, its compiler and the requests that drive them do,
model-checked with TLC and, for the parts that matter most, proved with TLAPS.
`PROJECT.json` maps every definition to the source lines it stands for.

## 1. The system

The engine runs reviewed **controls** (a rule per JSON file) against a **body of
evidence** (what a property management system answers, live or recorded) and keeps
the verdicts. A FAIL becomes a **task** in a queue that a person closes; a task may
be emailed once. A **guest request** for a late checkout is decided by an approved
table and becomes a task too. A manager **composes** new rules in a restricted
English. Everything durable is in one SQLite file and in files under `spec/`.

| Component | State | Operations | Hard behaviour | What makes it correct |
|---|---|---|---|---|
| Findings queue (`store/sqlite.py`, `actions/records.py`) | the `actions` table | `record_findings`, `transition` | runs arriving out of order and tied; a second process on the file; calls that die | one task per failing record, newest failure as receipt, annotation only and always by a later PASS, closed stays closed |
| Run store, run pipeline (`web/app.py` `_execute`, `runner/run.py`, `findings_from`) | `runs`; the request in flight | load rule, run, save, record | the rule is loaded twice; edits and crashes between steps; one id for repeated runs | tasks name stored runs, and the rule that raised them |
| Dispatch (`actions/notify.py`, `tools/notifiers/`) | the sent marker of a task | claim, send, release, note | two dispatchers, closed meanwhile, failing backend, death mid-send | at most one email, honest notes, nothing dropped |
| Guest desk (`guest/`, `save_decision`) | `decisions` and their tasks | ask, decide, save | double taps over changing evidence, racing processes, policy edits | decisions follow from evidence, one decision and one task per request |
| Evidence gathering (`evidence/`) | cache, budget, bundles of one run | population, references, follow-ups | budget exhausted, failures remembered, unreadable keys | a gap is UNKNOWN for the records it concerns and only for those |
| Live transport (`providers/transport/`) | token bucket, recording directory | fetch with pacing and retries, record | Retry-After, refusals, a clock set back, death between two writes | bounded attempts, bounded rate, an index that tells the truth |
| Replay, adapters (`providers/*/`, `tools/transcode_demopms.py`) | none | cover, narrow, encode; resolve a field, transcode it | a question wider, narrower or other than the one recorded; a spelling one vendor has and the other has not | no replay misses a record; two vendors, one hotel |
| Probe (`tools/probe.py`) | the approved plan | plan, approve, send | budgets, repeated sessions, crashes | never more than was printed |
| Evaluator (`evaluator/`) | none | verdict of a record, a collection, a population | unknown and absent values in every operand | no conclusion better evidence could overturn |
| Scheduling (`runner/scheduling.py`) | none | next evaluation, freshness | fall-backs, a clock that is moved | every control runs when its block says; nothing old is shown as fresh |
| Compiler, specification (`compiler/`, `spec/ir.py`) | none | compile, validate | negations, settings, absences | the rule is all of the sentence and nothing else |
| Spec lock (`spec/lock.py`) | `ir.lock.json` | check, rebuild | edits by hand | a version number stands for one rule |
| Compose, tenant context (`web/app.py`, `web/auth.py`) | conversations, draft files, the request | turn, accept, verify | caps, reused ids, another property's name in a URL | a request sees its own property, a transcript is its own conversation |
| Rendering, log, model compiler, command lines, UI | none | pages, lines | none | outside the models |

Interactions. The web layer is one serial HTTP server (`web/server.py` uses
`HTTPServer`, one request at a time), so within a process there is no
interleaving. The interleavings come from **several processes with the same
store file** (the store's own tests open a second one), from **people** moving
tasks, from **edits of the files** under `spec/`, from the **server of the PMS**,
and from **processes that end** between two commits. Python's `sqlite3` begins a
transaction at the first INSERT or UPDATE, not at a SELECT; which statements share
a transaction decides what is one step in the models. The live source is wired in
`tools/probe.py` only; the web layer replays recordings.

## 2. The modules

| Module | Models | State |
|---|---|---|
| `ActionRecords` | one row of `actions`: raised, refreshed, annotated, closed | none: operators |
| `FindingsQueue` | `record_findings` and `transition` of several processes | rows, each process's place in its call, histories of FAILs and PASSes |
| `MailOnce` | what the sent marker promises: the right to mail is free, held or spent | marker, inbox |
| `Dispatch`, `CalmDispatch` | `dispatch`/`_deliver` with its store calls and the backend; the same where nothing dies and everybody has a route | rows, routes of each process, its place, batch, note to write; histories |
| `GuestDecision`, `GuestDesk` | the table, the fee, the gaps, the policy check; asking, deciding and storing | policy file, decisions, tasks, each process's request; answers given |
| `RunPipeline` | `_execute` from the rule file to the queue | files, stored runs, tasks, the request in flight; completed runs |
| `Predicates`, `Evaluator`, `ShippedRules` | clauses, verdicts, seven shipped rules and what each says in plain terms | the rule, the bundles, which get better |
| `TokenBucket` | the limiter | real time, the clock, the bucket; when calls went out |
| `LiveSource` (on `TokenBucket`) | one fetch: paced, dialled, retried | the fetch in flight; dials, refusals, answers |
| `Recorder` (on `LiveSource`) | the directory of recordings, in two writes | files, index, captures; torn files |
| `Adapters` (on `Replay`) | what a field of a record resolves to at either vendor, and how the transcoder writes it down | none: operators |
| `Replay`, `WireForm` | how a recording answers a question, in both vendors' words; which questions have a wire form | none: operators |
| `ProbePlan`, `Gather` (on all of the above) | what may be sent; one run or probe over the source, its cache, budget and bundles | needs, place, cache, outcome, sessions |
| `Scheduling`, `Rounds` | plans, durations, freshness; a control over the days of a hotel | what is asked about, now, last run, unseen changes, runs per day |
| `Grammar`, `RuleCheck` | from a sentence to a rule; whether it is safe to run | none: operators |
| `SpecLock` | reviewed rules edited by hand, and the lock | rules, lock; what was locked |
| `Desk` (on `RuleCheck`) | requests: tokens, property, conversations, drafts | auth, clock, talks, drafts, the reply; turns said |
| `...Proofs` | the theorems (section 5) | |
| `MC...` | instances for TLC | |

How they correspond to the code:

* **Rows name runs, not instants.** A run id is a digest that includes the
  instant the run was made at, so `At[run]` recovers `raised_at`,
  `last_failing_at` and `cleared_at`. Ties (two captures of one instant) are
  in the instances.
* **FindingsQueue.** A batch with a FAIL starts with an INSERT and is one step
  (`RecordFindings`). A batch of PASSes reads each row in autocommit
  (`SkipPassing`, `HitPassing`) until its first UPDATE (`AnnotatePassing`),
  which takes the lock and runs the rest. `transition` is a read and a guarded
  write. `Abandon` is the end of the process or a busy timeout.
* **Dispatch.** Each store call and the send are steps. `TakeUp` is the read of
  the row, and the branch taken (`LeaveAlone`, `Unroutable`, `Routable`) is
  decided from it. The mail server is external: it may take the message, refuse
  it, raise something else, or take it and still look refused (`AcceptThenFail`,
  counted in `disowned`; the code goes by the report, so that task is mailed again).
* **GuestDesk.** The evidence of an ask is any of `Lookups`: the form names the
  body of evidence, so two asks may see different facts. The policy digest in
  the identity is the policy itself. `Save` is one transaction because it starts
  with an INSERT.
* **RunPipeline.** One control of one property. `Select` and `Run` each load
  the rule. What a rule concludes from a capture under given settings is the
  constant `Verdicts`; `Save` is keyed by the capture alone, as `make_run_id` is.
* **Evaluator.** The evaluator is pure, so what moves is the evidence. Everything
  starts unread, and each step reads one field, answers one join, or finds whose
  an unplaced record is. Properties over these steps speak of all completions of
  all partial evidence. The reference definitions in `ShippedRules` (`Concerns`,
  `Wrong`) use sets of days and nights and no clause, mode or three-valued answer.
* **Gather.** The questions of a run are known once its population is, so a run
  is its list of `needs` and a place in it; each is reused, asked, or stops the run, and
  a need that has no question (a follow-up the record lacks the key for) is passed over
  (`Skip`).
  `got` is what came back and has not been looked at yet, `Learn` is the caller
  looking. Bundles are operators over the cache (`Bundle`). A session is a control
  that is run, or a probe; a probe may die at any step, and the next one records
  into the same directory. What a probe may ask again is in the committed index
  (`Committed`), which is not the directory it records into: a person promotes a
  recording through the scrub.
* **Replay, Adapters.** A text is what the parsers tell texts apart by, and a status or
  filter is its name in the vocabulary; `FieldsAreTheSame` is a conjunct of
  `DemoIsTheSameHotel`, so `GatherLive` checks both over the texts of `MCGather`.
* **TokenBucket, LiveSource.** Banked tokens are counted in ticks, so a token is
  `Interval` of them and no fraction is needed. `take` gives the time away at once
  and the caller sleeps it, so both are one step. The clock may be set back by any
  of `Drifts` between any two steps. A dial may meet any of `Errors` or be answered,
  well-formed or not; Retry-After that is too large for a `timedelta` is `Huge`.
* **Rounds.** The engine only answers `next_evaluation`; the loop that asks it at
  every instant is the caller's, as the module's docstring says. A hotel keeps
  instants as one zone's datetimes (subtracted on the wall) or with offsets
  (as the store reads them back), and its clock is moved at `change`. A midnight is
  00:00 on the former even where the clock skips it (`MidnightReading`). A block with a
  duration nobody can read is refused with a `ScheduleError` and its control never runs.
* **Grammar, RuleCheck.** A sentence is the record of its clauses; which words a
  clause is made of is one member of a small set. `Refusal` is the first error the
  parser meets, `Logic` the rule otherwise, `Compilation` what is wrong with it.
* **Desk.** A reply is kept until it is sent, so that `OwnProperty` can speak of it
  together with the clock and the request. A token is what is wrong with it, what it
  names and until when; the signature is one of the things that may be wrong.

## 3. Runs

Every property has a mutant in `PROJECT.json`: a plausible bug in one mapped
definition under which TLC finds the property violated.

| Run | Question | Bounds |
|---|---|---|
| `QueueSharedFile` | receipts, closed tasks, origins, and shown PASSes with two writers? | 1 record, 4 runs of which two are of one instant, 2 processes |
| `QueueStaleAnnotation` | **violated**: annotations with two writers | same |
| `Dispatch` | the marker's promises under races, crashes and changing routes, refinement of `MailOnce`; and, while no process dies, liveness | 2 tasks, 2 processes, 1 disowned send; `calm` chooses: all of it with crashes, or no crash |
| `GuestTable` | the table, the fee, and the store of decisions | an hour of 3 minutes, 8 times of day, 10 look-ups, 4 policies (one out of order, one half decided), 2 decisions; `crowd` chooses: the whole table with one process, or two racing on one request |
| `GuestDoubleTap` | **violated**, see findings | 1 process |
| `PipelineEdits` | edits, settings, people and crashes | 3 rules (one edited without a bump), 2 settings, 2 captures, 1 record |
| `PipelineReceipt` | **violated**, see findings | 2 rules, 2 settings |
| `Evaluator` | verdicts that stand, and are right | 7 rules; 1 record, or 3 of a group of which the third is partly read; 7 days; a collection of up to 2 segments, one of which may be unplaced, fetched for no dates, 2..4 or 3..6, asked on 2 |
| `GatherLive` | gathering, transport, recording and replay together | 2 controls, 4 records (two of one reservation, an unreadable and an absent key, an unreadable identity), 5 probed controls, 10 orders, budgets 2 and 6, 2 attempts, 6 outcomes of a dial, capacity 2, one setting back by 3, 2 sessions |
| `Desk` | requests, filed rules, the lock, and rounds | `job` chooses one of four: two conversations and three turns of which two are kept; two drafts over about 70 sentences; two controls, two versions; 12 instants of 4 a day at six clocks, six controls of which one's interval cannot be read, three providers |
| `ComposeNegation` | **violated**, see findings | the sentences of `Desk` |
| `RoundsSilent` | **violated**, see findings | the rounds of `Desk` |

Why the bounds are enough: a task is the row of one record, and a batch touches the
rows of its records one by one, so what goes wrong for a task goes wrong with one
record: `QueueSharedFile` has one, since two take it past a few minutes, and the theorems
hold for any number. Three distinct instants and a tie give every order a comparison of two instants can meet with a
third in between; a race needs two processes. `Hour = 3` keeps an inside and
both edges of every band while the arithmetic stays that of 60. Three records of a
group are the least in which one is accused, one is not, and a third cannot be read.
The days of `Evaluator` lie on both sides of both ends of both windows. Two attempts
are the least with a retry and a last one; a budget of 2 runs out in the middle of
either control and one of 6 does not; two sessions are the least in which a recording
can be torn by the first and read by the second; the drift (3) exceeds the bucket's
whole capacity. Clocks of the rounds are moved forward and back, within a day and at
midnight, and three days see the one before, the one it happens on and the one after.
Two conversations with a cap of two and two owners make the cap bite. The bounds on
growth are `MaxDisowned`, `MaxDecisions`, `MaxSessions`, `MaxDrifts`, `MaxSaid`,
`MaxDrafts`, `LastInstant`, `Horizon`, `LastVersion` and the number of runs.

`MCDispatch`, `MCGuestDesk` and `MCDesk` put instances side by side that never meet in
one behaviour; the marker variable is set at the start and never changes.
`GatherLive` and `Evaluator` do not check deadlock: a session really ends, and evidence
is fully known at some point.

Fairness. `Dispatch!Fairness`: weak fairness of a called `dispatch()`, for a Python
call that is not killed runs on; strong fairness of `Begin` with a task and of `Accept`
of its message: controls are run again and again, and the mail server does not refuse
one message forever. `CalmOwedIsEmailed` is conditional on exactly that; nothing in the
code retries by itself. `Gather!Spec`: weak fairness of `Work`: a session is one
sequential program. A crash disables it, and setting the clock back is bounded, so
`SessionsEnd` says that retries, pacing and Retry-After add up to an end.

## 4. Findings

Each is a violation run; its trace is a sequence of calls of the code.

1. **A stale PASS annotates a task that failed later** (`QueueStaleAnnotation`).
2. **A double tap over a failed look-up is two decisions** (`GuestDoubleTap`).
3. **A receipt is rewritten by a run of another rule version or other settings**
   (`PipelineReceipt`).
4. **"No stay must have P" is filed as "every stay must have P"** (`ComposeNegation`):
   `_modal` looks at the quantifier only after "may".
5. **A mandatory re-check is never made where events are published** (`RoundsSilent`):
   the fallback that carries its interval is read only when an event is missing.

Divergences met while modelling, for which there is no run of their own:

* With two processes, a task closed between read and claim is emailed
  (`sqlite.py:467`, against `notify.py:33`); `OneProcessHeedsClosing` is the other side.
* `population.py:137` returns at the first clause that is not settled: UNKNOWN where
  `record.py` says EXCLUDED, against `population.py:125`.
* `_booking_matches` drops bookings whose dates cannot be read.
* A recording's suffix comes from the body (`record.py:98`), not the request as
  lines 82-83 say; another capture of the same question overwrites its file (which the
  index then says).
* `_uncovered` compares the names of filters and not the value of a status: a recording of
  one status answers for another, with nothing. `ReplayMissesNothing` excepts it
  (`AnotherStatus`).
* A record of a booking with several stays that has no room number of its own is given the
  room of a sibling stay, by both adapters, against `minihotel/records.py:18` ("A record may
  NEVER read a sibling").
* Three spellings no capture holds, in which the demo hotel reads other than the captured
  one: an unreadable closure date (written as null, so "not closed" where the capture says
  UNKNOWN), a flag word of another field (`_bool` knows the words of every field), and a
  negative capacity. `FieldsAreTheSame` names them.
* A huge Retry-After overflows (`http.py:271`); a body that does not parse ends the whole
  run (`gather.py:201`), although line 174 speaks of one bundle.
* `gather.py:231` answers a definite non-match although some remote keys were unreadable.
* The call budget counts fetches, not attempts. The probe gives the bucket a clock that
  stands still.
* A deleted control drops out of the lock and may come back with other content under its
  old version, against `lock.py:3` (`SpecLock!dropped`; the lock's promises except it).
* Same-zone datetimes are subtracted on the wall: evidence looks an hour younger on the
  day the clock is set back. A `scheduled` plan ignores `last_run_at` and stays due.
* `showing` fields are not checked against the vocabulary, a template of another entity
  is accepted, and `_turn` compiles without the tenant: such a rule is filed (201) and
  always blocked, or called a rule and then refused (422).
* `split_reply` takes the first line that starts with a quantifier ("All right, ...").
* Filing a draft is one unsafe write and filing again replaces it with version 1; two
  ids with one slug are one draft.

## 5. Proofs

All theorems hold for every value of the constants under the named ASSUMEs, which the
runs evaluate for their instances. The type invariants are proved and not run.

* `FindingsQueueProofs`. `TypeCorrect` strengthens `TypeOK` by `CallOK` (a call
  in flight carries a run and an existing row), because the later steps of a call
  index rows with what the earlier ones read. `StepKeepsRows` states what no step
  does to an existing row, and gives `ClosedTasksStayClosed` and
  `RaisedByIsFixed`. `ReceiptIsCurrent` is inductive beside the types.
  `AnnotationsAreLater` needs `OneWriter` (at most one process) and an invariant
  that the row about to be annotated is still as it was read; without `OneWriter`
  it is finding 1. `LaterPassesAreShown` is inductive once it also
  says that an annotation is one of the PASSes offered (`Shown`) and that the
  receipt is the newest failure, which is what a PASS is compared with
  (`ShownInv`); no assumption on the number of processes is needed, for a stale
  annotation is one too many and never one too few.
* `DispatchProofs`. At most one process holds a task's right to mail, and the
  inbox is empty while somebody holds it or it is free (`ClaimInv`): from this
  `MailedAtMostOnce`, and each step maps to `Take`, `Post`, `GiveBack`, `Lose` or
  a stutter (`DispatchImplementsMailOnce`). `OneProcessHeedsClosing`: with one
  process, a task it holds is still pending (`StillPending`), so none is emailed once
  closed. `NotesAreOnUnsentTasks` needs the types only. `NothingIsSilentlyDropped` needs
  that a holder's task is marked, and `MarkersAreHonest` that only the death of a holder
  loses a claim (`Lost`). `WorldIsDispatch` shows `CalmDispatch` to be a `Dispatch`,
  so all of this holds in it, and `CalmMarkersAreHonest` that there nothing is ever lost.
* `GuestDeskProofs`. The invariant is that every stored row is the table's ruling
  on some request under a policy that loads (`Made`), that no two rows share an
  identity, that a row has its task just when it is no denial, and that what was
  answered is stored. From it `DecisionsHaveTheirTasks`, `AnswersAreTheStoredRow`
  and `DecisionsAreNeverRewritten`, and, reading the table case by case,
  `DecisionsFollowFromEvidence` and `FeesAreByTheHour`, for any hour length, any
  rate, any policy and any number of processes. `LaterIsHarder` compares two rows: in a
  policy that loads the bands end in the order they are read in, so a later time is in
  the same band or a later one, and hours are charged no fewer for a later time.
* `RunPipelineProofs`. `HeldOK` (what the server holds between two steps; a saved run
  is in the store) makes the four invariants inductive together. `FindingsByRow` says
  what recording does to one row, `OthersLeaveTasks` and `MovesByRow` what the other
  steps do, and each invariant is then an argument about one row.
* `GatherProofs`, the transport. The rate bound is not inductive: `CallsArePaid` says
  that the calls so far, plus those the banked ticks would pay for now, are within what
  real time since each earlier call has paid, and `EarnsInRealTime` that the bucket's own
  time never earns more than real time has passed, which is what setting the clock back
  could break. A question that went out is being asked, is learnt next, or is remembered
  (`NothingForgotten`), so what is asked was never asked before: the questions out, and the
  one paid for and still due, are within what was spent (`SpendingOK`), each with as many
  dials as attempts (`FlightOK`). From it `RunsAreBounded` and `RefusalsAreFinal`. Between
  the two writes of a recording the file holds what the index will say (`DirectoryOK`), which
  gives `IndexIsHonest` through any crashes. `SourcePaces` shows each step to be one of the
  bucket's, hence `RunsKeepTheRate`. `PlansAssumption` says that a plan has a length: it is
  made with recursive library operators, so TLC evaluates it and nothing proves it.
* `GatherProofs`, the bundles. Two invariants carry them. `AnswersInv`: an answer in hand
  or in the cache is the hotel's to that question, and what is remembered about a question
  tells whether its answer came. `RunOK`: a run has put every question before the one it
  is at, so a run that is done knows about all of them. The bundle is cut into its three
  parts, the follow-ups, the joins and the related records (`ThreeParts`, `Placed`), and
  each part is an argument about one place of the population: `BundlesAreTrue` (what is
  said is so) and `GapsAreHonest` (what is unknown is what came back empty-handed, and
  nothing besides). `RunsAssumption` says that an identity that can be read has a
  follow-up question, that a rule's references are to records the hotel holds and have
  questions, and that nothing several records say together is what nobody could read.
* `GatherProofs`, replay. A recording covers a question only if its own was at least as
  wide (`_uncovered`), and narrowing drops only what the question excludes or what cannot
  be read, so `ReplayIsEnough` is a statement about three bookings filters. The words of
  the demo vendor for filters, statuses and endpoints are one to one with the captured
  vendor's: covering, refusing and narrowing are decided alike (`DemoAnswersAlike`); and a
  field is resolved over the record, then each record around it, by the same rule at both
  vendors, kind by kind (`DemoReadsAlike`). `QuestionsAssumption` types the
  questions and bookings; `FieldsAssumption` types the texts and says that where `int()`
  reads a number `Decimal()` reads the same; `TenantsAssumption` that the two properties'
  own maps give a status or department and its translation one meaning.
* `RoundsProofs`. A date is a floor of the wall's reading, and the clock is moved by less
  than a day, so a unit of time moves the date by none or by one (`DayAfterDay`) and a
  midnight is after every instant of the day before, on either way of keeping instants
  (`MidnightIsAhead`, `MidnightIsPast`). The invariant says that a control on a timer that
  was asked has run or is not due (`RanWhenDue`), that nothing unseen is older than the last
  run (`UnseenIsNewer`), that what is published to a control is never unseen (`ToldIsSeen`),
  and which days have had their run (`DailySoFar`). From it `DailyOnEachDay`,
  `ChangesAreSeenInTime` (the depth of the fall-backs is an argument about the least block
  that can be used, not an enumeration) and `FreshRunsAreYoung`. `HotelsAssumption` is what
  these need of a time zone: its clock shifts by less than a day, its calendar never
  goes back, and its midnights are where its days begin. Only the few zones that once
  crossed the date line break it. `ControlsAssumption`: a duration is a
  number of instants or could not be read, and a control watches kinds of change.
* `EvaluatorProofs`. Every step makes the evidence better (`Better`: what is read stays
  read, a join that is answered stays answered, and a related record was there before or
  was one nobody could place). Each
  level then keeps its conclusions when evidence gets better: a clause, a list of
  clauses, a collection of related records (convicted, denied, or covered), a verdict of
  one record, and the modes that speak of a group of records (their overlap, or how many
  identities they have). `ConclusionsAlwaysStand` puts the levels together for any rule, any number
  of records and any evidence. `CasesAssumption` says that a population is finite, that a
  join denied has no records (`BundleOK`), and that a limit on a count is a number.
* `EvaluatorProofs`, the shipped rules. What a rule concludes is worked out level by level
  from its file and compared with its plain reading. Each operator first says something
  plain of two readings (`ExistsSays`, `EqualsSays`, `AtMostSays`, `BesideSays`,
  `ReferenceSays`), then each rule does (`MoneyOwedSays`, `CapacitySays`,
  `InactiveRoomSays`, `TypeValiditySays`): its verdict is the plain one, unknown only when
  something it needs is. Duplicates are counted (`TwoIds`: two identities that can be
  read are two bookings), occupancy compares the nights of two stays (`NightsMeet`: dates that
  overlap share a night), and for a closed room the days asked for, from the window and the day it was asked
  on (`DaysAsked`), are matched with the closure (`ClosureCovered`): the evaluator's
  arithmetic on four dates against a set of days. The invariant is `HotelInv`: the
  evidence stays evidence of the case, each field holds one of its readings or nothing,
  and `EvidenceOK`; one `...Keeps` lemma an action. With it `VerdictsAreAlwaysEarned` and
  `TheEstablishedIsDecided`, for any days, records, cases and collections.
  `ReadingsAssumption` types what can be read by the registry (`IsReading`: a date is a
  date, a count has the unit of a count, only a nullable field is absent, and money has a currency) and says that
  each rule finds the fields it names in the evidence and that a window was asked for no later than the run.
  `PlausibleAssumption` is the run's constraint on records: a stay has a night, and
  a closure does not end before it starts. `ConclusionsAlwaysStand` needs neither.
* `DeskProofs`, requests. `SignedFor` (who passes `verify`, and for what), `TurnsOfKey` and
  `KeptByKey` (a transcript under a key is that key's owner's, through looking up,
  trimming, storing and evicting) give `RequestsSeeTheirProperty`. For
  `TranscriptsAreOwn` the history `said` numbers the turns: what is kept under a key is
  the end, without a gap, of what that key said, and a key has one entry (`Kept`);
  trimming cuts at the front and eviction takes whole entries, so both keep it so.
* `DeskProofs`, the drafts. The invariant `Whole` says of a draft that its sentence was
  accepted, that its rule is the one the sentence makes (`MakesRule`) and that the checks of
  vocabulary, evidence and settings find nothing wrong with it. `Accept` establishes it,
  since a page is about a property there is (`SelectionIsAProperty`). No refusal of the
  whole means no refusal of any part (`FirstOfNothing`), which types every condition, join
  and claim. Then an operator tells its verb, whether it is said to hold and what it wants
  (`OperatorIsTheSaying`), so a predicate, a reference and an assertion each have one
  meaning (`OneRuleOneMeaning`), and every condition is in a clause that is checked
  (`AllFieldsAreRead`, `SettingsAreKnown`). `SentencesAssumption` says what the parser can
  read a sentence into (a phrase takes the operand it wants, a limit is not a list of
  conditions), `PropertiesAssumption` that there is a property, and that each has settings,
  and `NothingAssumption` that what is not said is no word. The quantifier is apart: see
  the run ComposeNegation.
* `DeskProofs`, the lock. The invariant is `LastWord`: of a control never dropped, the
  present lock still says what was ever locked under its present number, and all numbers
  passed are lower. From it `VersionsAreHonest`, for any controls, rules and order of edits.

Model-checked only:

* Liveness (`SessionsEnd`, `CalmDispatchEnds`, `CalmOwedIsEmailed`): fairness and ENABLED
  are out of the prover's reach.
* That a plan has a length (`PlansAssumption`, above).

## 6. Not modelled

* Parsing of vendor payloads (`providers/*/adapter.py`), of a guest template and form, of
  JSON schemas and tenant files: sequential and refused loudly; the models start from
  what can be read and what cannot.
* The model compiler (`compiler/model.py`): asks an external model for a whole rule and
  checks it with the same `validate`.
* Promotion of a recording into `fixtures/` (`tools/scrub_fixtures.py`): run by a person; the
  committed index a probe reads is the constant `Committed`.
* Rendering (`web/render.py`), the sentences that explain verdicts and plans, the log, the
  UI: layout.
* Migrations of old store files, and the encoding of payloads in it.
* What tokens a word of restricted English is made of.

## 7. Plan

1. The remote keys nobody could read (`gather.py:231`): `Gather`'s bundles as the
   initial states of `Evaluator`.
2. A store file opened by an older and a newer version of the schema.
3. Proofs: the invariants that the passing runs check all have a theorem. What is left is
   to bound what those rest on: the assumption on plans, and the readings of the other
   rules in `src/spec/ir`, each with its own plain terms.
