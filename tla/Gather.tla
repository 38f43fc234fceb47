------------------------------- MODULE Gather --------------------------------
(***************************************************************************)
(* What one run asks for, and what it makes of the answers: gather() with  *)
(* its cache, budget, references and follow-ups (evidence/), over a live   *)
(* source; and the probe (tools/probe.py), which sends the questions of a  *)
(* plan through the same cache and budget and records what comes back.     *)
(*                                                                         *)
(* Every question a run will ask is known once the population is (`needs`: *)
(* the population, each reference, each record's follow-ups, in the code's *)
(* order); what remains to happen is how each of them goes.  The bundles   *)
(* are then a function of what was answered.                               *)
(***************************************************************************)
EXTENDS ProbePlan, Adapters

CONSTANTS
  Absent,       \* a key the provider left empty: a fact, and no key
  Records,      \* the population's records, in order
  IdOf, KeyOf,  \* each record's identity, and the key it joins on
  Rules,        \* the controls that are run
  Today,        \* the day it is run on
  Remote,       \* each entity's remote records, in the order of the response
  RemoteKey,    \* each remote record's key
  Holds,        \* what each remote record says of the field asked of it
  Bookings,     \* what the server holds: dates and status of each booking
  Owed,         \* what the follow-up about each identity says
  Attempts, Budgets, MaxSessions,
  Orders        \* [controls, endpoint, additions, as_of]: probes somebody may order

VARIABLES
  job,        \* "control" or "probe"
  rule,       \* the control being run
  needs,      \* the questions of this session, in order
  at,         \* the next one
  limit,      \* CallBudget.limit
  spent,      \* CallBudget.spent
  cache,      \* _responses and _failures: [result, about] per key, or None
  outcome,    \* how the session ended, or "running"
  sessions    \* how many there were

ASSUME GatherAssumption ==
  /\ IsFiniteSet(Requests) /\ Committed \subseteq Requests
  /\ Attempts \in Nat \ {0}
  /\ Budgets \subseteq Nat
  /\ None \notin [result : RESULTS, about : Requests]

\* What somebody may approve is a list, of some length.
ASSUME PlansAssumption ==
  \A order \in Orders :
    /\ IsPrepared(order) => Len(Once(Printed(Prepare(order)))) \in Nat
    /\ \A q \in Requests :
         Len(Once(Printed(<<Stage("re-ask", <<Add(q, order.additions)>>)>>))) \in Nat

gatherVars == <<sourceVars, recordVars, job, rule, needs, at, limit, spent, cache,
                outcome, sessions>>
sessionVars == <<job, rule, needs, limit, sessions>>

\* The call each reference takes, and each record, in order; or None.
ReferenceCalls(ctl) ==
  [i \in DOMAIN References[ctl] |->
     IF Retrievable(References[ctl][i]) THEN ReferenceRequest(References[ctl][i], Today)
                                        ELSE None]
FollowUps ==
  [i \in DOMAIN Records |->
     IF IdOf[Records[i]] # Unread THEN Balance(IdOf[Records[i]]) ELSE None]

\* Every call the run would make if each of them went well.
Needs(ctl) ==
  <<BuildRequest(ctl, Today)>> \o ReferenceCalls(ctl)
    \o (IF FollowsUp[ctl] THEN FollowUps ELSE <<>>)

\* What a run may ask is among the questions; a reference is to records the hotel
\* holds, and what several of them say together is never what nobody could read.
ASSUME RunsAssumption ==
  /\ None \notin Requests
  /\ Records \in Seq(DOMAIN IdOf)
  /\ \A id \in Range(IdOf) : Balance(id) # None
  /\ \A entity \in DOMAIN Remote : Remote[entity] \in Seq(DOMAIN Holds)
  /\ \A readings \in SUBSET Range(Holds) : readings # Unread
  /\ \A control \in Rules :
       /\ References[control] \in Seq(Range(References[control]))
       /\ \A ref \in Range(References[control]) :
            /\ ref.entity \in DOMAIN Remote
            /\ ref.kind \in {"lookup", "set", "collection"}
            /\ ReferenceRequest(ref, Today) # None
       /\ Needs(control) \in Seq(Requests \union {None})

\* Request.key()
Key(q) == q

Cached(q) == cache[Key(q)] # None

------------------------------------------------------------------------------
Opening(plan, budget, source_attempts) ==
  /\ needs = plan
  /\ limit = budget
  /\ attempts = source_attempts
  /\ at = 1
  /\ spent = 0
  /\ cache = [q \in Requests |-> None]
  /\ outcome = "running"
  /\ sessions = 1

\* send(): never more than was printed, nor than the property allows.
ProbeLimit(plan, budget) == Least(Len(plan), budget)

Init ==
  /\ SourceInit
  /\ RecorderInit
  /\ \E budget \in Budgets :
       \/ /\ job = "control"
          /\ capture = None
          /\ rule \in Rules
          /\ Opening(Needs(rule), budget, Attempts)
       \/ /\ job = "probe"
          /\ rule = None
          /\ capture \in Captures
          /\ \E order \in Orders : \E plan \in Approved(order) :
               Opening(plan, ProbeLimit(plan, budget), 1)

Running == outcome = "running"
Idle == Running /\ fetching = None /\ got = None
InHand == Idle /\ at <= Len(needs) /\ needs[at] # None

\* A reference or a record that no call can be made for.
Skip ==
  /\ Idle
  /\ at <= Len(needs)
  /\ needs[at] = None
  /\ at' = at + 1
  /\ UNCHANGED <<sourceVars, recordVars, sessionVars, spent, cache, outcome>>

\* A remembered answer that does not bring the run to the next question.
Reuse_Stuck ==
  /\ InHand
  /\ Cached(needs[at])
  /\ UNCHANGED gatherVars

\* ResponseCache.get(): remembered, whether it is a response or a failure.
Reuse ==
  /\ InHand
  /\ Cached(needs[at])
  /\ at' = at + 1
  /\ UNCHANGED <<sourceVars, recordVars, sessionVars, spent, cache, outcome>>

\* The budget is spent before the call.
Ask ==
  /\ InHand
  /\ ~Cached(needs[at])
  /\ spent < limit
  /\ spent' = spent + 1
  /\ Fetch(needs[at])
  /\ UNCHANGED <<recordVars, sessionVars, at, cache, outcome>>

\* BudgetExceeded caught where a follow-up's failure is: one more gap.
Stop_Degrade ==
  /\ InHand
  /\ ~Cached(needs[at])
  /\ spent >= limit
  /\ at' = at + 1
  /\ UNCHANGED <<sourceVars, recordVars, sessionVars, spent, cache, outcome>>

\* BudgetExceeded: not an evidence gap, so nothing catches it but the run.
Stop ==
  /\ InHand
  /\ ~Cached(needs[at])
  /\ spent >= limit
  /\ outcome' = "stopped"
  /\ UNCHANGED <<sourceVars, recordVars, sessionVars, at, spent, cache>>

\* What ends the session: a defect always; a body that does not parse, where it
\* is parsed; a population nobody could fetch.
Ends(result) ==
  CASE result \in DEFECTS -> "died"
    [] result = "garbled" /\ job = "control" -> "died"
    [] result = GAP /\ job = "control" /\ at = 1 -> "blocked"
    [] OTHER -> "running"

\* get() with failures left out of what it remembers.
Learn_Forgetful ==
  /\ Running /\ got # None
  /\ got' = None
  /\ outcome' = Ends(got.result)
  /\ IF got.result = GAP
       THEN UNCHANGED cache
       ELSE cache' = [cache EXCEPT ![Key(got.request)] =
                        [result |-> got.result, about |-> got.request]]
  /\ at' = IF outcome' = "running" THEN at + 1 ELSE at
  /\ UNCHANGED <<bucketVars, attempts, fetching, dials, refused, answered, drifts>>
  /\ UNCHANGED <<recordVars, sessionVars, spent>>

\* The caller of get() looks: the run goes on over a gap, for the records that
\* needed it are UNKNOWN, and ends on anything else that was raised.
Learn ==
  /\ Running /\ got # None
  /\ got' = None
  /\ cache' = [cache EXCEPT ![Key(got.request)] =
                 [result |-> got.result, about |-> got.request]]
  /\ outcome' = Ends(got.result)
  /\ at' = IF outcome' = "running" THEN at + 1 ELSE at
  /\ UNCHANGED <<bucketVars, attempts, fetching, dials, refused, answered, drifts>>
  /\ UNCHANGED <<recordVars, sessionVars, spent>>

Finish ==
  /\ Idle
  /\ at > Len(needs)
  /\ outcome' = "done"
  /\ UNCHANGED <<sourceVars, recordVars, sessionVars, at, spent, cache>>

\* The source and the recorder at work within a session.
Calling ==
  /\ Running
  /\ \/ Pace /\ UNCHANGED recordVars
     \/ \E body \in BODIES : Answer(body, capture # None) /\ UNCHANGED recordVars
     \/ \E error \in Errors : Refuse(error) /\ UNCHANGED recordVars
     \/ \E error \in Errors : TryAgain(error) /\ UNCHANGED recordVars
     \/ \E error \in Errors : GiveUp(error) /\ UNCHANGED recordVars
     \/ RecordFile
     \/ RecordIndex
  /\ UNCHANGED <<sessionVars, at, spent, cache, outcome>>

Drift ==
  /\ Running /\ job = "control"
  /\ ClockSetBack
  /\ UNCHANGED <<recordVars, sessionVars, at, spent, cache, outcome>>

\* The probe's process ends; its directory stays.
Crash ==
  /\ Running /\ job = "probe"
  /\ outcome' = "crashed"
  /\ fetching' = None
  /\ got' = None
  /\ UNCHANGED <<bucketVars, attempts, dials, refused, answered, drifts>>
  /\ UNCHANGED <<recordVars, sessionVars, at, spent, cache>>

\* The next approved probe, into the same directory: that day's capture.
NextProbe(order, budget, day) ==
  /\ ~Running /\ job = "probe"
  /\ sessions < MaxSessions
  /\ \E plan \in Approved(order) :
       /\ needs' = plan
       /\ limit' = ProbeLimit(plan, budget)
  /\ capture' = day
  /\ at' = 1
  /\ spent' = 0
  /\ cache' = [q \in Requests |-> None]
  /\ outcome' = "running"
  /\ sessions' = sessions + 1
  /\ bucket' = [banked |-> Full, at |-> clock]
  /\ gone' = <<>>
  /\ dials' = [q \in Requests |-> 0]
  /\ refused' = {}
  /\ answered' = {}
  /\ UNCHANGED <<real, clock, attempts, fetching, got, drifts, job, rule>>
  /\ UNCHANGED <<files, index, captures, torn>>

Work == Skip \/ Reuse \/ Ask \/ Stop \/ Learn \/ Finish \/ Calling

Next ==
  \/ Work
  \/ Drift
  \/ Crash
  \/ \E order \in Orders, budget \in Budgets, day \in Captures :
       NextProbe(order, budget, day)

\* A session is one sequential program: it runs on unless its process ends.
Spec == Init /\ [][Next]_gatherVars /\ WF_gatherVars(Work)

------------------------------------------------------------------------------
(* The bundles, once a control's session is done.                          *)

Refs == [i \in DOMAIN References[rule] |->
           [entity  |-> References[rule][i].entity,
            kind    |-> References[rule][i].kind,
            costs   |-> Retrievable(References[rule][i]),
            request |-> ReferenceRequest(References[rule][i], Today)]]

Answered(q) == Cached(q) /\ cache[Key(q)].result = "well-formed"

\* ReferenceIndex of build_references(): what the remote records give to join on.
IsAvailable(ref) == ref.costs /\ Answered(ref.request)
KeyIsRead(remote) == RemoteKey[remote] \notin {Unread, Absent}
ByKey(ref, key) == {i \in DOMAIN Remote[ref.entity] :
                      /\ KeyIsRead(Remote[ref.entity][i])
                      /\ RemoteKey[Remote[ref.entity][i]] = key}
Unplaced(ref) == {remote \in {Remote[ref.entity][i] : i \in DOMAIN Remote[ref.entity]} :
                    RemoteKey[remote] = Unread}

\* match() with an absence taken for a key, as every missing field reads alike.
Matched_Absence(ref, r) ==
  IF ~IsAvailable(ref) \/ KeyOf[r] = Unread THEN {}
  ELSE IF KeyOf[r] = Absent
       THEN {i \in DOMAIN Remote[ref.entity] : RemoteKey[Remote[ref.entity][i]] = Absent}
       ELSE ByKey(ref, KeyOf[r])

\* match(): where in the response the records of this key are.  An absence is no key.
Matched(ref, r) ==
  IF ~IsAvailable(ref) \/ KeyOf[r] \in {Unread, Absent} THEN {}
  ELSE ByKey(ref, KeyOf[r])

First(places) == CHOOSE i \in places : \A j \in places : i <= j

\* _through_reference()
Through(ref, r) ==
  IF ~IsAvailable(ref) THEN Unread
  ELSE CASE ref.kind = "set" -> {Holds[Remote[ref.entity][i]] : i \in DOMAIN Remote[ref.entity]}
                                  \ {Unread}
         [] ref.kind = "collection" -> Unread
         [] OTHER -> IF Matched(ref, r) = {} THEN Unread
                     ELSE Holds[Remote[ref.entity][First(Matched(ref, r))]]

\* _joins()
Join(ref, r) ==
  IF ref.kind = "set" THEN IF IsAvailable(ref) THEN "yes" ELSE "no"
  ELSE IF ~IsAvailable(ref) \/ KeyOf[r] \in {Unread, Absent} THEN "unknown"
  ELSE IF Matched(ref, r) # {} THEN "yes" ELSE "no"

\* _follow_up()
FollowUp(r) ==
  IF ~FollowsUp[rule] \/ IdOf[r] = Unread THEN Unread
  ELSE LET entry == cache[Key(Balance(IdOf[r]))]
       IN  IF entry # None /\ entry.result = "well-formed"
           THEN Owed[entry.about.filters.ReservationNumber] ELSE Unread

\* One bundle per record: its identity, each reference's field, join, related and
\* unplaced records, and the field that takes a call of its own.
Bundle(r) ==
  [record_id |-> IdOf[r],
   through   |-> [i \in DOMAIN Refs |-> Through(Refs[i], r)],
   joins     |-> [i \in DOMAIN Refs |-> Join(Refs[i], r)],
   related   |-> [i \in DOMAIN Refs |->
                    IF Refs[i].kind = "collection"
                    THEN {Remote[Refs[i].entity][k] : k \in Matched(Refs[i], r)} ELSE {}],
   unplaced  |-> [i \in DOMAIN Refs |->
                    IF Refs[i].kind = "collection" /\ IsAvailable(Refs[i])
                    THEN Unplaced(Refs[i]) ELSE {}],
   owed      |-> FollowUp(r)]

HasBundles == job = "control" /\ outcome = "done"
Judged == {Records[i] : i \in DOMAIN Records}

\* What a bundle says is what the hotel says of that very record: a cached
\* response of another record, a reference nobody could fetch and a key that is
\* missing never turn into a value, a match or a definite non-match.
NothingIsInvented ==
  HasBundles => \A r \in Judged :
    /\ Bundle(r).owed # Unread => Bundle(r).owed = Owed[IdOf[r]]
    /\ \A i \in DOMAIN Refs :
         LET ref  == Refs[i]
             mine == {m \in {Remote[ref.entity][k] : k \in DOMAIN Remote[ref.entity]} :
                        RemoteKey[m] = KeyOf[r] /\ KeyOf[r] \notin {Unread, Absent}}
         IN  /\ ref.kind = "lookup" /\ Bundle(r).through[i] # Unread =>
                  \E m \in mine : Bundle(r).through[i] = Holds[m]
             /\ Bundle(r).related[i] \subseteq mine
             /\ ref.kind # "set" /\ Bundle(r).joins[i] # "unknown" =>
                  (Bundle(r).joins[i] = "yes" <=> mine # {})

\* Put, and no well-formed body came back; or the wire format has no form for it.
CameBackEmpty(q) == q \notin answered /\ (dials[q] > 0 \/ q \notin Encodable)

\* "A failure here degrades ONE bundle", and a run that ran out of calls has no
\* bundles (R1): a field is unknown exactly when the question that carries it was
\* put and came back empty, or what it needs of this record or of the hotel
\* cannot be read; whatever went wrong for the others, and never unasked.
GapsHaveTheirCause ==
  HasBundles => \A r \in Judged :
    /\ FollowsUp[rule] => (Bundle(r).owed = Unread <=>
         \/ IdOf[r] = Unread
         \/ CameBackEmpty(Balance(IdOf[r]))
         \/ Owed[IdOf[r]] = Unread)
    /\ \A i \in DOMAIN Refs :
         /\ ~Refs[i].costs \/ Refs[i].request \notin answered =>
              /\ Bundle(r).through[i] = Unread /\ Bundle(r).joins[i] # "yes"
              /\ Refs[i].costs => CameBackEmpty(Refs[i].request)
         /\ Refs[i].costs /\ Refs[i].request \in answered =>
              /\ Refs[i].kind = "set" => Bundle(r).through[i] # Unread
              /\ Bundle(r).joins[i] = "unknown" <=>
                   Refs[i].kind # "set" /\ KeyOf[r] \in {Unread, Absent}

\* A run costs its budget times the attempts of a call, and a question is put in
\* one fetch however many records and fields want it and however it went.
CallsAreBounded ==
  /\ \A q \in Requests : dials[q] <= attempts
  /\ Cardinality({q \in Requests : dials[q] > 0}) <= spent
  /\ spent <= limit

\* The questions runs ask of a population, on the days somebody works on.
Populations == {BuildRequest(control, order.as_of) : control \in Controls, order \in Orders}

\* A question in the hotel's words, with its dates resolved.
IsQuestion(q) ==
  /\ q.endpoint \in DOMAIN ENDPOINTS
  /\ q.filters = [name \in DOMAIN q.filters |-> q.filters[name]]
  /\ DOMAIN q.filters \subseteq DOMAIN FILTERS
  /\ \A name \in DOMAIN q.filters \intersect MiniHotel.windows :
       q.filters[name] \in [from : Int \union {Open}, to : Int \union {Open}]
  /\ \A name \in DOMAIN q.filters \intersect {MiniHotel.status} :
       q.filters[name] \in DOMAIN STATUS

\* The transcoder has words for what is asked, and for what the server holds.
ASSUME QuestionsAssumption ==
  /\ \A q \in Requests \union Populations : IsQuestion(q)
  /\ Bookings \subseteq [arrival : Int \union {Unread}, departure : Int \union {Unread},
                         created : Int \union {Unread}, status : DOMAIN STATUS]
  /\ \A body \in SUBSET Bookings : body # None

Recorded == {entry.file[1] : entry \in {entry \in index : entry.file[2] = "well-formed"}}

\* Both name a status, and not the same one.
AnotherStatus(v, recorded, asked) ==
  /\ v.status \in DOMAIN recorded.filters \intersect DOMAIN asked.filters
  /\ recorded.filters[v.status] # asked.filters[v.status]

\* A replay may give more than the server would, never less, for a booking missing
\* from a population would read as one with no violation.  "A status filter narrows
\* WITHIN the recorded window" holds of a window that no other status narrowed.
ReplayMissesNothing ==
  \A recorded \in Recorded, asked \in Populations :
    LET replay == FrozenSource(recorded, Served(Bookings, recorded), asked, None)
    IN  replay # None /\ ~AnotherStatus(MiniHotel, recorded, asked) =>
          Served(Bookings, asked) \subseteq replay

\* "A window one provider refuses is refused by the other": the demo hotel answers
\* what the captured one does, with the same records and the same refusals, and
\* each field of a record then resolves alike.
DemoIsTheSameHotel ==
  /\ FieldsAreTheSame
  /\ \A recorded \in Recorded, asked \in Populations :
       LET body  == Served(Bookings, recorded)
           first == FrozenSource(recorded, body, asked, None)
           demo  == DemoSource(Translated(recorded), Transcoded(body), Translated(asked), None)
       IN  demo = IF first = None THEN None ELSE Transcoded(first)

\* Every session ends, whatever the server answers and the clock does.
SessionsEnd == Running ~> ~Running
==============================================================================
