------------------------------ MODULE Evaluator ------------------------------
(***************************************************************************)
(* The verdicts of a rule (hotelcontrols/evaluator/record.py, population.py *)
(* and collections.py): on one record, on the records of a group, and on   *)
(* the related records of a collection.                                    *)
(*                                                                         *)
(* The evaluator is pure.  What moves here is the evidence: each step      *)
(* establishes one thing that was unknown, as a better capture of the same *)
(* hotel would, and a verdict once concluded must not be overturned by it. *)
(***************************************************************************)
EXTENDS Predicates, Sequences, SequencesExt

CONSTANTS
  Cases,        \* the rules and the evidence each may meet at first
  Readings,     \* field -> the values a reading of it can establish
  Answers,      \* the sets of related records a collection can answer with
  Plausible(_)  \* what the fields of one record of a hotel can say together

\* One record's evidence: a match, once denied, has no records.
BundleOK(b) ==
  /\ DOMAIN b = {"fields", "joins", "related", "unplaced", "window"}
  /\ DOMAIN b.unplaced = DOMAIN b.related /\ DOMAIN b.window = DOMAIN b.related
  /\ \A e \in DOMAIN b.joins : b.joins[e] \in {HOLDS, FAILS, UNSURE}
  /\ \A e \in DOMAIN b.related : Joined(b, e) = FAILS => b.related[e] = {}

\* A population is finite, and a count has a limit.
ASSUME CasesAssumption ==
  \A c \in Cases :
    /\ IsFiniteSet(DOMAIN c.bundles)
    /\ \A i \in DOMAIN c.bundles : BundleOK(c.bundles[i])
    /\ c.rule.mode = "aggregate" /\ c.rule.predicates[1].operator = "count_lte" =>
         c.rule.predicates[1].value \in Int

PASS     == "pass"
FAIL     == "fail"
EXCLUDED == "excluded"
UNKNOWN  == "unknown"

VARIABLES
  rule,      \* the rule: scope, exceptions, assertion (mode, predicates, ...)
  bundles    \* the evidence: one bundle per record of the population

vars == <<rule, bundles>>

Bundle(fields, joins) ==
  [fields |-> fields, joins |-> joins, related |-> [e \in {} |-> {}],
   unplaced |-> [e \in {} |-> {}], window |-> [e \in {} |-> {}]]

Results(clauses, bundle) == {Evaluate(clauses[i], bundle) : i \in DOMAIN clauses}

------------------------------------------------------------------------------
(* Collections, judged record by record under mode `none`.                  *)

\* This record with one related record's fields in place of the collection's.
View(bundle, e, related) ==
  [bundle EXCEPT
     !.fields = [f \in DOMAIN bundle.fields \union DOMAIN related |->
                   IF f \in DOMAIN related THEN related[f] ELSE bundle.fields[f]],
     !.related = [other \in DOMAIN bundle.related \ {e} |-> bundle.related[other]]]

\* An unplaced record may be this one's: it never convicts, and it clears only
\* by failing every predicate.  A collection that could not be fetched, or whose
\* key is unreadable, is a gap whatever `related` holds.
OfUnplaced(r) == IF r = FAILS THEN FAILS ELSE UNSURE

OfEachRecord(p, e, bundle) ==
  IF Joined(bundle, e) = UNSURE THEN {UNSURE}
  ELSE {Evaluate(p, View(bundle, e, r)) : r \in bundle.related[e]}
         \union {OfUnplaced(Evaluate(p, View(bundle, e, r))) : r \in bundle.unplaced[e]}

\* Which records of two collections pair with which, no rule says.
OfPredicate(p, bundle) ==
  LET read == Entities(p) \cap DOMAIN bundle.related IN
  IF read = {} THEN {Evaluate(p, bundle)}
  ELSE IF \E e \in read : read # {e} THEN {UNSURE}
  ELSE UNION {OfEachRecord(p, e, bundle) : e \in read}

\* The dates of this record the predicate places the collection's against: a pair
\* with Absent for an open end, or {} when no fetched window can answer for it.
Span(p, entity, bundle) ==
  LET inside(f) == EntityOf(f) = entity
      Dated(f)  == Field(bundle, f) = Absent \/ Field(bundle, f).unit = DATE
  IN  IF p.operator # "within" THEN {}
      ELSE IF inside(p.field) /\ ~inside(p.start) /\ ~inside(p.end)
      THEN IF Dated(p.start) /\ Dated(p.end)
           THEN {<<Field(bundle, p.start), Field(bundle, p.end)>>} ELSE {}
      ELSE IF ~inside(p.field) /\ inside(p.start) /\ inside(p.end)
      THEN IF Field(bundle, p.field).unit = DATE
           THEN {<<Field(bundle, p.field), Field(bundle, p.field)>>} ELSE {}
      ELSE {}

\* A collection was fetched for every date the question asks about, from the day
\* it was asked on.
Covered(predicates, entity, bundle) ==
  LET reading == {i \in DOMAIN predicates : entity \in Entities(predicates[i])}
      spans   == UNION {Span(predicates[i], entity, bundle) : i \in reading}
      starts  == {s[1] : s \in spans}
      ends    == {s[2] : s \in spans}
      Low(w)  == IF Absent \in starts THEN w.asked_on
                 ELSE Max({w.asked_on, Min({s.payload : s \in starts})})
      last    == Max({s.payload : s \in ends})
  IN  /\ bundle.window[entity] # {}
      /\ \A i \in reading : Span(predicates[i], entity, bundle) # {}
      /\ Absent \notin ends
      /\ \A w \in bundle.window[entity] :
           last >= Low(w) /\ Low(w) >= w.start /\ last <= w.end

JudgeCollection(predicates, bundle) ==
  LET results  == UNION {OfPredicate(predicates[i], bundle) : i \in DOMAIN predicates}
      entities == DOMAIN bundle.related
                    \cap UNION {Entities(predicates[i]) : i \in DOMAIN predicates}
  IN  IF HOLDS \in results THEN FAIL
      ELSE IF UNSURE \in results \/ \E e \in entities : ~Covered(predicates, e, bundle)
      THEN UNKNOWN
      ELSE PASS

------------------------------------------------------------------------------
(* One record: scope, then exceptions, then the assertion, in Kleene logic. *)

Combine(mode, results) ==
  CASE mode = "all"  -> IF FAILS \in results THEN FAIL
                        ELSE IF UNSURE \in results THEN UNKNOWN ELSE PASS
    [] mode = "any"  -> IF HOLDS \in results THEN PASS
                        ELSE IF UNSURE \in results THEN UNKNOWN ELSE FAIL
    [] mode = "none" -> IF HOLDS \in results THEN FAIL
                        ELSE IF UNSURE \in results THEN UNKNOWN ELSE PASS
    [] OTHER         -> UNKNOWN

\* What scope and exceptions say of a record by themselves, or PASS when they let
\* it through to the assertion.
Admitted(r, bundle) ==
  LET scope      == Results(r.scope, bundle)
      exceptions == Results(r.exceptions, bundle)
  IN  IF FAILS \in scope THEN EXCLUDED
      ELSE IF UNSURE \in scope THEN UNKNOWN
      ELSE IF HOLDS \in exceptions THEN EXCLUDED
      ELSE IF UNSURE \in exceptions THEN UNKNOWN
      ELSE PASS

OfRecord(r, bundle) ==
  LET admitted == Admitted(r, bundle) IN
  IF admitted # PASS THEN admitted
  ELSE IF r.mode = "none" /\ \E i \in DOMAIN r.predicates : ReadsCollection(r.predicates[i], bundle)
  THEN JudgeCollection(r.predicates, bundle)
  ELSE Combine(r.mode, Results(r.predicates, bundle))

------------------------------------------------------------------------------
(* A group of records: mode `aggregate`.                                    *)

Throughout(clauses, bundle, answer) ==
  \A i \in DOMAIN clauses : Evaluate(clauses[i], bundle) = answer

\* The first clause that does not answer as an ordinary record's, answers this.
StopsAt(clauses, bundle, ordinary, answer) ==
  \E i \in DOMAIN clauses :
    /\ Evaluate(clauses[i], bundle) = answer
    /\ \A j \in DOMAIN clauses : j < i => Evaluate(clauses[j], bundle) = ordinary

\* Scope and exceptions, clause by clause: PASS when the record reaches its group,
\* UNKNOWN when an unsure clause comes first.
Settled(r, bundle) ==
  LET inScope == Throughout(r.scope, bundle, HOLDS) IN
  CASE inScope /\ Throughout(r.exceptions, bundle, FAILS)    -> PASS
    [] StopsAt(r.scope, bundle, HOLDS, FAILS)                -> EXCLUDED
    [] inScope /\ StopsAt(r.exceptions, bundle, FAILS, HOLDS) -> EXCLUDED
    [] OTHER -> UNKNOWN

KeyOf(r, bundle) == Field(bundle, r.group_by)

\* The records that are counted: settled neither way, with a key to group by.
InPlay(r, bs) == {i \in DOMAIN bs : Settled(r, bs[i]) = PASS /\ KeyOf(r, bs[i]) # Unknown}

Group(r, bs, i) == {j \in InPlay(r, bs) : KeyOf(r, bs[j]) = KeyOf(r, bs[i])}

\* The keys of the records nobody can say belong.
UncertainKeys(r, bs) ==
  {KeyOf(r, bs[i]) : i \in {j \in DOMAIN bs : Settled(r, bs[j]) = UNKNOWN}} \ {Unknown}

IdOf(r, bundle) == Field(bundle, r.predicates[1].field)

\* Unreadable ids dropped from the count, as the code once did.
CountLte_Readable(r, bs, group, i) ==
  LET ids == {IdOf(r, bs[j]) : j \in group} \ {Unknown}
  IN  IF IdOf(r, bs[i]) = Unknown THEN UNKNOWN
      ELSE IF Cardinality(ids) > r.predicates[1].value THEN FAIL ELSE PASS

\* Distinct ids, not records: an unreadable one is between none and one more.
CountLte(r, bs, group, i) ==
  LET limit   == r.predicates[1].value
      ids     == {IdOf(r, bs[j]) : j \in group} \ {Unknown}
      unread  == {j \in group : IdOf(r, bs[j]) = Unknown}
  IN  IF i \in unread THEN UNKNOWN
      ELSE IF Cardinality(ids) > limit THEN FAIL
      ELSE IF Cardinality(ids) + Cardinality(unread) <= limit THEN PASS ELSE UNKNOWN

\* No two distinct records of a group hold overlapping intervals; a record with an
\* unreadable part is neither accused nor cleared, and clears nobody beside it.
NoOverlap(r, bs, group, i) ==
  LET p == r.predicates[1]
      Start(j) == Field(bs[j], p.start)
      End(j)   == Field(bs[j], p.end)
      unread   == {j \in group : Unknown \in {Start(j), End(j), IdOf(r, bs[j])}}
      Clash(j) == /\ IdOf(r, bs[j]) # IdOf(r, bs[i])
                  /\ Overlaps(Start(i).payload, End(i).payload, Start(j).payload, End(j).payload)
  IN  IF i \in unread THEN UNKNOWN
      ELSE IF \E j \in group \ unread : Clash(j) THEN FAIL
      ELSE IF unread # {} THEN UNKNOWN ELSE PASS

\* The verdict of one record among all of them: a PASS is withheld while a record
\* nobody could read holds the same key.
OfGrouped(r, bs, i) ==
  LET settled == Settled(r, bs[i])
      group   == Group(r, bs, i)
      judged  == CASE r.predicates[1].operator = "count_lte"  -> CountLte(r, bs, group, i)
                   [] r.predicates[1].operator = "no_overlap" -> NoOverlap(r, bs, group, i)
                   [] OTHER -> UNKNOWN
  IN  IF settled # PASS THEN settled
      ELSE IF KeyOf(r, bs[i]) = Unknown THEN UNKNOWN
      ELSE IF judged = PASS /\ KeyOf(r, bs[i]) \in UncertainKeys(r, bs) THEN UNKNOWN
      ELSE judged

\* Every record's verdict: the one entry point of a run.
Verdicts(r, bs) ==
  [i \in DOMAIN bs |-> IF r.mode = "aggregate" THEN OfGrouped(r, bs, i) ELSE OfRecord(r, bs[i])]

------------------------------------------------------------------------------
(* Better evidence.                                                         *)

Init == \E c \in Cases : rule = c.rule /\ bundles = c.bundles

IsCollection(i, e) == e \in DOMAIN bundles[i].related

\* A field is read, through the match of its entity where it lives on one.  A
\* collection never has one value for the record itself.
Learn(i, f) ==
  /\ bundles[i].fields[f] = Unknown
  /\ ~IsCollection(i, EntityOf(f))
  /\ EntityOf(f) \in DOMAIN bundles[i].joins => bundles[i].joins[EntityOf(f)] = HOLDS
  /\ \E v \in Readings[f] : bundles' = [bundles EXCEPT ![i].fields[f] = v]
  /\ Plausible(bundles'[i].fields)
  /\ UNCHANGED rule

\* A lookup is answered: the key matches a record, or definitely none.
Match(i, e) ==
  /\ bundles[i].joins[e] = UNSURE
  /\ ~IsCollection(i, e)
  /\ \E answer \in {HOLDS, FAILS} : bundles' = [bundles EXCEPT ![i].joins[e] = answer]
  /\ UNCHANGED rule

\* A collection is answered: the records whose key is this one's.
Fetch(i, e) ==
  /\ bundles[i].joins[e] = UNSURE
  /\ IsCollection(i, e)
  /\ \E found \in Answers :
       bundles' = [bundles EXCEPT ![i].related[e] = found, ![i].joins[e] = Ruling(found # {})]
  /\ UNCHANGED rule

Reread(record) ==
  {r \in UNION {{[record EXCEPT ![f] = v] : v \in Readings[f]} :
                  f \in {g \in DOMAIN record : record[g] = Unknown}} : Plausible(r)}

\* A field of a related record, or of one that may be, is read.
LearnRelated(i, e) ==
  /\ IsCollection(i, e)
  /\ \E r \in bundles[i].related[e] : \E better \in Reread(r) :
       bundles' = [bundles EXCEPT ![i].related[e] = (@ \ {r}) \union {better}]
  /\ UNCHANGED rule

LearnUnplaced(i, e) ==
  /\ IsCollection(i, e)
  /\ \E r \in bundles[i].unplaced[e] : \E better \in Reread(r) :
       bundles' = [bundles EXCEPT ![i].unplaced[e] = (@ \ {r}) \union {better}]
  /\ UNCHANGED rule

\* An unplaced record's key is read: it is this record's, or another's.  It is
\* seen here only once the record's own key is established.
Place(i, e) ==
  /\ IsCollection(i, e) /\ bundles[i].joins[e] # UNSURE
  /\ \E r \in bundles[i].unplaced[e] :
       \/ bundles' = [bundles EXCEPT ![i].unplaced[e] = @ \ {r}]
       \/ bundles' = [bundles EXCEPT ![i].unplaced[e] = @ \ {r},
                                    ![i].related[e] = @ \union {r}, ![i].joins[e] = HOLDS]
  /\ UNCHANGED rule

Established ==
  \A i \in DOMAIN bundles :
    /\ \A f \in DOMAIN bundles[i].fields :
         IsCollection(i, EntityOf(f)) \/ bundles[i].fields[f] # Unknown
    /\ \A e \in DOMAIN bundles[i].joins : bundles[i].joins[e] # UNSURE
    /\ \A e \in DOMAIN bundles[i].related :
         /\ bundles[i].unplaced[e] = {}
         /\ \A r \in bundles[i].related[e] : \A f \in DOMAIN r : r[f] # Unknown

Next ==
  \E i \in DOMAIN bundles :
    \/ \E f \in DOMAIN bundles[i].fields : Learn(i, f)
    \/ \E e \in DOMAIN bundles[i].joins :
         Match(i, e) \/ Fetch(i, e) \/ LearnRelated(i, e) \/ LearnUnplaced(i, e) \/ Place(i, e)

Spec == Init /\ [][Next]_vars

------------------------------------------------------------------------------
Verdict == Verdicts(rule, bundles)
Conclusive == {PASS, FAIL, EXCLUDED}

\* A group's key becoming known brings a record into a group that was judged
\* without it.
KeyEstablished ==
  /\ rule.mode = "aggregate"
  /\ \E j \in DOMAIN bundles :
       KeyOf(rule, bundles[j]) = Unknown /\ KeyOf(rule, bundles'[j]) # Unknown

\* A verdict once concluded is the verdict on any better evidence of the same hotel:
\* what could not be read was weighed whichever way it might turn out.  (The code
\* makes one exception, on purpose: a record nobody can place in a group makes no
\* group uncertain, tests/unit/test_evaluator_population.py.)
ConclusionsStand ==
  [][KeyEstablished \/
     LET before == Verdict
         after  == Verdict'
     IN  \A i \in DOMAIN bundles : before[i] \in Conclusive => after[i] = before[i]]_vars
==============================================================================
