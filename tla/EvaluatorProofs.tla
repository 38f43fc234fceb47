--------------------------- MODULE EvaluatorProofs ---------------------------
(***************************************************************************)
(* Theorems about Evaluator, for any rules and any evidence: a verdict     *)
(* once concluded stands on any better evidence of the same hotel.  And    *)
(* about ShippedRules, for any hotel: each rule accuses, clears and leaves *)
(* out the records its own terms say it should.                            *)
(*                                                                         *)
(* The first argument has two halves.  Every step makes the evidence       *)
(* better, in the sense of Better below; and each level of the evaluator,  *)
(* a clause, a predicate over a collection, a record, a group, keeps what  *)
(* it had concluded when its evidence gets better.  It needs nothing of    *)
(* the hotel but CasesAssumption.                                          *)
(*                                                                         *)
(* The second takes the rules one by one: what each clause answers on a    *)
(* reading of its field, what the clauses let through, what the predicates *)
(* convict; and shows that the evidence stays that of a hotel.             *)
(***************************************************************************)
EXTENDS ShippedRules, FiniteSetTheorems, TLAPS

REFERENCES == {"reference_exists", "reference_missing"}

\* What was read stays read, of a record and of the match of one entity.
Stands(r, s) ==
  /\ DOMAIN s = DOMAIN r
  /\ \A f \in DOMAIN r : r[f] # Unknown => s[f] = r[f]

\* A collection that was answered: each of its records is still there, read
\* better, and every record there is was there, or may have been.
CollectionStands(b, c, e) ==
  /\ \A r \in b.related[e] : \E s \in c.related[e] : Stands(r, s)
  /\ \A s \in c.related[e] : \E r \in b.related[e] \union b.unplaced[e] : Stands(r, s)
  /\ \A s \in c.unplaced[e] : \E r \in b.unplaced[e] : Stands(r, s)

Better(b, c) ==
  /\ Stands(b.fields, c.fields)
  /\ DOMAIN c.related = DOMAIN b.related
  /\ c.window = b.window
  /\ \A e : Joined(b, e) = HOLDS => Joined(c, e) = HOLDS
  /\ \A e : Joined(b, e) = FAILS => Joined(c, e) # UNSURE
  /\ \A e : e \notin DOMAIN b.related /\ Joined(b, e) = FAILS => Joined(c, e) = FAILS
  /\ \A e \in DOMAIN b.related : Joined(b, e) # UNSURE => CollectionStands(b, c, e)

------------------------------------------------------------------------------
(* One clause.                                                              *)

\* A field that was read keeps its reading.
LEMMA FieldStands ==
  ASSUME NEW b, NEW c, Stands(b.fields, c.fields), NEW f, Field(b, f) # Unknown
  PROVE  Field(c, f) = Field(b, f)
BY DEF Stands, Field

LEMMA OppositeIsSure ==
  ASSUME NEW r, Opposite(r) # UNSURE
  PROVE  r # UNSURE
BY DEF Opposite

\* An operator that answers has read what its answer depends on.
LEMMA ExistsRead ==
  ASSUME NEW v, Exists(v) # UNSURE
  PROVE  v # Unknown
BY DEF Exists

LEMMA EqualsRead ==
  ASSUME NEW v, NEW w, Equals(v, w) # UNSURE
  PROVE  v # Unknown /\ w # Unknown
BY DEF Equals

LEMMA AmongRead ==
  ASSUME NEW v, NEW w, Among(v, w) # UNSURE
  PROVE  v # Unknown /\ w # Unknown
BY DEF Among

LEMMA WithinRead ==
  ASSUME NEW v, NEW start, NEW end, Within(v, start, end) # UNSURE
  PROVE  v # Unknown /\ start # Unknown /\ end # Unknown
BY DEF Within

\* An absence is answered by the rule, whatever is on the other side.
LEMMA OrderedRead ==
  ASSUME NEW operator, NEW v, NEW w, NEW absent, Ordered(operator, v, w, absent) # UNSURE
  PROVE  v # Unknown /\ (v # Absent => w # Unknown)
BY DEF Ordered, Absent, Unknown

LEMMA OrderedOfAbsent ==
  ASSUME NEW operator, NEW w, NEW x, NEW absent
  PROVE  Ordered(operator, Absent, w, absent) = Ordered(operator, Absent, x, absent)
BY DEF Ordered

\* What a clause compares its field with.
RightOf(p, bundle) == IF "compare_to" \in DOMAIN p THEN Field(bundle, p.compare_to) ELSE p.value

\* A clause whose evidence is there answers as its operator does.
LEMMA EvaluateByOperator ==
  ASSUME NEW p, NEW b,
         ~ReadsCollection(p, b), Operands(p) \subseteq DOMAIN b.fields, ~Unsupplied(p)
  PROVE  LET left   == Field(b, p.field)
             joined == Joined(b, EntityOf(p.field))
             inside == Within(left, Field(b, p.start), Field(b, p.end))
             answer == Evaluate(p, b)
         IN  /\ p.operator = "exists" => answer = Exists(left)
             /\ p.operator = "not_exists" => answer = Opposite(Exists(left))
             /\ p.operator \in {"equals", "matches_ignore_case"} =>
                  answer = Equals(left, RightOf(p, b))
             /\ p.operator = "not_equals" => answer = Opposite(Equals(left, RightOf(p, b)))
             /\ p.operator = "in" => answer = Among(left, RightOf(p, b))
             /\ p.operator = "not_in" => answer = Opposite(Among(left, RightOf(p, b)))
             /\ p.operator \in ORDERINGS =>
                  answer = Ordered(p.operator, left, RightOf(p, b), p.absent)
             /\ p.operator = "reference_exists" => answer = joined
             /\ p.operator = "reference_missing" => answer = Opposite(joined)
             /\ p.operator = "within" => answer = inside
             /\ p.operator = "not_within" => answer = Opposite(inside)
             /\ p.operator \notin {"exists", "not_exists", "equals", "not_equals",
                                   "matches_ignore_case", "in", "not_in", "within",
                                   "not_within"} \union ORDERINGS \union REFERENCES =>
                  answer = UNSURE
BY DEF Evaluate, RightOf, ORDERINGS, REFERENCES

\* What a clause answers on some evidence it answers on any better evidence.
LEMMA EvaluateStands ==
  ASSUME NEW p, NEW b, NEW c,
         Stands(b.fields, c.fields),
         DOMAIN c.related = DOMAIN b.related,
         Joined(b, EntityOf(p.field)) \in {HOLDS, FAILS, UNSURE},
         p.operator \in REFERENCES /\ ~ReadsCollection(p, b)
           /\ Joined(b, EntityOf(p.field)) # UNSURE =>
             Joined(c, EntityOf(p.field)) = Joined(b, EntityOf(p.field)),
         Evaluate(p, b) # UNSURE
  PROVE  Evaluate(p, c) = Evaluate(p, b)
<1>1. /\ ~ReadsCollection(p, b) /\ Operands(p) \subseteq DOMAIN b.fields
      /\ ~Unsupplied(p)
  BY DEF Evaluate
<1>2. /\ ~ReadsCollection(p, c) /\ Operands(p) \subseteq DOMAIN c.fields
  BY <1>1 DEF ReadsCollection, Stands
<1>3. \A f : Field(b, f) # Unknown => Field(c, f) = Field(b, f)
  BY FieldStands
<1>4. RightOf(p, b) # Unknown => RightOf(p, c) = RightOf(p, b)
  BY <1>3 DEF RightOf
<1>6. CASE p.operator \in {"exists", "not_exists"}
  <2>1. Exists(Field(b, p.field)) # UNSURE
    BY <1>1, <1>6, EvaluateByOperator, OppositeIsSure
  <2>2. Field(c, p.field) = Field(b, p.field)
    BY <1>3, <2>1, ExistsRead
  <2>. QED BY <1>1, <1>2, <1>6, <2>2, EvaluateByOperator
<1>7. CASE p.operator \in {"equals", "not_equals", "matches_ignore_case"}
  <2>1. Equals(Field(b, p.field), RightOf(p, b)) # UNSURE
    BY <1>1, <1>7, EvaluateByOperator, OppositeIsSure
  <2>2. Field(c, p.field) = Field(b, p.field) /\ RightOf(p, c) = RightOf(p, b)
    BY <1>3, <1>4, <2>1, EqualsRead
  <2>. QED BY <1>1, <1>2, <1>7, <2>2, EvaluateByOperator
<1>8. CASE p.operator \in {"in", "not_in"}
  <2>1. Among(Field(b, p.field), RightOf(p, b)) # UNSURE
    BY <1>1, <1>8, EvaluateByOperator, OppositeIsSure
  <2>2. Field(c, p.field) = Field(b, p.field) /\ RightOf(p, c) = RightOf(p, b)
    BY <1>3, <1>4, <2>1, AmongRead
  <2>. QED BY <1>1, <1>2, <1>8, <2>2, EvaluateByOperator
<1>9. CASE p.operator \in ORDERINGS
  <2>1. \A e \in {b, c} : Evaluate(p, e) =
          Ordered(p.operator, Field(e, p.field), RightOf(p, e), p.absent)
    BY <1>1, <1>2, <1>9, EvaluateByOperator
  <2>2. /\ Field(c, p.field) = Field(b, p.field)
        /\ Field(b, p.field) # Absent => RightOf(p, c) = RightOf(p, b)
    BY <1>3, <1>4, <2>1, OrderedRead
  <2>. QED BY <2>1, <2>2, OrderedOfAbsent
<1>10. CASE p.operator \in REFERENCES
  <2>1. Joined(b, EntityOf(p.field)) # UNSURE
    BY <1>1, <1>10, EvaluateByOperator, OppositeIsSure DEF REFERENCES
  <2>2. Joined(c, EntityOf(p.field)) = Joined(b, EntityOf(p.field))
    BY <1>1, <1>10, <2>1
  <2>. QED BY <1>1, <1>2, <1>10, <2>2, EvaluateByOperator DEF REFERENCES
<1>11. CASE p.operator \in {"within", "not_within"}
  <2>1. Within(Field(b, p.field), Field(b, p.start), Field(b, p.end)) # UNSURE
    BY <1>1, <1>11, EvaluateByOperator, OppositeIsSure
  <2>2. /\ Field(c, p.field) = Field(b, p.field)
        /\ Field(c, p.start) = Field(b, p.start)
        /\ Field(c, p.end) = Field(b, p.end)
    BY <1>3, <2>1, WithinRead
  <2>. QED BY <1>1, <1>2, <1>11, <2>2, EvaluateByOperator
<1>12. CASE p.operator \notin {"exists", "not_exists", "equals", "not_equals",
                              "matches_ignore_case", "in", "not_in", "within", "not_within"}
                              \union ORDERINGS \union REFERENCES
  BY <1>1, <1>12, EvaluateByOperator
<1>. QED BY <1>6, <1>7, <1>8, <1>9, <1>10, <1>11, <1>12

------------------------------------------------------------------------------
(* One predicate, over a record or over a collection of it.                 *)

\* A match answers in one of three ways.
LEMMA JoinedAnswers ==
  ASSUME NEW b, BundleOK(b), NEW e
  PROVE  Joined(b, e) \in {HOLDS, FAILS, UNSURE}
BY DEF BundleOK, Joined

\* A clause that answers on a record's evidence answers so on better evidence.
LEMMA ClauseStands ==
  ASSUME NEW p, NEW b, NEW c, BundleOK(b), Better(b, c), Evaluate(p, b) # UNSURE
  PROVE  Evaluate(p, c) = Evaluate(p, b)
<1> DEFINE E == EntityOf(p.field)
<1>1. Joined(b, E) \in {HOLDS, FAILS, UNSURE}
  BY JoinedAnswers
<1>2. ~ReadsCollection(p, b) => E \notin DOMAIN b.related
  BY DEF ReadsCollection, Entities, Operands
<1>3. ~ReadsCollection(p, b) /\ Joined(b, E) # UNSURE => Joined(c, E) = Joined(b, E)
  BY <1>1, <1>2 DEF Better
<1>. QED BY <1>1, <1>3, EvaluateStands DEF Better

\* So do all the clauses of a list, when all of them answer.
LEMMA ResultsStand ==
  ASSUME NEW clauses, NEW b, NEW c, BundleOK(b), Better(b, c)
  PROVE  /\ HOLDS \in Results(clauses, b) => HOLDS \in Results(clauses, c)
         /\ FAILS \in Results(clauses, b) => FAILS \in Results(clauses, c)
         /\ UNSURE \notin Results(clauses, b) => Results(clauses, c) = Results(clauses, b)
<1>1. \A i \in DOMAIN clauses :
        Evaluate(clauses[i], b) # UNSURE => Evaluate(clauses[i], c) = Evaluate(clauses[i], b)
  BY ClauseStands
<1>2. HOLDS # UNSURE /\ FAILS # UNSURE
  BY DEF HOLDS, FAILS, UNSURE
<1>. QED BY <1>1, <1>2 DEF Results

\* The same of a predicate over one record of a collection, where the match of the
\* collection itself is settled or is not what the predicate asks about.
LEMMA ViewStands ==
  ASSUME NEW p, NEW b, NEW c, NEW e, NEW r, NEW s,
         BundleOK(b), BundleOK(c), Better(b, c), Stands(r, s),
         p.operator \in REFERENCES /\ Joined(b, e) # UNSURE => Joined(b, e) = HOLDS,
         Evaluate(p, View(b, e, r)) # UNSURE
  PROVE  Evaluate(p, View(c, e, s)) = Evaluate(p, View(b, e, r))
<1> DEFINE E == EntityOf(p.field)
           v == View(b, e, r)
           w == View(c, e, s)
<1>1. /\ v.fields = [f \in DOMAIN b.fields \union DOMAIN r |->
                       IF f \in DOMAIN r THEN r[f] ELSE b.fields[f]]
      /\ v.related = [other \in DOMAIN b.related \ {e} |-> b.related[other]]
      /\ v.joins = b.joins
  BY DEF View, BundleOK
<1>2. /\ w.fields = [f \in DOMAIN c.fields \union DOMAIN s |->
                       IF f \in DOMAIN s THEN s[f] ELSE c.fields[f]]
      /\ w.related = [other \in DOMAIN c.related \ {e} |-> c.related[other]]
      /\ w.joins = c.joins
  BY DEF View, BundleOK
<1>3. Joined(v, E) = Joined(b, E) /\ Joined(w, E) = Joined(c, E)
  BY <1>1, <1>2 DEF Joined
<1>4. Stands(v.fields, w.fields)
  <2>1. DOMAIN c.fields = DOMAIN b.fields /\ DOMAIN s = DOMAIN r
    BY DEF Better, Stands
  <2>2. \A f \in DOMAIN v.fields : v.fields[f] # Unknown => w.fields[f] = v.fields[f]
    BY <1>1, <1>2, <2>1 DEF Better, Stands
  <2>3. DOMAIN w.fields = DOMAIN v.fields
    BY <1>1, <1>2, <2>1
  <2>. QED BY <2>2, <2>3 DEF Stands
<1>5. DOMAIN w.related = DOMAIN v.related
  BY <1>1, <1>2 DEF Better
<1>6. Joined(v, E) \in {HOLDS, FAILS, UNSURE}
  BY <1>3, JoinedAnswers
<1>7. p.operator \in REFERENCES /\ ~ReadsCollection(p, v) /\ Joined(v, E) # UNSURE =>
        Joined(w, E) = Joined(v, E)
  <2>1. SUFFICES ASSUME p.operator \in REFERENCES, ~ReadsCollection(p, v), Joined(v, E) # UNSURE
                 PROVE  Joined(c, E) = Joined(b, E)
    BY <1>3
  <2>2. E \notin DOMAIN b.related \ {e}
    BY <1>1, <2>1 DEF ReadsCollection, Entities, Operands
  <2>3. CASE E = e
    BY <1>3, <2>1, <2>3 DEF Better
  <2>4. CASE E # e
    BY <1>3, <1>6, <2>1, <2>2, <2>4 DEF Better
  <2>. QED BY <2>3, <2>4
<1> HIDE DEF v, w
<1>8. Evaluate(p, v) # UNSURE
  BY DEF v
<1>9. Evaluate(p, w) = Evaluate(p, v)
  BY <1>4, <1>5, <1>6, <1>7, <1>8, EvaluateStands
<1>. QED BY <1>9 DEF v, w

\* A predicate reading one collection is asked of each of its records.
LEMMA OfOneCollection ==
  ASSUME NEW p, NEW b, NEW e, Entities(p) \cap DOMAIN b.related = {e}
  PROVE  OfPredicate(p, b) = OfEachRecord(p, e, b)
<1>1. OfPredicate(p, b) = UNION {OfEachRecord(p, x, b) : x \in {e}}
  BY DEF OfPredicate
<1>2. {OfEachRecord(p, x, b) : x \in {e}} = {OfEachRecord(p, e, b)}
  OBVIOUS
<1>. QED BY <1>1, <1>2

\* What one record of a collection convicts, it convicts on better evidence.
LEMMA ConvictionStands ==
  ASSUME NEW p, NEW b, NEW c, BundleOK(b), BundleOK(c), Better(b, c),
         HOLDS \in OfPredicate(p, b)
  PROVE  HOLDS \in OfPredicate(p, c)
<1> DEFINE read == Entities(p) \cap DOMAIN b.related
<1>1. read = Entities(p) \cap DOMAIN c.related
  BY DEF Better
<1>2. HOLDS # UNSURE /\ FAILS # UNSURE /\ HOLDS # FAILS
  BY DEF HOLDS, FAILS, UNSURE
<1>3. CASE read = {}
  <2>1. HOLDS = Evaluate(p, b)
    BY <1>3 DEF OfPredicate
  <2>2. Evaluate(p, c) = HOLDS
    BY <1>2, <2>1, ClauseStands
  <2>. QED BY <1>1, <1>3, <2>2 DEF OfPredicate
<1>4. CASE read # {}
  <2>1. PICK e \in read : read = {e} /\ HOLDS \in OfEachRecord(p, e, b)
    BY <1>2, <1>4, OfOneCollection DEF OfPredicate
  <2>2. OfPredicate(p, c) = OfEachRecord(p, e, c)
    BY <1>1, <2>1, OfOneCollection
  <2>3. Joined(b, e) # UNSURE
    BY <1>2, <2>1 DEF OfEachRecord
  <2>4. PICK r \in b.related[e] : Evaluate(p, View(b, e, r)) = HOLDS
    <3>1. \A x : OfUnplaced(x) # HOLDS
      BY <1>2 DEF OfUnplaced
    <3>2. HOLDS \in {Evaluate(p, View(b, e, r)) : r \in b.related[e]}
                      \union {OfUnplaced(Evaluate(p, View(b, e, r))) : r \in b.unplaced[e]}
      BY <2>1, <2>3 DEF OfEachRecord
    <3>. QED BY <3>1, <3>2
  <2>5. Joined(b, e) = HOLDS
    BY <2>1, <2>3, <2>4, JoinedAnswers DEF BundleOK
  <2>6. PICK s \in c.related[e] : Stands(r, s)
    BY <2>1, <2>3, <2>4 DEF Better, CollectionStands
  <2>7. Evaluate(p, View(c, e, s)) = HOLDS
    BY <1>2, <2>4, <2>5, <2>6, ViewStands
  <2>8. Joined(c, e) # UNSURE
    BY <1>2, <2>5 DEF Better
  <2>. QED BY <2>2, <2>6, <2>7, <2>8 DEF OfEachRecord
<1>. QED BY <1>3, <1>4

\* And what a predicate denies of every record there is or may be, where it asks
\* about dates, it denies on better evidence.
LEMMA DenialStands ==
  ASSUME NEW p, NEW b, NEW c, BundleOK(b), BundleOK(c), Better(b, c),
         Entities(p) \cap DOMAIN b.related # {} => p.operator \notin REFERENCES,
         HOLDS \notin OfPredicate(p, b), UNSURE \notin OfPredicate(p, b)
  PROVE  HOLDS \notin OfPredicate(p, c) /\ UNSURE \notin OfPredicate(p, c)
<1> DEFINE read == Entities(p) \cap DOMAIN b.related
<1>1. read = Entities(p) \cap DOMAIN c.related
  BY DEF Better
<1>2. HOLDS # UNSURE /\ FAILS # UNSURE /\ HOLDS # FAILS
  BY DEF HOLDS, FAILS, UNSURE
<1>3. CASE read = {}
  <2>1. OfPredicate(p, b) = {Evaluate(p, b)} /\ OfPredicate(p, c) = {Evaluate(p, c)}
    BY <1>1, <1>3 DEF OfPredicate
  <2>2. Evaluate(p, c) = Evaluate(p, b)
    BY <2>1, ClauseStands
  <2>. QED BY <2>1, <2>2
<1>4. CASE read # {}
  <2>1. PICK e \in read : read = {e}
    BY <1>4 DEF OfPredicate
  <2>2. OfPredicate(p, b) = OfEachRecord(p, e, b) /\ OfPredicate(p, c) = OfEachRecord(p, e, c)
    BY <1>1, <2>1, OfOneCollection
  <2>3. Joined(b, e) # UNSURE
    BY <2>2 DEF OfEachRecord
  <2>4. Joined(c, e) # UNSURE
    BY <1>2, <2>3, JoinedAnswers DEF Better
  <2>5. OfEachRecord(p, e, b) =
          {Evaluate(p, View(b, e, r)) : r \in b.related[e]}
            \union {OfUnplaced(Evaluate(p, View(b, e, r))) : r \in b.unplaced[e]}
    BY <2>3 DEF OfEachRecord
  <2>6. OfEachRecord(p, e, c) =
          {Evaluate(p, View(c, e, s)) : s \in c.related[e]}
            \union {OfUnplaced(Evaluate(p, View(c, e, s))) : s \in c.unplaced[e]}
    BY <2>4 DEF OfEachRecord
  <2>7. CollectionStands(b, c, e)
    BY <2>1, <2>3 DEF Better
  <2>8. \A r \in b.related[e] : Evaluate(p, View(b, e, r)) \notin {HOLDS, UNSURE}
    BY <2>2, <2>5
  <2>9. \A r \in b.unplaced[e] : Evaluate(p, View(b, e, r)) = FAILS
    <3>1. \A r \in b.unplaced[e] : OfUnplaced(Evaluate(p, View(b, e, r))) # UNSURE
      BY <2>2, <2>5
    <3>. QED BY <3>1 DEF OfUnplaced
  <2>10. \A r, s : Stands(r, s) /\ Evaluate(p, View(b, e, r)) # UNSURE =>
           Evaluate(p, View(c, e, s)) = Evaluate(p, View(b, e, r))
    BY <1>4, ViewStands
  <2>11. \A s \in c.related[e] : Evaluate(p, View(c, e, s)) \notin {HOLDS, UNSURE}
    BY <1>2, <2>7, <2>8, <2>9, <2>10 DEF CollectionStands
  <2>12. \A s \in c.unplaced[e] : Evaluate(p, View(c, e, s)) = FAILS
    BY <1>2, <2>7, <2>9, <2>10 DEF CollectionStands
  <2>13. \A s \in c.unplaced[e] : OfUnplaced(Evaluate(p, View(c, e, s))) = FAILS
    BY <2>12 DEF OfUnplaced
  <2>14. \A x \in OfEachRecord(p, e, c) : x \notin {HOLDS, UNSURE}
    BY <1>2, <2>6, <2>11, <2>13
  <2>. QED BY <2>2, <2>14
<1>. QED BY <1>3, <1>4

------------------------------------------------------------------------------
(* A collection.                                                            *)

\* The dates a predicate asks about, once read, are the same on better evidence.
LEMMA SpanStands ==
  ASSUME NEW p, NEW e, NEW b, NEW c, Better(b, c), Span(p, e, b) # {}
  PROVE  Span(p, e, c) = Span(p, e, b)
<1> DEFINE Theirs(f) == EntityOf(f) = e
           DatedIn(x, f) == Field(x, f) = Absent \/ Field(x, f).unit = DATE
<1>1. \A f : Field(b, f) # Unknown => Field(c, f) = Field(b, f)
  BY FieldStands DEF Better
<1>2. Absent # Unknown /\ Unknown.unit # DATE
  BY DEF Absent, Unknown, DATE
<1>3. p.operator = "within"
  BY DEF Span
<1>4. CASE Theirs(p.field) /\ ~Theirs(p.start) /\ ~Theirs(p.end)
  <2>1. \A x \in {b, c} : Span(p, e, x) =
          IF DatedIn(x, p.start) /\ DatedIn(x, p.end)
          THEN {<<Field(x, p.start), Field(x, p.end)>>} ELSE {}
    BY <1>3, <1>4 DEF Span
  <2>2. Field(b, p.start) # Unknown /\ Field(b, p.end) # Unknown
    BY <1>2, <2>1
  <2>. QED BY <1>1, <2>1, <2>2
<1>5. CASE ~(Theirs(p.field) /\ ~Theirs(p.start) /\ ~Theirs(p.end))
  <2>1. \A x \in {b, c} : Span(p, e, x) =
          IF ~Theirs(p.field) /\ Theirs(p.start) /\ Theirs(p.end)
               /\ Field(x, p.field).unit = DATE
          THEN {<<Field(x, p.field), Field(x, p.field)>>} ELSE {}
    BY <1>3, <1>5 DEF Span
  <2>2. Field(b, p.field) # Unknown
    BY <1>2, <2>1
  <2>. QED BY <1>1, <2>1, <2>2
<1>. QED BY <1>4, <1>5

\* So a collection fetched for every date asked about is so on better evidence.
LEMMA CoveredStands ==
  ASSUME NEW predicates, NEW e, NEW b, NEW c, Better(b, c), Covered(predicates, e, b)
  PROVE  Covered(predicates, e, c)
<1> DEFINE reading == {i \in DOMAIN predicates : e \in Entities(predicates[i])}
<1>1. \A i \in reading : Span(predicates[i], e, b) # {}
  BY DEF Covered
<1>2. \A i \in reading : Span(predicates[i], e, c) = Span(predicates[i], e, b)
  BY <1>1, SpanStands
<1>3. {Span(predicates[i], e, c) : i \in reading} = {Span(predicates[i], e, b) : i \in reading}
  BY <1>2
<1>4. c.window = b.window
  BY DEF Better
<1>. QED BY <1>2, <1>3, <1>4 DEF Covered

\* A record convicted or cleared by its collections is so on better evidence.
LEMMA CollectionVerdictStands ==
  ASSUME NEW predicates, NEW b, NEW c, BundleOK(b), BundleOK(c), Better(b, c),
         JudgeCollection(predicates, b) \in Conclusive
  PROVE  JudgeCollection(predicates, c) = JudgeCollection(predicates, b)
<1> DEFINE Res(x) == UNION {OfPredicate(predicates[i], x) : i \in DOMAIN predicates}
           entities == DOMAIN b.related
                         \cap UNION {Entities(predicates[i]) : i \in DOMAIN predicates}
<1>1. entities = DOMAIN c.related \cap UNION {Entities(predicates[i]) : i \in DOMAIN predicates}
  BY DEF Better
<1>2. \A x \in {b, c} : JudgeCollection(predicates, x) =
        IF HOLDS \in Res(x) THEN FAIL
        ELSE IF UNSURE \in Res(x) \/ \E e \in entities : ~Covered(predicates, e, x)
        THEN UNKNOWN
        ELSE PASS
  BY <1>1 DEF JudgeCollection
<1>3. \A x, y : y \in Res(x) <=> \E i \in DOMAIN predicates : y \in OfPredicate(predicates[i], x)
  OBVIOUS
<1> HIDE DEF Res
<1>4. CASE HOLDS \in Res(b)
  <2>1. PICK i \in DOMAIN predicates : HOLDS \in OfPredicate(predicates[i], b)
    BY <1>3, <1>4
  <2>2. HOLDS \in OfPredicate(predicates[i], c)
    BY <2>1, ConvictionStands
  <2>3. HOLDS \in Res(c)
    BY <1>3, <2>2
  <2>. QED BY <1>2, <1>4, <2>3
<1>5. CASE HOLDS \notin Res(b)
  <2>1. UNSURE \notin Res(b) /\ \A e \in entities : Covered(predicates, e, b)
    BY <1>2, <1>5 DEF Conclusive, UNKNOWN, PASS, FAIL, EXCLUDED
  <2>2. \A i \in DOMAIN predicates :
          /\ HOLDS \notin OfPredicate(predicates[i], b)
          /\ UNSURE \notin OfPredicate(predicates[i], b)
    BY <1>3, <1>5, <2>1
  <2>3. \A i \in DOMAIN predicates :
          Entities(predicates[i]) \cap DOMAIN b.related # {} =>
            predicates[i].operator \notin REFERENCES
    <3>1. SUFFICES ASSUME NEW i \in DOMAIN predicates,
                          NEW e \in Entities(predicates[i]) \cap DOMAIN b.related
                   PROVE  predicates[i].operator \notin REFERENCES
      OBVIOUS
    <3>2. e \in entities
      <4>1. Entities(predicates[i]) \in {Entities(predicates[j]) : j \in DOMAIN predicates}
        OBVIOUS
      <4>. QED BY <4>1
    <3>3. Covered(predicates, e, b)
      BY <2>1, <3>2
    <3>4. Span(predicates[i], e, b) # {}
      BY <3>3 DEF Covered
    <3>5. predicates[i].operator = "within"
      BY <3>4 DEF Span
    <3>. QED BY <3>5 DEF REFERENCES
  <2>4. \A i \in DOMAIN predicates :
          /\ HOLDS \notin OfPredicate(predicates[i], c)
          /\ UNSURE \notin OfPredicate(predicates[i], c)
    BY <2>2, <2>3, DenialStands
  <2>5. HOLDS \notin Res(c) /\ UNSURE \notin Res(c)
    BY <1>3, <2>4
  <2>6. \A e \in entities : Covered(predicates, e, c)
    BY <2>1, CoveredStands
  <2>. QED BY <1>2, <1>5, <2>1, <2>5, <2>6
<1>. QED BY <1>4, <1>5

------------------------------------------------------------------------------
(* One record.                                                              *)

\* Scope and exceptions, once they settle a record, settle it so on better evidence.
LEMMA AdmittedStands ==
  ASSUME NEW r, NEW b, NEW c, BundleOK(b), Better(b, c), Admitted(r, b) # UNKNOWN
  PROVE  Admitted(r, c) = Admitted(r, b)
<1>1. /\ FAILS \in Results(r.scope, b) => FAILS \in Results(r.scope, c)
      /\ UNSURE \notin Results(r.scope, b) => Results(r.scope, c) = Results(r.scope, b)
  BY ResultsStand
<1>2. /\ HOLDS \in Results(r.exceptions, b) => HOLDS \in Results(r.exceptions, c)
      /\ UNSURE \notin Results(r.exceptions, b) =>
           Results(r.exceptions, c) = Results(r.exceptions, b)
  BY ResultsStand
<1>. QED BY <1>1, <1>2 DEF Admitted, UNKNOWN, PASS, EXCLUDED

LEMMA CombineStands ==
  ASSUME NEW mode, NEW clauses, NEW b, NEW c, BundleOK(b), Better(b, c),
         Combine(mode, Results(clauses, b)) \in Conclusive
  PROVE  Combine(mode, Results(clauses, c)) = Combine(mode, Results(clauses, b))
<1>1. /\ HOLDS \in Results(clauses, b) => HOLDS \in Results(clauses, c)
      /\ FAILS \in Results(clauses, b) => FAILS \in Results(clauses, c)
      /\ UNSURE \notin Results(clauses, b) => Results(clauses, c) = Results(clauses, b)
  BY ResultsStand
<1>. QED BY <1>1 DEF Combine, Conclusive, UNKNOWN, PASS, FAIL, EXCLUDED

\* A verdict on one record by itself stands.
LEMMA RecordStands ==
  ASSUME NEW r, NEW b, NEW c, BundleOK(b), BundleOK(c), Better(b, c),
         OfRecord(r, b) \in Conclusive
  PROVE  OfRecord(r, c) = OfRecord(r, b)
<1>1. Admitted(r, b) # UNKNOWN
  BY DEF OfRecord, Conclusive, UNKNOWN, PASS, FAIL, EXCLUDED
<1>2. Admitted(r, c) = Admitted(r, b)
  BY <1>1, AdmittedStands
<1>3. CASE Admitted(r, b) # PASS
  BY <1>2, <1>3 DEF OfRecord
<1>4. CASE Admitted(r, b) = PASS
  <2> DEFINE Collected(x) ==
        r.mode = "none" /\ \E i \in DOMAIN r.predicates : ReadsCollection(r.predicates[i], x)
  <2>1. Collected(c) <=> Collected(b)
    BY DEF Better, ReadsCollection
  <2>2. \A x \in {b, c} : OfRecord(r, x) = IF Collected(x) THEN JudgeCollection(r.predicates, x)
                                           ELSE Combine(r.mode, Results(r.predicates, x))
    BY <1>2, <1>4 DEF OfRecord
  <2> HIDE DEF Collected
  <2>3. CASE Collected(b)
    BY <2>1, <2>2, <2>3, CollectionVerdictStands
  <2>4. CASE ~Collected(b)
    BY <2>1, <2>2, <2>4, CombineStands
  <2>. QED BY <2>3, <2>4
<1>. QED BY <1>3, <1>4

------------------------------------------------------------------------------
(* A group.                                                                 *)

\* Clause by clause, what settles a record settles it so on better evidence.
LEMMA SettledStands ==
  ASSUME NEW r, NEW b, NEW c, BundleOK(b), Better(b, c), Settled(r, b) # UNKNOWN
  PROVE  Settled(r, c) = Settled(r, b)
<1>1. HOLDS # UNSURE /\ FAILS # UNSURE /\ HOLDS # FAILS
  BY DEF HOLDS, FAILS, UNSURE
<1>2. \A clauses : \A answer \in {HOLDS, FAILS} :
        Throughout(clauses, b, answer) => Throughout(clauses, c, answer)
  BY <1>1, ClauseStands DEF Throughout
<1>3. \A clauses : \A ordinary, answer \in {HOLDS, FAILS} :
        StopsAt(clauses, b, ordinary, answer) => StopsAt(clauses, c, ordinary, answer)
  <2>1. \A p : Evaluate(p, b) \in {HOLDS, FAILS} => Evaluate(p, c) = Evaluate(p, b)
    BY <1>1, ClauseStands
  <2>. QED BY <2>1 DEF StopsAt
<1>4. \A clauses, x : ~(Throughout(clauses, x, HOLDS) /\ StopsAt(clauses, x, HOLDS, FAILS))
  BY <1>1 DEF Throughout, StopsAt
<1>5. \A clauses, x : ~(Throughout(clauses, x, FAILS) /\ StopsAt(clauses, x, FAILS, HOLDS))
  BY <1>1 DEF Throughout, StopsAt
<1>6. \A x : Settled(r, x) =
        IF Throughout(r.scope, x, HOLDS) /\ Throughout(r.exceptions, x, FAILS) THEN PASS
        ELSE IF \/ StopsAt(r.scope, x, HOLDS, FAILS)
                \/ Throughout(r.scope, x, HOLDS) /\ StopsAt(r.exceptions, x, FAILS, HOLDS)
             THEN EXCLUDED
        ELSE UNKNOWN
  BY <1>4, <1>5 DEF Settled
<1>. QED BY <1>2, <1>3, <1>4, <1>5, <1>6 DEF PASS, EXCLUDED, UNKNOWN

\* The evidence of a whole population, better record by record, in which no record
\* got the key it is grouped by.
Improved(r, bs, cs) ==
  /\ DOMAIN cs = DOMAIN bs
  /\ IsFiniteSet(DOMAIN bs)
  /\ \A i \in DOMAIN bs : BundleOK(bs[i]) /\ BundleOK(cs[i]) /\ Better(bs[i], cs[i])
  /\ \A i \in DOMAIN bs : KeyOf(r, bs[i]) = Unknown => KeyOf(r, cs[i]) = Unknown

\* What is known of each record of a group.
LEMMA MembersStand ==
  ASSUME NEW r, NEW bs, NEW cs, Improved(r, bs, cs)
  PROVE  \A i \in DOMAIN bs :
           /\ Settled(r, bs[i]) # UNKNOWN => Settled(r, cs[i]) = Settled(r, bs[i])
           /\ KeyOf(r, cs[i]) = KeyOf(r, bs[i])
           /\ \A f : Field(bs[i], f) # Unknown => Field(cs[i], f) = Field(bs[i], f)
<1> SUFFICES ASSUME NEW i \in DOMAIN bs
             PROVE  /\ Settled(r, bs[i]) # UNKNOWN => Settled(r, cs[i]) = Settled(r, bs[i])
                    /\ KeyOf(r, cs[i]) = KeyOf(r, bs[i])
                    /\ \A f : Field(bs[i], f) # Unknown => Field(cs[i], f) = Field(bs[i], f)
  OBVIOUS
<1>1. BundleOK(bs[i]) /\ Better(bs[i], cs[i])
  BY DEF Improved
<1>2. \A f : Field(bs[i], f) # Unknown => Field(cs[i], f) = Field(bs[i], f)
  BY <1>1, FieldStands DEF Better
<1>3. KeyOf(r, cs[i]) = KeyOf(r, bs[i])
  BY <1>2 DEF Improved, KeyOf
<1>. QED BY <1>1, <1>2, <1>3, SettledStands

\* A group keeps its members, and gains none but records nobody could settle.
LEMMA GroupStands ==
  ASSUME NEW r, NEW bs, NEW cs, Improved(r, bs, cs), NEW i \in DOMAIN bs
  PROVE  /\ Group(r, bs, i) \subseteq Group(r, cs, i)
         /\ KeyOf(r, bs[i]) \notin UncertainKeys(r, bs) => Group(r, cs, i) = Group(r, bs, i)
<1>1. \A j \in DOMAIN bs :
        /\ Settled(r, bs[j]) # UNKNOWN => Settled(r, cs[j]) = Settled(r, bs[j])
        /\ KeyOf(r, cs[j]) = KeyOf(r, bs[j])
  BY MembersStand
<1>2. PASS # UNKNOWN /\ DOMAIN cs = DOMAIN bs
  BY DEF PASS, UNKNOWN, Improved
<1>3. Group(r, bs, i) \subseteq Group(r, cs, i)
  BY <1>1, <1>2 DEF Group, InPlay
<1>4. ASSUME KeyOf(r, bs[i]) \notin UncertainKeys(r, bs), NEW j \in Group(r, cs, i)
      PROVE  j \in Group(r, bs, i)
  <2>1. /\ j \in DOMAIN bs /\ Settled(r, cs[j]) = PASS
        /\ KeyOf(r, bs[j]) # Unknown /\ KeyOf(r, bs[j]) = KeyOf(r, bs[i])
    BY <1>1, <1>2 DEF Group, InPlay
  <2>2. Settled(r, bs[j]) # UNKNOWN
    BY <1>4, <2>1 DEF UncertainKeys
  <2>. QED BY <1>1, <1>2, <2>1, <2>2 DEF Group, InPlay
<1>. QED BY <1>3, <1>4

\* A key nobody is uncertain of stays so.
LEMMA CertainStands ==
  ASSUME NEW r, NEW bs, NEW cs, Improved(r, bs, cs), NEW i \in DOMAIN bs,
         KeyOf(r, bs[i]) \notin UncertainKeys(r, bs)
  PROVE  KeyOf(r, cs[i]) \notin UncertainKeys(r, cs)
<1>1. \A j \in DOMAIN bs :
        /\ Settled(r, bs[j]) # UNKNOWN => Settled(r, cs[j]) = Settled(r, bs[j])
        /\ KeyOf(r, cs[j]) = KeyOf(r, bs[j])
  BY MembersStand
<1>2. DOMAIN cs = DOMAIN bs
  BY DEF Improved
<1>3. SUFFICES ASSUME NEW j \in DOMAIN bs, Settled(r, cs[j]) = UNKNOWN,
                      KeyOf(r, cs[j]) = KeyOf(r, cs[i]), KeyOf(r, cs[i]) # Unknown
               PROVE  FALSE
  BY <1>2 DEF UncertainKeys
<1>4. Settled(r, bs[j]) = UNKNOWN
  BY <1>1, <1>3
<1>5. KeyOf(r, bs[j]) = KeyOf(r, bs[i]) /\ KeyOf(r, bs[j]) # Unknown
  BY <1>1, <1>3
<1>. QED BY <1>4, <1>5 DEF UncertainKeys

\* The distinct ids read in a group, and the records whose id was not.
ReadIds(group, read) == {read[j] : j \in group} \ {Unknown}
Gaps(group, read) == {j \in group : read[j] = Unknown}

\* Reading ids adds at most one distinct id per record read.
LEMMA IdsCount ==
  ASSUME NEW group, IsFiniteSet(group), NEW before, NEW after,
         \A j \in group : before[j] # Unknown => after[j] = before[j],
         NEW limit \in Int,
         Cardinality(ReadIds(group, before)) + Cardinality(Gaps(group, before)) <= limit
  PROVE  /\ IsFiniteSet(ReadIds(group, after))
         /\ Cardinality(ReadIds(group, after)) + Cardinality(Gaps(group, after)) <= limit
         /\ Cardinality(ReadIds(group, after)) <= limit
<1> DEFINE ids    == ReadIds(group, before)
           later  == ReadIds(group, after)
           unread == Gaps(group, before)
           still  == Gaps(group, after)
           gained == unread \ still
           new    == {after[j] : j \in gained}
           pick   == [j \in gained |-> after[j]]
<1>1. later \subseteq ids \union new
  BY DEF ReadIds, Gaps
<1>2. still \subseteq unread
  BY DEF Gaps
<1>3. IsFiniteSet(unread) /\ IsFiniteSet(still) /\ IsFiniteSet(gained)
  BY FS_Subset DEF Gaps
<1>4. IsFiniteSet(ids)
  <2> DEFINE all == {before[j] : j \in group}
             one == [j \in group |-> before[j]]
  <2>1. one \in Surjection(group, all)
    BY DEF Surjection
  <2>2. IsFiniteSet(all)
    BY <2>1, FS_Surjection
  <2>. QED BY <2>2, FS_Subset DEF ReadIds
<1>5. IsFiniteSet(new) /\ Cardinality(new) <= Cardinality(gained)
  <2>1. pick \in Surjection(gained, new)
    BY DEF Surjection
  <2>. QED BY <1>3, <2>1, FS_Surjection
<1> HIDE DEF ids, later, unread, still, new, pick
<1>6. IsFiniteSet(ids \union new)
      /\ Cardinality(ids \union new) <= Cardinality(ids) + Cardinality(new)
  <2>1. /\ IsFiniteSet(ids \union new)
        /\ Cardinality(ids \union new)
             = Cardinality(ids) + Cardinality(new) - Cardinality(ids \cap new)
    BY <1>4, <1>5, FS_Union
  <2>2. IsFiniteSet(ids \cap new)
    BY <1>4, FS_Subset
  <2>3. /\ Cardinality(ids \cap new) \in Nat /\ Cardinality(ids) \in Nat
        /\ Cardinality(new) \in Nat
    BY <1>4, <1>5, <2>2, FS_CardinalityType
  <2>. QED BY <2>1, <2>3
<1>7. IsFiniteSet(later) /\ Cardinality(later) <= Cardinality(ids \union new)
  BY <1>1, <1>6, FS_Subset
<1>8. Cardinality(unread) = Cardinality(gained) + Cardinality(still)
  <2>1. unread = gained \union still /\ gained \cap still = {}
    BY <1>2
  <2>2. Cardinality(unread) = Cardinality(gained) + Cardinality(still) - Cardinality({})
    BY <1>3, <2>1, FS_Union
  <2>3. Cardinality(gained) \in Nat /\ Cardinality(still) \in Nat
    BY <1>3, FS_CardinalityType
  <2>. QED BY <2>2, <2>3, FS_EmptySet
<1>9. /\ Cardinality(ids) \in Nat /\ Cardinality(new) \in Nat /\ Cardinality(gained) \in Nat
      /\ Cardinality(still) \in Nat /\ Cardinality(later) \in Nat
      /\ Cardinality(ids \union new) \in Nat /\ Cardinality(unread) \in Nat
  BY <1>3, <1>4, <1>5, <1>6, <1>7, FS_CardinalityType
<1>10. Cardinality(ids) + Cardinality(unread) <= limit
  BY DEF ids, unread
<1>11. Cardinality(later) + Cardinality(still) <= limit /\ Cardinality(later) <= limit
  <2> HIDE DEF gained
  <2>. QED BY <1>5, <1>6, <1>7, <1>8, <1>9, <1>10
<1>. QED BY <1>7, <1>11 DEF later, still

\* Records joining a group only add to its distinct ids.
LEMMA IdsGrow ==
  ASSUME NEW group, NEW larger, IsFiniteSet(larger), group \subseteq larger,
         NEW before, NEW after,
         \A j \in group : before[j] # Unknown => after[j] = before[j],
         NEW limit \in Int,
         Cardinality(ReadIds(group, before)) > limit
  PROVE  Cardinality(ReadIds(larger, after)) > limit
<1> DEFINE ids   == ReadIds(group, before)
           all   == {after[j] : j \in larger}
           later == ReadIds(larger, after)
           one   == [j \in larger |-> after[j]]
<1>1. ids \subseteq later
  BY DEF ReadIds
<1>2. one \in Surjection(larger, all)
  BY DEF Surjection
<1>3. IsFiniteSet(all)
  BY <1>2, FS_Surjection
<1>4. IsFiniteSet(later)
  BY <1>3, FS_Subset DEF ReadIds
<1>5. Cardinality(ids) > limit
  OBVIOUS
<1> HIDE DEF ids, later
<1>6. IsFiniteSet(ids) /\ Cardinality(ids) <= Cardinality(later)
  BY <1>1, <1>4, FS_Subset
<1>7. Cardinality(ids) \in Nat /\ Cardinality(later) \in Nat
  BY <1>4, <1>6, FS_CardinalityType
<1>8. Cardinality(later) > limit
  BY <1>5, <1>6, <1>7
<1>. QED BY <1>8 DEF later

\* A count of a group stands: over the limit it stays over, and within it whatever
\* the unread ids turn out to be, it stays within.
LEMMA CountStands ==
  ASSUME NEW r, NEW bs, NEW cs, Improved(r, bs, cs), NEW i \in DOMAIN bs,
         i \in Group(r, bs, i),
         r.predicates[1].value \in Int,
         CountLte(r, bs, Group(r, bs, i), i) \in Conclusive,
         CountLte(r, bs, Group(r, bs, i), i) = PASS => Group(r, cs, i) = Group(r, bs, i)
  PROVE  CountLte(r, cs, Group(r, cs, i), i) = CountLte(r, bs, Group(r, bs, i), i)
<1> DEFINE g      == Group(r, bs, i)
           h      == Group(r, cs, i)
           limit  == r.predicates[1].value
           before == [j \in DOMAIN bs |-> IdOf(r, bs[j])]
           after  == [j \in DOMAIN bs |-> IdOf(r, cs[j])]
<1>1. DOMAIN cs = DOMAIN bs /\ IsFiniteSet(DOMAIN bs)
  BY DEF Improved
<1>2. g \subseteq h /\ h \subseteq DOMAIN bs
  BY <1>1, GroupStands DEF Group, InPlay
<1>3. IsFiniteSet(g) /\ IsFiniteSet(h)
  <2>1. IsFiniteSet(h)
    BY <1>1, <1>2, FS_Subset
  <2>. QED BY <1>2, <2>1, FS_Subset
<1>4. \A j \in DOMAIN bs : before[j] # Unknown => after[j] = before[j]
  BY MembersStand DEF IdOf
<1>5. CountLte(r, bs, g, i) =
        IF i \in Gaps(g, before) THEN UNKNOWN
        ELSE IF Cardinality(ReadIds(g, before)) > limit THEN FAIL
        ELSE IF Cardinality(ReadIds(g, before)) + Cardinality(Gaps(g, before)) <= limit THEN PASS
        ELSE UNKNOWN
  <2>1. {IdOf(r, bs[j]) : j \in g} = {before[j] : j \in g}
    BY <1>2
  <2>2. {j \in g : IdOf(r, bs[j]) = Unknown} = Gaps(g, before)
    BY <1>2 DEF Gaps
  <2>. QED BY <2>1, <2>2 DEF CountLte, ReadIds, Gaps
<1>6. CountLte(r, cs, h, i) =
        IF i \in Gaps(h, after) THEN UNKNOWN
        ELSE IF Cardinality(ReadIds(h, after)) > limit THEN FAIL
        ELSE IF Cardinality(ReadIds(h, after)) + Cardinality(Gaps(h, after)) <= limit THEN PASS
        ELSE UNKNOWN
  <2>1. {IdOf(r, cs[j]) : j \in h} = {after[j] : j \in h}
    BY <1>2
  <2>2. {j \in h : IdOf(r, cs[j]) = Unknown} = Gaps(h, after)
    BY <1>2 DEF Gaps
  <2>. QED BY <2>1, <2>2 DEF CountLte, ReadIds, Gaps
<1>7. i \notin Gaps(g, before)
  BY <1>5 DEF Conclusive, UNKNOWN, PASS, FAIL, EXCLUDED
<1>8. i \notin Gaps(h, after)
  BY <1>4, <1>7 DEF Gaps
<1> HIDE DEF g, h, limit, before, after
<1>9. limit \in Int /\ CountLte(r, bs, g, i) \in {PASS, FAIL}
  BY <1>5, <1>7 DEF limit, g, Conclusive, UNKNOWN, PASS, FAIL, EXCLUDED
<1>10. CASE CountLte(r, bs, g, i) = FAIL
  <2>1. Cardinality(ReadIds(g, before)) > limit
    BY <1>5, <1>7, <1>10 DEF UNKNOWN, PASS, FAIL
  <2>2. \A j \in g : before[j] # Unknown => after[j] = before[j]
    BY <1>2, <1>4
  <2>3. Cardinality(ReadIds(h, after)) > limit
    BY <1>2, <1>3, <1>9, <2>1, <2>2, IdsGrow
  <2>. QED BY <1>6, <1>8, <1>10, <2>3 DEF g, h
<1>11. CASE CountLte(r, bs, g, i) = PASS
  <2>1. h = g
    BY <1>11 DEF g, h
  <2>2. Cardinality(ReadIds(g, before)) + Cardinality(Gaps(g, before)) <= limit
    BY <1>5, <1>7, <1>11 DEF UNKNOWN, PASS, FAIL
  <2>3. \A j \in g : before[j] # Unknown => after[j] = before[j]
    BY <1>2, <1>4
  <2>4. /\ IsFiniteSet(ReadIds(g, after))
        /\ Cardinality(ReadIds(g, after)) + Cardinality(Gaps(g, after)) <= limit
        /\ Cardinality(ReadIds(g, after)) <= limit
    BY <1>3, <1>9, <2>2, <2>3, IdsCount
  <2>5. Cardinality(ReadIds(g, after)) \in Nat
    BY <2>4, FS_CardinalityType
  <2>6. ~(Cardinality(ReadIds(g, after)) > limit)
    BY <1>9, <2>4, <2>5
  <2>. QED BY <1>6, <1>8, <1>11, <2>1, <2>4, <2>6 DEF g, h
<1>. QED BY <1>9, <1>10, <1>11 DEF g, h

\* Overlaps of a group stand: a clash was between readings, and a group cleared had
\* every part of every record read.
LEMMA OverlapStands ==
  ASSUME NEW r, NEW bs, NEW cs, Improved(r, bs, cs), NEW i \in DOMAIN bs,
         i \in Group(r, bs, i),
         NoOverlap(r, bs, Group(r, bs, i), i) \in Conclusive,
         NoOverlap(r, bs, Group(r, bs, i), i) = PASS => Group(r, cs, i) = Group(r, bs, i)
  PROVE  NoOverlap(r, cs, Group(r, cs, i), i) = NoOverlap(r, bs, Group(r, bs, i), i)
<1> DEFINE p == r.predicates[1]
           g == Group(r, bs, i)
           h == Group(r, cs, i)
           Parts(xs, j) == {Field(xs[j], p.start), Field(xs[j], p.end), IdOf(r, xs[j])}
           Clash(xs, j) ==
             /\ IdOf(r, xs[j]) # IdOf(r, xs[i])
             /\ Overlaps(Field(xs[i], p.start).payload, Field(xs[i], p.end).payload,
                         Field(xs[j], p.start).payload, Field(xs[j], p.end).payload)
           Unread(xs, k) == {j \in k : Unknown \in Parts(xs, j)}
<1>1. g \subseteq h /\ g \subseteq DOMAIN bs
  BY GroupStands DEF Group, InPlay
<1>2. \A j \in DOMAIN bs : Unknown \notin Parts(bs, j) =>
        /\ Field(cs[j], p.start) = Field(bs[j], p.start)
        /\ Field(cs[j], p.end) = Field(bs[j], p.end)
        /\ IdOf(r, cs[j]) = IdOf(r, bs[j])
        /\ Unknown \notin Parts(cs, j)
  BY MembersStand DEF IdOf
<1>3. \A xs, k : NoOverlap(r, xs, k, i) =
        IF i \in Unread(xs, k) THEN UNKNOWN
        ELSE IF \E j \in k \ Unread(xs, k) : Clash(xs, j) THEN FAIL
        ELSE IF Unread(xs, k) # {} THEN UNKNOWN ELSE PASS
  BY DEF NoOverlap
<1>4. \A j \in DOMAIN bs : Unknown \notin Parts(bs, i) /\ Unknown \notin Parts(bs, j) =>
        (Clash(cs, j) <=> Clash(bs, j))
  BY <1>2
<1>5. \A xs, k, j : j \in Unread(xs, k) <=> j \in k /\ Unknown \in Parts(xs, j)
  OBVIOUS
<1>6. /\ i \in g
      /\ NoOverlap(r, bs, g, i) \in Conclusive
      /\ NoOverlap(r, bs, g, i) = PASS => h = g
  OBVIOUS
<1>7. SUFFICES NoOverlap(r, cs, h, i) = NoOverlap(r, bs, g, i)
  OBVIOUS
<1> HIDE DEF p, g, h, Parts, Clash, Unread
<1>8. i \notin Unread(bs, g)
  BY <1>3, <1>6 DEF Conclusive, UNKNOWN, PASS, FAIL, EXCLUDED
<1>9. Unknown \notin Parts(bs, i) /\ i \notin Unread(cs, h)
  BY <1>1, <1>2, <1>5, <1>6, <1>8
<1>10. CASE \E j \in g \ Unread(bs, g) : Clash(bs, j)
  <2>1. PICK j \in g \ Unread(bs, g) : Clash(bs, j)
    BY <1>10
  <2>2. Unknown \notin Parts(bs, j) /\ j \in DOMAIN bs /\ j \in h
    BY <1>1, <1>5, <2>1
  <2>3. Clash(cs, j) /\ j \notin Unread(cs, h)
    BY <1>2, <1>4, <1>5, <1>9, <2>1, <2>2
  <2>. QED BY <1>3, <1>8, <1>9, <1>10, <2>2, <2>3
<1>11. CASE ~\E j \in g \ Unread(bs, g) : Clash(bs, j)
  <2>1. Unread(bs, g) = {} /\ NoOverlap(r, bs, g, i) = PASS
    BY <1>3, <1>6, <1>8, <1>11 DEF Conclusive, UNKNOWN, PASS, FAIL, EXCLUDED
  <2>2. h = g
    BY <1>6, <2>1
  <2>3. \A j \in g : Unknown \notin Parts(bs, j) /\ ~Clash(bs, j)
    BY <1>5, <1>11, <2>1
  <2>4. \A j \in g : Unknown \notin Parts(cs, j) /\ ~Clash(cs, j)
    BY <1>1, <1>2, <1>4, <1>9, <2>3
  <2>5. Unread(cs, h) = {}
    BY <1>5, <2>2, <2>4
  <2>. QED BY <1>3, <1>9, <2>1, <2>2, <2>4, <2>5
<1>. QED BY <1>10, <1>11

\* The verdict on one record of a population stands.
LEMMA GroupedStands ==
  ASSUME NEW r, NEW bs, NEW cs, Improved(r, bs, cs), NEW i \in DOMAIN bs,
         r.predicates[1].operator = "count_lte" => r.predicates[1].value \in Int,
         OfGrouped(r, bs, i) \in Conclusive
  PROVE  OfGrouped(r, cs, i) = OfGrouped(r, bs, i)
<1> DEFINE Judged(xs) ==
             CASE r.predicates[1].operator = "count_lte"  -> CountLte(r, xs, Group(r, xs, i), i)
               [] r.predicates[1].operator = "no_overlap" -> NoOverlap(r, xs, Group(r, xs, i), i)
               [] OTHER -> UNKNOWN
           Sure(xs) == KeyOf(r, xs[i]) \notin UncertainKeys(r, xs)
<1>1. \A xs : OfGrouped(r, xs, i) =
        IF Settled(r, xs[i]) # PASS THEN Settled(r, xs[i])
        ELSE IF KeyOf(r, xs[i]) = Unknown THEN UNKNOWN
        ELSE IF Judged(xs) = PASS /\ ~Sure(xs) THEN UNKNOWN
        ELSE Judged(xs)
  BY DEF OfGrouped
<1>2. /\ Settled(r, bs[i]) # UNKNOWN => Settled(r, cs[i]) = Settled(r, bs[i])
      /\ KeyOf(r, cs[i]) = KeyOf(r, bs[i])
  BY MembersStand
<1>3. UNKNOWN \notin Conclusive /\ UNKNOWN # PASS
  BY DEF Conclusive, UNKNOWN, PASS, FAIL, EXCLUDED
<1>4. CASE Settled(r, bs[i]) # PASS
  <2>1. Settled(r, bs[i]) # UNKNOWN
    BY <1>1, <1>3, <1>4
  <2>. QED BY <1>1, <1>2, <1>4, <2>1
<1>5. CASE Settled(r, bs[i]) = PASS
  <2>1. /\ KeyOf(r, bs[i]) # Unknown
        /\ Judged(bs) \in Conclusive
        /\ Judged(bs) = PASS => Sure(bs)
    BY <1>1, <1>3, <1>5
  <2>2. i \in Group(r, bs, i)
    BY <1>5, <2>1 DEF Group, InPlay
  <2>3. Judged(bs) = PASS => Group(r, cs, i) = Group(r, bs, i) /\ Sure(cs)
    BY <2>1, GroupStands, CertainStands
  <2>4. Judged(cs) = Judged(bs)
    <3>1. CASE r.predicates[1].operator = "count_lte"
      <4>1. \A xs : Judged(xs) = CountLte(r, xs, Group(r, xs, i), i)
        BY <3>1
      <4>. HIDE DEF Judged
      <4>. QED BY <2>1, <2>2, <2>3, <3>1, <4>1, CountStands
    <3>2. CASE r.predicates[1].operator = "no_overlap"
      <4>1. \A xs : Judged(xs) = NoOverlap(r, xs, Group(r, xs, i), i)
        BY <3>2
      <4>. HIDE DEF Judged
      <4>. QED BY <2>1, <2>2, <2>3, <4>1, OverlapStands
    <3>3. CASE r.predicates[1].operator \notin {"count_lte", "no_overlap"}
      BY <1>3, <2>1, <3>3
    <3>. QED BY <3>1, <3>2, <3>3
  <2>. HIDE DEF Judged, Sure
  <2>5. Settled(r, cs[i]) = PASS /\ KeyOf(r, cs[i]) # Unknown
    BY <1>2, <1>3, <1>5, <2>1
  <2>. QED BY <1>1, <1>5, <2>1, <2>3, <2>4, <2>5
<1>. QED BY <1>4, <1>5

------------------------------------------------------------------------------
(* Every step makes the evidence better.                                    *)

EvidenceInv ==
  /\ IsFiniteSet(DOMAIN bundles)
  /\ \A i \in DOMAIN bundles : BundleOK(bundles[i])
  /\ rule.mode = "aggregate" /\ rule.predicates[1].operator = "count_lte" =>
       rule.predicates[1].value \in Int

LEMMA StandsByItself ==
  ASSUME NEW r
  PROVE  Stands(r, r)
BY DEF Stands

LEMMA BetterByItself ==
  ASSUME NEW b, BundleOK(b)
  PROVE  Better(b, b)
<1>1. HOLDS # UNSURE /\ FAILS # UNSURE
  BY DEF HOLDS, FAILS, UNSURE
<1>. QED BY <1>1, StandsByItself DEF Better, CollectionStands

\* A step touches one record's evidence, and makes it better.
Betters(i) ==
  /\ DOMAIN bundles' = DOMAIN bundles
  /\ \A k \in DOMAIN bundles \ {i} : bundles'[k] = bundles[k]
  /\ BundleOK(bundles'[i])
  /\ Better(bundles[i], bundles'[i])
  /\ rule' = rule

LEMMA LearnBetters ==
  ASSUME EvidenceInv, NEW i \in DOMAIN bundles, NEW f \in DOMAIN bundles[i].fields, Learn(i, f)
  PROVE  Betters(i)
<1> DEFINE b == bundles[i]
           c == bundles'[i]
<1>1. BundleOK(b)
  BY DEF EvidenceInv
<1>2. PICK v : bundles' = [bundles EXCEPT ![i].fields[f] = v]
  BY DEF Learn
<1>3. /\ DOMAIN bundles' = DOMAIN bundles
      /\ \A k \in DOMAIN bundles \ {i} : bundles'[k] = bundles[k]
      /\ c = [b EXCEPT !.fields = [b.fields EXCEPT ![f] = v]]
  BY <1>2
<1>4. /\ c.fields = [b.fields EXCEPT ![f] = v] /\ DOMAIN c = DOMAIN b
      /\ c.joins = b.joins /\ c.related = b.related
      /\ c.unplaced = b.unplaced /\ c.window = b.window
  BY <1>1, <1>3 DEF BundleOK
<1>5. b.fields[f] = Unknown
  BY DEF Learn
<1> HIDE DEF b, c
<1>6. Stands(b.fields, c.fields)
  BY <1>4, <1>5 DEF Stands
<1>7. \A e : Joined(c, e) = Joined(b, e)
  BY <1>4 DEF Joined
<1>8. Better(b, c)
  BY <1>1, <1>4, <1>6, <1>7, BetterByItself DEF Better, CollectionStands
<1>9. BundleOK(c)
  BY <1>1, <1>4, <1>7 DEF BundleOK
<1>10. rule' = rule
  BY DEF Learn
<1>. QED BY <1>3, <1>8, <1>9, <1>10 DEF Betters, b, c

LEMMA MatchBetters ==
  ASSUME EvidenceInv, NEW i \in DOMAIN bundles, NEW e \in DOMAIN bundles[i].joins, Match(i, e)
  PROVE  Betters(i)
<1> DEFINE b == bundles[i]
           c == bundles'[i]
<1>1. BundleOK(b)
  BY DEF EvidenceInv
<1>2. PICK v \in {HOLDS, FAILS} : bundles' = [bundles EXCEPT ![i].joins[e] = v]
  BY DEF Match
<1>3. /\ DOMAIN bundles' = DOMAIN bundles
      /\ \A k \in DOMAIN bundles \ {i} : bundles'[k] = bundles[k]
      /\ c = [b EXCEPT !.joins = [b.joins EXCEPT ![e] = v]]
  BY <1>2
<1>4. /\ c.joins = [b.joins EXCEPT ![e] = v] /\ DOMAIN c = DOMAIN b
      /\ c.fields = b.fields /\ c.related = b.related
      /\ c.unplaced = b.unplaced /\ c.window = b.window
  BY <1>1, <1>3 DEF BundleOK
<1>5. b.joins[e] = UNSURE /\ e \notin DOMAIN b.related /\ e \in DOMAIN b.joins
  BY DEF Match, IsCollection
<1> HIDE DEF b, c
<1>6. Joined(b, e) = UNSURE /\ Joined(c, e) \in {HOLDS, FAILS}
  BY <1>4, <1>5 DEF Joined
<1>7. \A x : x # e => Joined(c, x) = Joined(b, x)
  BY <1>4 DEF Joined
<1>8. HOLDS # UNSURE /\ FAILS # UNSURE
  BY DEF HOLDS, FAILS, UNSURE
<1>9. Better(b, c)
  BY <1>1, <1>4, <1>5, <1>6, <1>7, <1>8, StandsByItself DEF Better, CollectionStands
<1>10. BundleOK(c)
  <2>1. \A x \in DOMAIN c.joins : c.joins[x] \in {HOLDS, FAILS, UNSURE}
    BY <1>1, <1>4 DEF BundleOK
  <2>2. \A x \in DOMAIN c.related : Joined(c, x) = Joined(b, x)
    BY <1>4, <1>5, <1>7
  <2>. QED BY <1>1, <1>4, <2>1, <2>2 DEF BundleOK
<1>11. rule' = rule
  BY DEF Match
<1>. QED BY <1>3, <1>9, <1>10, <1>11 DEF Betters, b, c

LEMMA FetchBetters ==
  ASSUME EvidenceInv, NEW i \in DOMAIN bundles, NEW e \in DOMAIN bundles[i].joins, Fetch(i, e)
  PROVE  Betters(i)
<1> DEFINE b == bundles[i]
           c == bundles'[i]
<1>1. BundleOK(b)
  BY DEF EvidenceInv
<1>2. PICK found : bundles' = [bundles EXCEPT ![i].related[e] = found,
                                             ![i].joins[e] = Ruling(found # {})]
  BY DEF Fetch
<1>3. /\ DOMAIN bundles' = DOMAIN bundles
      /\ \A k \in DOMAIN bundles \ {i} : bundles'[k] = bundles[k]
      /\ c = [b EXCEPT !.related = [b.related EXCEPT ![e] = found],
                       !.joins = [b.joins EXCEPT ![e] = Ruling(found # {})]]
  BY <1>1, <1>2 DEF BundleOK
<1>4. /\ c.joins = [b.joins EXCEPT ![e] = Ruling(found # {})]
      /\ c.related = [b.related EXCEPT ![e] = found]
      /\ DOMAIN c = DOMAIN b
      /\ c.fields = b.fields /\ c.unplaced = b.unplaced /\ c.window = b.window
  BY <1>1, <1>3 DEF BundleOK
<1>5. b.joins[e] = UNSURE /\ e \in DOMAIN b.related /\ e \in DOMAIN b.joins
  BY DEF Fetch, IsCollection
<1> HIDE DEF b, c
<1>6. Joined(b, e) = UNSURE /\ Joined(c, e) = Ruling(found # {})
  BY <1>4, <1>5 DEF Joined
<1>7. \A x : x # e => Joined(c, x) = Joined(b, x)
  BY <1>4 DEF Joined
<1>8. HOLDS # UNSURE /\ FAILS # UNSURE /\ HOLDS # FAILS
  BY DEF HOLDS, FAILS, UNSURE
<1>9. \A x \in DOMAIN b.related : x # e => c.related[x] = b.related[x]
  BY <1>4
<1>10. Better(b, c)
  <2>1. \A x \in DOMAIN b.related : Joined(b, x) # UNSURE => CollectionStands(b, c, x)
    BY <1>4, <1>6, <1>9, StandsByItself DEF CollectionStands
  <2>2. DOMAIN c.related = DOMAIN b.related
    BY <1>4
  <2>. QED BY <1>4, <1>5, <1>6, <1>7, <1>8, <2>1, <2>2, StandsByItself DEF Better
<1>11. BundleOK(c)
  <2>1. \A x \in DOMAIN c.joins : c.joins[x] \in {HOLDS, FAILS, UNSURE}
    BY <1>1, <1>4 DEF BundleOK, Ruling
  <2>2. \A x \in DOMAIN c.related : Joined(c, x) = FAILS => c.related[x] = {}
    <3>1. Joined(c, e) = FAILS => c.related[e] = {}
      BY <1>4, <1>5, <1>6, <1>8 DEF Ruling
    <3>2. \A x \in DOMAIN b.related : x # e /\ Joined(c, x) = FAILS => c.related[x] = {}
      BY <1>1, <1>7, <1>9 DEF BundleOK
    <3>. QED BY <1>4, <3>1, <3>2
  <2>. QED BY <1>1, <1>4, <2>1, <2>2 DEF BundleOK
<1>12. rule' = rule
  BY DEF Fetch
<1>. QED BY <1>3, <1>10, <1>11, <1>12 DEF Betters, b, c

\* A record read better stands for the record it was.
LEMMA RereadStands ==
  ASSUME NEW r, NEW s \in Reread(r)
  PROVE  Stands(r, s)
BY DEF Reread, Stands

LEMMA LearnRelatedBetters ==
  ASSUME EvidenceInv, NEW i \in DOMAIN bundles, NEW e \in DOMAIN bundles[i].joins,
         LearnRelated(i, e)
  PROVE  Betters(i)
<1> DEFINE b == bundles[i]
           c == bundles'[i]
<1>1. BundleOK(b)
  BY DEF EvidenceInv
<1>2. e \in DOMAIN b.related /\ rule' = rule
  BY DEF LearnRelated, IsCollection
<1>3. PICK r \in b.related[e] : \E s \in Reread(r) :
        bundles' = [bundles EXCEPT ![i].related[e] = (@ \ {r}) \union {s}]
  BY DEF LearnRelated
<1>4. PICK s \in Reread(r) :
        bundles' = [bundles EXCEPT ![i].related[e] = (@ \ {r}) \union {s}]
  BY <1>3
<1>5. /\ DOMAIN bundles' = DOMAIN bundles
      /\ \A k \in DOMAIN bundles \ {i} : bundles'[k] = bundles[k]
      /\ c = [b EXCEPT !.related = [b.related EXCEPT ![e] = (b.related[e] \ {r}) \union {s}]]
  BY <1>4
<1>6. /\ c.related = [b.related EXCEPT ![e] = (b.related[e] \ {r}) \union {s}]
      /\ DOMAIN c = DOMAIN b /\ c.joins = b.joins
      /\ c.fields = b.fields /\ c.unplaced = b.unplaced /\ c.window = b.window
  BY <1>1, <1>5 DEF BundleOK
<1>7. Stands(r, s) /\ r \in b.related[e]
  BY <1>3, <1>4, RereadStands
<1> HIDE DEF b, c
<1>8. \A x : Joined(c, x) = Joined(b, x)
  BY <1>6 DEF Joined
<1>9. CollectionStands(b, c, e)
  <2>1. c.related[e] = (b.related[e] \ {r}) \union {s}
    BY <1>2, <1>6
  <2>2. \A y \in b.related[e] : \E z \in c.related[e] : Stands(y, z)
    BY <1>7, <2>1, StandsByItself
  <2>3. \A z \in c.related[e] : \E y \in b.related[e] : Stands(y, z)
    BY <1>7, <2>1, StandsByItself
  <2>. QED BY <1>6, <2>2, <2>3, StandsByItself DEF CollectionStands
<1>10. \A x \in DOMAIN b.related : x # e => c.related[x] = b.related[x]
  BY <1>6
<1>11. Better(b, c)
  <2>1. \A x \in DOMAIN b.related : CollectionStands(b, c, x)
    BY <1>6, <1>9, <1>10, StandsByItself DEF CollectionStands
  <2>2. DOMAIN c.related = DOMAIN b.related
    BY <1>6
  <2>3. HOLDS # UNSURE /\ FAILS # UNSURE
    BY DEF HOLDS, FAILS, UNSURE
  <2>. QED BY <1>6, <1>8, <2>1, <2>2, <2>3, StandsByItself DEF Better
<1>12. BundleOK(c)
  <2>1. \A x \in DOMAIN c.related : Joined(c, x) = FAILS => c.related[x] = {}
    BY <1>1, <1>6, <1>7, <1>8, <1>10 DEF BundleOK
  <2>. QED BY <1>1, <1>6, <2>1 DEF BundleOK
<1>. QED BY <1>2, <1>5, <1>11, <1>12 DEF Betters, b, c

LEMMA LearnUnplacedBetters ==
  ASSUME EvidenceInv, NEW i \in DOMAIN bundles, NEW e \in DOMAIN bundles[i].joins,
         LearnUnplaced(i, e)
  PROVE  Betters(i)
<1> DEFINE b == bundles[i]
           c == bundles'[i]
<1>1. BundleOK(b)
  BY DEF EvidenceInv
<1>2. e \in DOMAIN b.related /\ rule' = rule
  BY DEF LearnUnplaced, IsCollection
<1>3. PICK r \in b.unplaced[e] : \E s \in Reread(r) :
        bundles' = [bundles EXCEPT ![i].unplaced[e] = (@ \ {r}) \union {s}]
  BY DEF LearnUnplaced
<1>4. PICK s \in Reread(r) :
        bundles' = [bundles EXCEPT ![i].unplaced[e] = (@ \ {r}) \union {s}]
  BY <1>3
<1>5. /\ DOMAIN bundles' = DOMAIN bundles
      /\ \A k \in DOMAIN bundles \ {i} : bundles'[k] = bundles[k]
      /\ c = [b EXCEPT !.unplaced = [b.unplaced EXCEPT ![e] = (b.unplaced[e] \ {r}) \union {s}]]
  BY <1>4
<1>6. /\ c.unplaced = [b.unplaced EXCEPT ![e] = (b.unplaced[e] \ {r}) \union {s}]
      /\ DOMAIN c = DOMAIN b /\ c.joins = b.joins
      /\ c.fields = b.fields /\ c.related = b.related /\ c.window = b.window
  BY <1>1, <1>5 DEF BundleOK
<1>7. Stands(r, s) /\ r \in b.unplaced[e]
  BY <1>3, <1>4, RereadStands
<1> HIDE DEF b, c
<1>8. \A x : Joined(c, x) = Joined(b, x)
  BY <1>6 DEF Joined
<1>9. \A x \in DOMAIN b.related : CollectionStands(b, c, x)
  <2>1. \A x \in DOMAIN b.related : \A z \in c.unplaced[x] : \E y \in b.unplaced[x] : Stands(y, z)
    BY <1>1, <1>6, <1>7, StandsByItself DEF BundleOK
  <2>. QED BY <1>6, <2>1, StandsByItself DEF CollectionStands
<1>10. Better(b, c)
  <2>1. HOLDS # UNSURE /\ FAILS # UNSURE
    BY DEF HOLDS, FAILS, UNSURE
  <2>. QED BY <1>6, <1>8, <1>9, <2>1, StandsByItself DEF Better
<1>11. BundleOK(c)
  BY <1>1, <1>6, <1>8 DEF BundleOK
<1>. QED BY <1>2, <1>5, <1>10, <1>11 DEF Betters, b, c

LEMMA PlaceBetters ==
  ASSUME EvidenceInv, NEW i \in DOMAIN bundles, NEW e \in DOMAIN bundles[i].joins, Place(i, e)
  PROVE  Betters(i)
<1> DEFINE b == bundles[i]
           c == bundles'[i]
<1>1. BundleOK(b)
  BY DEF EvidenceInv
<1>2. e \in DOMAIN b.related /\ rule' = rule /\ b.joins[e] # UNSURE /\ e \in DOMAIN b.joins
  BY DEF Place, IsCollection
<1>3. PICK r \in b.unplaced[e] :
        \/ bundles' = [bundles EXCEPT ![i].unplaced[e] = @ \ {r}]
        \/ bundles' = [bundles EXCEPT ![i].unplaced[e] = @ \ {r},
                                     ![i].related[e] = @ \union {r}, ![i].joins[e] = HOLDS]
  BY DEF Place
<1>4. /\ DOMAIN bundles' = DOMAIN bundles
      /\ \A k \in DOMAIN bundles \ {i} : bundles'[k] = bundles[k]
      /\ \/ c = [b EXCEPT !.unplaced = [b.unplaced EXCEPT ![e] = b.unplaced[e] \ {r}]]
         \/ c = [b EXCEPT !.unplaced = [b.unplaced EXCEPT ![e] = b.unplaced[e] \ {r}],
                          !.related = [b.related EXCEPT ![e] = b.related[e] \union {r}],
                          !.joins = [b.joins EXCEPT ![e] = HOLDS]]
  BY <1>1, <1>3 DEF BundleOK
<1>5. /\ c.unplaced = [b.unplaced EXCEPT ![e] = b.unplaced[e] \ {r}]
      /\ DOMAIN c = DOMAIN b /\ c.fields = b.fields /\ c.window = b.window
      /\ \/ c.related = b.related /\ c.joins = b.joins
         \/ /\ c.related = [b.related EXCEPT ![e] = b.related[e] \union {r}]
            /\ c.joins = [b.joins EXCEPT ![e] = HOLDS]
  BY <1>1, <1>4 DEF BundleOK
<1>6. r \in b.unplaced[e]
  OBVIOUS
<1> HIDE DEF b, c
<1>7. \A x : x # e => Joined(c, x) = Joined(b, x)
  BY <1>5 DEF Joined
<1>8. Joined(b, e) # UNSURE /\ Joined(c, e) \in {Joined(b, e), HOLDS}
  BY <1>2, <1>5 DEF Joined
<1>9. HOLDS # UNSURE /\ FAILS # UNSURE /\ HOLDS # FAILS
  BY DEF HOLDS, FAILS, UNSURE
<1>10. \A x \in DOMAIN b.related :
         x # e => c.related[x] = b.related[x] /\ c.unplaced[x] = b.unplaced[x]
  BY <1>1, <1>5 DEF BundleOK
<1>11. CollectionStands(b, c, e)
  <2>1. c.unplaced[e] = b.unplaced[e] \ {r}
    BY <1>1, <1>2, <1>5 DEF BundleOK
  <2>2. c.related[e] = b.related[e] \/ c.related[e] = b.related[e] \union {r}
    BY <1>2, <1>5
  <2>. QED BY <1>6, <2>1, <2>2, StandsByItself DEF CollectionStands
<1>12. DOMAIN c.related = DOMAIN b.related /\ DOMAIN c.unplaced = DOMAIN b.unplaced
  BY <1>5
<1>13. Better(b, c)
  <2>1. \A x \in DOMAIN b.related : CollectionStands(b, c, x)
    BY <1>10, <1>11, StandsByItself DEF CollectionStands
  <2>. QED BY <1>2, <1>5, <1>7, <1>8, <1>9, <1>12, <2>1, StandsByItself DEF Better
<1>14. BundleOK(c)
  <2>1. \A x \in DOMAIN c.related : Joined(c, x) = FAILS => c.related[x] = {}
    <3>1. Joined(c, e) = FAILS => c.related[e] = {}
      <4>1. Joined(c, e) = FAILS => c.joins[e] # HOLDS
        BY <1>9 DEF Joined
      <4>2. Joined(c, e) = FAILS => c.related = b.related /\ Joined(b, e) = FAILS
        BY <1>2, <1>5, <1>8, <1>9, <4>1
      <4>. QED BY <1>1, <1>2, <4>2 DEF BundleOK
    <3>2. \A x \in DOMAIN b.related : x # e /\ Joined(c, x) = FAILS => c.related[x] = {}
      BY <1>1, <1>7, <1>10 DEF BundleOK
    <3>. QED BY <1>12, <3>1, <3>2
  <2>2. \A x \in DOMAIN c.joins : c.joins[x] \in {HOLDS, FAILS, UNSURE}
    BY <1>1, <1>5 DEF BundleOK
  <2>. QED BY <1>1, <1>5, <1>12, <2>1, <2>2 DEF BundleOK
<1>. QED BY <1>2, <1>4, <1>13, <1>14 DEF Betters, b, c

LEMMA NextBetters ==
  ASSUME EvidenceInv, Next
  PROVE  \E i \in DOMAIN bundles : Betters(i)
<1>1. PICK i \in DOMAIN bundles :
        \/ \E f \in DOMAIN bundles[i].fields : Learn(i, f)
        \/ \E e \in DOMAIN bundles[i].joins :
             Match(i, e) \/ Fetch(i, e) \/ LearnRelated(i, e) \/ LearnUnplaced(i, e) \/ Place(i, e)
  BY DEF Next
<1>. QED BY <1>1, LearnBetters, MatchBetters, FetchBetters, LearnRelatedBetters,
            LearnUnplacedBetters, PlaceBetters

\* The evidence stays well formed, of a finite population.
LEMMA EvidenceInvHolds == Spec => []EvidenceInv
<1>1. Init => EvidenceInv
  BY CasesAssumption DEF Init, EvidenceInv
<1>2. EvidenceInv /\ [Next]_vars => EvidenceInv'
  <2>1. CASE EvidenceInv /\ Next
    BY <2>1, NextBetters DEF Betters, EvidenceInv
  <2>2. CASE EvidenceInv /\ UNCHANGED vars
    BY <2>2 DEF vars, EvidenceInv
  <2>. QED BY <2>1, <2>2
<1>. QED BY <1>1, <1>2, PTL DEF Spec

\* A step that gives no record the key it is grouped by keeps every conclusion.
LEMMA StepStands ==
  ASSUME EvidenceInv, Next, ~KeyEstablished, NEW i \in DOMAIN bundles,
         Verdict[i] \in Conclusive
  PROVE  Verdict'[i] = Verdict[i]
<1>1. PICK k \in DOMAIN bundles : Betters(k)
  BY NextBetters
<1>2. /\ rule' = rule /\ DOMAIN bundles' = DOMAIN bundles
      /\ \A j \in DOMAIN bundles :
           BundleOK(bundles[j]) /\ BundleOK(bundles'[j]) /\ Better(bundles[j], bundles'[j])
  BY <1>1, BetterByItself DEF Betters, EvidenceInv
<1>3. Verdict[i] = IF rule.mode = "aggregate" THEN OfGrouped(rule, bundles, i)
                   ELSE OfRecord(rule, bundles[i])
  BY DEF Verdict, Verdicts
<1>4. Verdict'[i] = IF rule.mode = "aggregate" THEN OfGrouped(rule, bundles', i)
                    ELSE OfRecord(rule, bundles'[i])
  BY <1>2 DEF Verdict, Verdicts
<1>5. CASE rule.mode = "aggregate"
  <2>1. Improved(rule, bundles, bundles')
    BY <1>2, <1>5 DEF Improved, EvidenceInv, KeyEstablished
  <2>. QED BY <1>3, <1>4, <1>5, <2>1, GroupedStands DEF EvidenceInv
<1>6. CASE rule.mode # "aggregate"
  BY <1>2, <1>3, <1>4, <1>6, RecordStands
<1>. QED BY <1>5, <1>6

\* A verdict once concluded is the verdict on any better evidence of the same hotel,
\* whatever the rule, its operators and its mode: what could not be read was weighed
\* whichever way it might turn out (hotelcontrols/evaluator).
THEOREM ConclusionsAlwaysStand == Spec => ConclusionsStand
<1>1. EvidenceInv /\ [Next]_vars =>
        [KeyEstablished \/
           LET before == Verdict
               after  == Verdict'
           IN  \A i \in DOMAIN bundles : before[i] \in Conclusive => after[i] = before[i]]_vars
  BY StepStands
<1>. QED BY <1>1, EvidenceInvHolds, PTL DEF Spec, ConclusionsStand

------------------------------------------------------------------------------
(* The clauses of the shipped rules, on the evidence of a hotel.            *)

\* The fields are different things, of the entities they are named after.
LEMMA FieldsAre ==
  /\ EntityOf(STATUS) = "reservation" /\ EntityOf(ADULTS) = "reservation"
  /\ EntityOf(CHANNELID) = "reservation" /\ EntityOf(ID) = "reservation"
  /\ EntityOf(BALANCE) = "folio" /\ EntityOf(ASSIGNED) = "stay" /\ EntityOf(BOOKEDTYPE) = "stay"
  /\ EntityOf(MAXADULTS) = "room" /\ EntityOf(ROOMNUMBER) = "room" /\ EntityOf(ROOMTYPE) = "room"
  /\ EntityOf(CLOSEDFROM) = "room" /\ EntityOf(CLOSEDTO) = "room"
  /\ EntityOf(ROOMTYPES) = "room_type"
  /\ EntityOf(SEGROOM) = "occupancy" /\ EntityOf(SEGID) = "occupancy"
  /\ EntityOf(SEGFROM) = "occupancy" /\ EntityOf(SEGTO) = "occupancy"
  /\ EntityOf(SEGSTATUS) = "occupancy"
BY DEF EntityOf, STATUS, BALANCE, ADULTS, ASSIGNED, MAXADULTS, ROOMNUMBER, ROOMTYPE, BOOKEDTYPE,
       ROOMTYPES, CLOSEDFROM, CLOSEDTO, CHANNELID, ID, SEGROOM, SEGID, SEGFROM, SEGTO, SEGSTATUS

\* What a reading is, by its field.
LEMMA Readable ==
  /\ Unknown # Absent
  /\ \A n, u : Read(Known(n, u)) /\ Known(n, u).payload = n /\ Known(n, u).unit = u
  /\ \A members : Read(SetOf(members)) /\ SetOf(members).members = members
BY DEF Unknown, Absent, Read, Known, SetOf

\* A reading of a field, when it is not an absence, is of the field's type.
LEMMA ReadingIs ==
  ASSUME NEW f, NEW v, IsReading(f, v)
  PROVE  /\ f \in {STATUS, ROOMTYPE, BOOKEDTYPE, ID, SEGROOM, SEGID, SEGSTATUS} =>
              v = Text(v.payload) /\ v.payload \in Int
         /\ f \in COUNTS => v = Known(v.payload, "count") /\ v.payload \in Int
         /\ f = BALANCE => v = Known(v.payload, v.unit) /\ v.payload \in Int
         /\ f = ROOMTYPES => v = SetOf(v.members)
         /\ f \in DATES /\ v # Absent => v = Known(v.payload, DATE) /\ v.payload \in Days
         /\ f \in {SEGFROM, SEGTO} => v # Absent
<1>. DEFINE texts == {STATUS, ROOMTYPE, BOOKEDTYPE, ID, SEGROOM, SEGID, SEGSTATUS}
<1>1. /\ f \in texts => f \notin NULLABLE \cup DATES \cup COUNTS /\ f # ROOMTYPES /\ f # BALANCE
      /\ f \in COUNTS => f \notin NULLABLE \cup DATES \cup TEXTS /\ f # ROOMTYPES /\ f # BALANCE
      /\ f = BALANCE => f \notin NULLABLE \cup DATES \cup TEXTS \cup COUNTS /\ f # ROOMTYPES
      /\ f = ROOMTYPES => f \notin NULLABLE \cup DATES \cup TEXTS \cup COUNTS /\ f # BALANCE
      /\ f \in DATES => f \notin TEXTS \cup COUNTS /\ f # ROOMTYPES /\ f # BALANCE
      /\ f \in {SEGFROM, SEGTO} => f \notin NULLABLE /\ f \in DATES
  BY DEF TEXTS, NULLABLE, DATES, COUNTS, STATUS, BALANCE, ADULTS, ASSIGNED, MAXADULTS, ROOMNUMBER,
         ROOMTYPE, BOOKEDTYPE, ROOMTYPES, CLOSEDFROM, CLOSEDTO, CHANNELID, ID, SEGROOM, SEGID, SEGFROM,
         SEGTO, SEGSTATUS
<1>. HIDE DEF texts
<1>2. ASSUME v = Absent PROVE f \in NULLABLE
  BY <1>2, Readable DEF IsReading, Read
<1>3. v # Absent =>
        \/ v = SetOf(v.members) /\ f = ROOMTYPES
        \/ /\ v = Known(v.payload, v.unit) /\ v.payload \in Int
           /\ \/ f \in DATES /\ v.unit = DATE /\ v.payload \in Days
              \/ f \in COUNTS /\ v.unit = "count"
              \/ f \in TEXTS /\ v.unit = "text"
              \/ f = BALANCE /\ v.unit # BARE
  BY DEF IsReading
<1>. QED BY <1>1, <1>2, <1>3 DEF texts, Text

\* What the clauses of the rules say of a reading.
LEMMA ExistsSays ==
  ASSUME NEW b, NEW f \in DOMAIN b.fields, EntityOf(f) \notin DOMAIN b.related
  PROVE  LET v   == b.fields[f]
             yes == Evaluate(Clause(f, "exists"), b)
             no  == Evaluate(Clause(f, "not_exists"), b)
         IN  /\ v = Unknown => yes = UNSURE /\ no = UNSURE
             /\ v = Absent => yes = FAILS /\ no = HOLDS
             /\ Read(v) => yes = HOLDS /\ no = FAILS
<1>. DEFINE p(operator) == Clause(f, operator)
<1>1. ASSUME NEW operator
      PROVE  /\ p(operator).field = f /\ p(operator).operator = operator
             /\ Operands(p(operator)) = {f} /\ ~Unsupplied(p(operator))
  BY DEF Clause, Operands, Unsupplied
<1>2. \A operator : ~ReadsCollection(p(operator), b)
  BY <1>1 DEF ReadsCollection, Entities
<1>. HIDE DEF p
<1>3. /\ Evaluate(p("exists"), b) = Exists(b.fields[f])
      /\ Evaluate(p("not_exists"), b) = Opposite(Exists(b.fields[f]))
  BY <1>1, <1>2, EvaluateByOperator DEF Field
<1>. QED BY <1>3, Readable DEF p, Exists, Opposite, Ruling, Read, HOLDS, FAILS, UNSURE

\* A code equals a literal, or does not, once it is read.
LEMMA EqualsSays ==
  ASSUME NEW b, NEW f \in DOMAIN b.fields, EntityOf(f) \notin DOMAIN b.related, NEW n \in Int \ {0},
         b.fields[f] # Unknown => b.fields[f] = Text(b.fields[f].payload) /\ b.fields[f].payload \in Int
  PROVE  LET v   == b.fields[f]
             yes == Evaluate(Against(f, "equals", Text(n)), b)
             no  == Evaluate(Against(f, "not_equals", Text(n)), b)
         IN  /\ v = Unknown => yes = UNSURE /\ no = UNSURE
             /\ v # Unknown => /\ Read(v)
                               /\ yes = Ruling(v = Text(n)) /\ no = Ruling(v # Text(n))
<1>. DEFINE p(operator) == Against(f, operator, Text(n))
            v == b.fields[f]
<1>1. ASSUME NEW operator
      PROVE  /\ p(operator).field = f /\ p(operator).operator = operator
             /\ Operands(p(operator)) = {f}
             /\ RightOf(p(operator), b) = Text(n) /\ ~Unsupplied(p(operator))
  BY Readable DEF Against, Operands, Unsupplied, RightOf, Text, Read
<1>2. \A operator : ~ReadsCollection(p(operator), b)
  BY <1>1 DEF ReadsCollection, Entities
<1>. HIDE DEF p
<1>3. /\ Evaluate(p("equals"), b) = Equals(v, Text(n))
      /\ Evaluate(p("not_equals"), b) = Opposite(Equals(v, Text(n)))
  BY <1>1, <1>2, EvaluateByOperator DEF Field
<1>4. v # Unknown => Read(v) /\ Equals(v, Text(n)) = Ruling(v = Text(n))
  <2>1. Read(Text(n)) /\ Text(n).payload = n /\ Text(n).unit = "text"
    BY Readable DEF Text
  <2>2. ASSUME v # Unknown
        PROVE  Read(v) /\ v.unit = "text" /\ (v.payload = n <=> v = Text(n))
    BY <2>1, <2>2, Readable DEF Text
  <2>. QED BY <2>1, <2>2 DEF Equals, Comparable, Read
<1>5. v = Unknown => Equals(v, Text(n)) = UNSURE
  BY DEF Equals
<1>. QED BY <1>3, <1>4, <1>5 DEF p, Opposite, Ruling, HOLDS, FAILS, UNSURE

\* A record is beyond a literal limit, or within it.
LEMMA AtMostSays ==
  ASSUME NEW b, BALANCE \in DOMAIN b.fields, EntityOf(BALANCE) \notin DOMAIN b.related,
         b.fields[BALANCE] = Unknown \/ IsReading(BALANCE, b.fields[BALANCE])
  PROVE  LET v == b.fields[BALANCE]
             r == Evaluate(Against(BALANCE, "lte", Known(0, BARE)), b)
         IN  /\ v = Unknown => r = UNSURE
             /\ v # Unknown => Read(v) /\ r = Ruling(~(v.payload > 0))
<1>. DEFINE p == Against(BALANCE, "lte", Known(0, BARE))
            v == b.fields[BALANCE]
<1>1. /\ p.field = BALANCE /\ p.operator = "lte" /\ p.absent = UNSURE /\ Operands(p) = {BALANCE}
      /\ RightOf(p, b) = Known(0, BARE) /\ ~Unsupplied(p)
  BY Readable DEF Against, Operands, Unsupplied, RightOf, Read
<1>2. ~ReadsCollection(p, b)
  BY <1>1 DEF ReadsCollection, Entities
<1>. HIDE DEF p
<1>3. Evaluate(p, b) = Ordered("lte", v, Known(0, BARE), UNSURE)
  BY <1>1, <1>2, EvaluateByOperator DEF Field, ORDERINGS
<1>4. ASSUME v # Unknown PROVE Read(v) /\ v.payload \in Int
  BY <1>4, ReadingIs, Readable
<1>5. Comparable(v, Known(0, BARE)) /\ Known(0, BARE).payload = 0 /\ Known(0, BARE) # Unknown
  BY Readable DEF Comparable, IsZero, Read
<1>6. v # Unknown => Ordered("lte", v, Known(0, BARE), UNSURE) = Ruling(v.payload <= 0)
  BY <1>4, <1>5 DEF Ordered, Read
<1>7. v = Unknown => Ordered("lte", v, Known(0, BARE), UNSURE) = UNSURE
  BY Readable DEF Ordered
<1>. QED BY <1>3, <1>4, <1>6, <1>7 DEF p, Ruling

\* A record beside another field of it.
LEMMA BesideSays ==
  ASSUME NEW b, NEW f \in DOMAIN b.fields, NEW g \in DOMAIN b.fields, DOMAIN b.related = {}
  PROVE  LET v == b.fields[f]
             w == b.fields[g]
         IN  /\ Evaluate(Beside(f, "lte", g), b) = Ordered("lte", v, w, UNSURE)
             /\ Evaluate(Beside(f, "in", g), b) = Among(v, w)
             /\ Evaluate(Beside(f, "matches_ignore_case", g), b) = Equals(v, w)
<1>. DEFINE p(operator) == Beside(f, operator, g)
<1>1. ASSUME NEW operator
      PROVE  /\ p(operator).field = f /\ p(operator).operator = operator
             /\ p(operator).absent = UNSURE
             /\ Operands(p(operator)) = {f, g}
             /\ RightOf(p(operator), b) = b.fields[g] /\ ~Unsupplied(p(operator))
  BY DEF Beside, Operands, Unsupplied, RightOf, Field
<1>2. \A operator : ~ReadsCollection(p(operator), b)
  BY DEF ReadsCollection
<1>. HIDE DEF p
<1>3. /\ Evaluate(p("lte"), b) = Ordered("lte", b.fields[f], b.fields[g], UNSURE)
      /\ Evaluate(p("in"), b) = Among(b.fields[f], b.fields[g])
      /\ Evaluate(p("matches_ignore_case"), b) = Equals(b.fields[f], b.fields[g])
  BY <1>1, <1>2, EvaluateByOperator DEF Field, ORDERINGS
<1>. QED BY <1>3 DEF p

\* The guests of a booking against what its room holds.
LEMMA CountsCompare ==
  ASSUME NEW v, NEW w, v = Unknown \/ IsReading(ADULTS, v), w = Unknown \/ IsReading(MAXADULTS, w)
  PROVE  /\ Unknown \in {v, w} => Ordered("lte", v, w, UNSURE) = UNSURE
         /\ Unknown \notin {v, w} =>
              Read(v) /\ Read(w) /\ Ordered("lte", v, w, UNSURE) = Ruling(~(v.payload > w.payload))
<1>1. \A x \in {v, w} : x # Unknown => Read(x) /\ x.payload \in Int /\ x.unit = "count"
  BY ReadingIs, Readable DEF COUNTS
<1>. QED BY <1>1, Readable DEF Ordered, Comparable, Read, Ruling

\* The type that was booked against the type of the room.
LEMMA TypesCompare ==
  ASSUME NEW v, NEW w, v = Unknown \/ IsReading(ROOMTYPE, v),
         w = Unknown \/ IsReading(BOOKEDTYPE, w)
  PROVE  /\ Unknown \in {v, w} => Equals(w, v) = UNSURE
         /\ Unknown \notin {v, w} =>
              Read(v) /\ Read(w) /\ Equals(w, v) = Ruling(v.payload = w.payload)
<1>1. \A x \in {v, w} : x # Unknown => Read(x) /\ x.payload \in Int /\ x.unit = "text"
  BY ReadingIs, Readable DEF Text
<1>. QED BY <1>1, Readable DEF Equals, Comparable, Read, Ruling

\* The type of the room against the types the hotel has.
LEMMA TypesInclude ==
  ASSUME NEW v, NEW w, v = Unknown \/ IsReading(ROOMTYPE, v), w = Unknown \/ IsReading(ROOMTYPES, w)
  PROVE  /\ Unknown \in {v, w} => Among(v, w) = UNSURE
         /\ Unknown \notin {v, w} =>
              Read(v) /\ Read(w) /\ Among(v, w) = Ruling(v.payload \in w.members)
<1>1. /\ v # Unknown => Read(v)
      /\ w # Unknown => Read(w)
  BY ReadingIs, Readable DEF Text
<1>. QED BY <1>1 DEF Among, Read

\* Whether the room a stay is given exists.
LEMMA ReferenceSays ==
  ASSUME NEW b, ROOMNUMBER \in DOMAIN b.fields, DOMAIN b.related = {}
  PROVE  Evaluate(Clause(ROOMNUMBER, "reference_exists"), b) = Joined(b, "room")
<1>. DEFINE p == Clause(ROOMNUMBER, "reference_exists")
<1>1. /\ p.field = ROOMNUMBER /\ p.operator = "reference_exists"
      /\ Operands(p) = {ROOMNUMBER} /\ ~Unsupplied(p)
  BY DEF Clause, Operands, Unsupplied
<1>2. ~ReadsCollection(p, b)
  BY DEF ReadsCollection
<1>. HIDE DEF p
<1>3. Evaluate(p, b) = Joined(b, EntityOf(ROOMNUMBER))
  BY <1>1, <1>2, EvaluateByOperator
<1>. QED BY <1>3, FieldsAre DEF p

------------------------------------------------------------------------------
(* Rules about one record by itself.                                        *)

\* The clauses of short lists.
LEMMA ResultsOf ==
  /\ \A b : Results(<<>>, b) = {}
  /\ \A b, p : Results(<<p>>, b) = {Evaluate(p, b)}
  /\ \A b, p, q : Results(<<p, q>>, b) = {Evaluate(p, b), Evaluate(q, b)}
  /\ \A b, p, q, r :
       Results(<<p, q, r>>, b) = {Evaluate(p, b), Evaluate(q, b), Evaluate(r, b)}
<1>1. ASSUME NEW b PROVE Results(<<>>, b) = {}
  BY DEF Results
<1>2. ASSUME NEW b, NEW p PROVE Results(<<p>>, b) = {Evaluate(p, b)}
  <2>1. DOMAIN <<p>> = {1}
    OBVIOUS
  <2>. QED BY <2>1 DEF Results
<1>3. ASSUME NEW b, NEW p, NEW q
      PROVE  Results(<<p, q>>, b) = {Evaluate(p, b), Evaluate(q, b)}
  <2>1. DOMAIN <<p, q>> = {1, 2}
    OBVIOUS
  <2>. QED BY <2>1 DEF Results
<1>4. ASSUME NEW b, NEW p, NEW q, NEW r
      PROVE  Results(<<p, q, r>>, b) = {Evaluate(p, b), Evaluate(q, b), Evaluate(r, b)}
  <2>1. DOMAIN <<p, q, r>> = {1, 2, 3}
    OBVIOUS
  <2>. QED BY <2>1 DEF Results
<1>. QED BY <1>1, <1>2, <1>3, <1>4, Zenon

\* What is known of every record.
Whole(b) ==
  /\ \A f \in DOMAIN b.fields : b.fields[f] # Unknown
  /\ \A e \in DOMAIN b.joins : b.joins[e] # UNSURE

\* Money owed: a guest who left with a balance.
LEMMA MoneyOwedSays ==
  ASSUME rule = MoneyOwed, NEW i \in DOMAIN bundles,
         EvidenceOK(rule, bundles[i])
  PROVE  /\ Verdict[i] = FAIL => Wrong(i)
         /\ Whole(bundles[i]) =>
              Verdict[i] = IF ~Concerns(i) THEN EXCLUDED ELSE IF Wrong(i) THEN FAIL ELSE PASS
<1>. DEFINE b == bundles[i]
            c == Against(STATUS, "equals", CHECKEDOUT)
            d == Against(BALANCE, "lte", Known(0, BARE))
<1>1. /\ rule.control = "checkout_money_owed" /\ rule.scope = <<c>> /\ rule.exceptions = <<>>
      /\ rule.mode = "all" /\ rule.predicates = <<d>>
  BY DEF MoneyOwed, Rule
<1>2. STATUS \in DOMAIN b.fields /\ BALANCE \in DOMAIN b.fields
  <2>1. c \in ToSet(rule.scope) /\ d \in ToSet(rule.predicates)
    BY <1>1 DEF ToSet
  <2>2. Operands(c) \subseteq DOMAIN b.fields /\ Operands(d) \subseteq DOMAIN b.fields
    BY <2>1 DEF EvidenceOK
  <2>. QED BY <2>2 DEF Operands, Against
<1>3. DOMAIN b.related = {}
  <2>1. MoneyOwed # ClosedRoom
    BY DEF MoneyOwed, ClosedRoom, Rule
  <2>. QED BY <2>1 DEF EvidenceOK
<1>4. RecordOK(b.fields)
  BY DEF EvidenceOK
<1>. DEFINE s == b.fields[STATUS]
            m == b.fields[BALANCE]
<1>5. /\ s = Unknown => Evaluate(c, b) = UNSURE
      /\ s # Unknown => Evaluate(c, b) = Ruling(s = CHECKEDOUT)
  <2>1. s # Unknown => s = Text(s.payload) /\ s.payload \in Int
    BY <1>2, <1>4, ReadingIs DEF RecordOK
  <2>. HIDE DEF b
  <2>. QED BY <1>2, <1>3, <2>1, EqualsSays DEF CHECKEDOUT
<1>6. /\ m = Unknown => Evaluate(d, b) = UNSURE
      /\ m # Unknown => Read(m) /\ Evaluate(d, b) = Ruling(~(m.payload > 0))
  BY <1>2, <1>3, <1>4, AtMostSays DEF RecordOK
<1>7. Verdict[i] = OfRecord(rule, b)
  BY <1>1 DEF Verdict, Verdicts
<1>8. Results(rule.scope, b) = {Evaluate(c, b)} /\ Results(rule.exceptions, b) = {}
      /\ Results(rule.predicates, b) = {Evaluate(d, b)}
  BY <1>1, ResultsOf
<1>9. /\ Concerns(i) <=> s = CHECKEDOUT
      /\ Wrong(i) <=> s = CHECKEDOUT /\ Read(m) /\ m.payload > 0
  BY <1>1 DEF Concerns, Wrong, MoneyOwed, Rule, Reading, Capacity, InactiveRoom, TypeValidity,
              Duplicates, Occupancy, ClosedRoom, Grouped
<1>. HIDE DEF b, c, d, s, m
<1>10. OfRecord(rule, b) =
         IF Evaluate(c, b) = FAILS THEN EXCLUDED
         ELSE IF Evaluate(c, b) = UNSURE THEN UNKNOWN
         ELSE IF Evaluate(d, b) = FAILS THEN FAIL
         ELSE IF Evaluate(d, b) = UNSURE THEN UNKNOWN ELSE PASS
  BY <1>1, <1>8 DEF OfRecord, Admitted, Combine, PASS, FAIL, UNKNOWN, EXCLUDED
<1>. QED BY <1>2, <1>5, <1>6, <1>7, <1>9, <1>10
           DEF Ruling, HOLDS, FAILS, UNSURE, PASS, FAIL, UNKNOWN, EXCLUDED, Whole, b, s, m

\* Whether a stay is looked at: it is not cancelled, and has a room.
STAYS == <<Against(STATUS, "not_equals", CANCELLED), Clause(ASSIGNED, "exists")>>

\* The clauses let through the stays the rule concerns, and no other.
LEMMA StaysAdmitted ==
  ASSUME NEW r, r.scope = STAYS, r.exceptions = <<>>, NEW b, DOMAIN b.related = {},
         RecordOK(b.fields), STATUS \in DOMAIN b.fields, ASSIGNED \in DOMAIN b.fields
  PROVE  LET s == b.fields[STATUS]
             concerned == Read(s) /\ s # CANCELLED /\ Read(b.fields[ASSIGNED])
         IN  /\ Admitted(r, b) \in {PASS, EXCLUDED, UNKNOWN}
             /\ Admitted(r, b) = PASS => concerned
             /\ s # Unknown /\ b.fields[ASSIGNED] # Unknown =>
                  Admitted(r, b) = IF concerned THEN PASS ELSE EXCLUDED
<1>. DEFINE c == Against(STATUS, "not_equals", CANCELLED)
            d == Clause(ASSIGNED, "exists")
            s == b.fields[STATUS]
            a == b.fields[ASSIGNED]
<1>1. /\ s = Unknown => Evaluate(c, b) = UNSURE
      /\ s # Unknown => Read(s) /\ Evaluate(c, b) = Ruling(s # CANCELLED)
  <2>1. s # Unknown => s = Text(s.payload) /\ s.payload \in Int
    BY ReadingIs DEF RecordOK
  <2>. QED BY <2>1, EqualsSays DEF CANCELLED
<1>2. /\ a = Unknown => Evaluate(d, b) = UNSURE
      /\ a = Absent => Evaluate(d, b) = FAILS
      /\ Read(a) => Evaluate(d, b) = HOLDS
  BY ExistsSays
<1>3. Results(r.scope, b) = {Evaluate(c, b), Evaluate(d, b)} /\ Results(r.exceptions, b) = {}
  <2>1. r.scope = <<c, d>>
    BY DEF STAYS
  <2>. HIDE DEF c, d
  <2>. QED BY <2>1, ResultsOf
<1>. HIDE DEF c, d, s, a
<1>4. Admitted(r, b) =
        IF FAILS \in {Evaluate(c, b), Evaluate(d, b)} THEN EXCLUDED
        ELSE IF UNSURE \in {Evaluate(c, b), Evaluate(d, b)} THEN UNKNOWN ELSE PASS
  BY <1>3 DEF Admitted
<1>5. a = Unknown \/ a = Absent \/ Read(a)
  BY DEF Read
<1>6. /\ Evaluate(c, b) \in {HOLDS, FAILS, UNSURE} /\ Evaluate(d, b) \in {HOLDS, FAILS, UNSURE}
      /\ Evaluate(c, b) = HOLDS => Read(s) /\ s # CANCELLED
      /\ Evaluate(d, b) = HOLDS => Read(a)
      /\ s # Unknown => Evaluate(c, b) # UNSURE
      /\ a # Unknown => Evaluate(d, b) # UNSURE
  BY <1>1, <1>2, <1>5 DEF Ruling, HOLDS, FAILS, UNSURE
<1>7. /\ Read(s) /\ s # CANCELLED => Evaluate(c, b) # FAILS
      /\ Read(a) => Evaluate(d, b) # FAILS
  BY <1>1, <1>2, <1>5, Readable DEF Ruling, Read, HOLDS, FAILS, UNSURE
<1>. QED BY <1>4, <1>6, <1>7 DEF s, a, HOLDS, FAILS, UNSURE, PASS, EXCLUDED, UNKNOWN

\* Under mode `all` one failure convicts, and one doubt keeps from clearing.
LEMMA AllSays ==
  ASSUME NEW r, r.mode = "all", NEW b
  PROVE  OfRecord(r, b) = IF Admitted(r, b) # PASS THEN Admitted(r, b)
                          ELSE LET results == Results(r.predicates, b) IN
                               IF FAILS \in results THEN FAIL
                               ELSE IF UNSURE \in results THEN UNKNOWN ELSE PASS
BY DEF OfRecord, Combine

\* What a rule about stays is given.
LEMMA StaysRead ==
  ASSUME NEW i \in DOMAIN bundles, rule \in {Capacity, InactiveRoom, TypeValidity},
         EvidenceOK(rule, bundles[i])
  PROVE  LET b == bundles[i]
         IN  /\ DOMAIN b.related = {} /\ RecordOK(b.fields)
             /\ STATUS \in DOMAIN b.fields /\ ASSIGNED \in DOMAIN b.fields
             /\ rule.scope = STAYS /\ rule.exceptions = <<>> /\ rule.mode = "all"
             /\ Verdict[i] = OfRecord(rule, b)
             /\ Concerns(i) <=> /\ Read(b.fields[STATUS]) /\ b.fields[STATUS] # CANCELLED
                                /\ Read(b.fields[ASSIGNED])
<1>. DEFINE b == bundles[i]
<1>1. rule.scope = STAYS /\ rule.exceptions = <<>> /\ rule.mode = "all"
  BY DEF Capacity, InactiveRoom, TypeValidity, Rule, STAYS
<1>2. rule # ClosedRoom
  BY DEF Capacity, InactiveRoom, TypeValidity, ClosedRoom, Rule
<1>3. STATUS \in DOMAIN b.fields /\ ASSIGNED \in DOMAIN b.fields
  <2>. DEFINE c == Against(STATUS, "not_equals", CANCELLED)
              d == Clause(ASSIGNED, "exists")
  <2>1. c \in ToSet(rule.scope) /\ d \in ToSet(rule.scope)
    BY <1>1 DEF ToSet, STAYS
  <2>2. Operands(c) \subseteq DOMAIN b.fields /\ Operands(d) \subseteq DOMAIN b.fields
    BY <2>1 DEF EvidenceOK
  <2>. QED BY <2>2 DEF Operands, Against, Clause
<1>4. Verdict[i] = OfRecord(rule, b)
  BY <1>1 DEF Verdict, Verdicts
<1>5. Concerns(i) <=> /\ Read(b.fields[STATUS]) /\ b.fields[STATUS] # CANCELLED
                      /\ Read(b.fields[ASSIGNED])
  <2>1. /\ rule.control # MoneyOwed.control
        /\ rule.control \in {Capacity.control, InactiveRoom.control, TypeValidity.control}
    BY DEF MoneyOwed, Capacity, InactiveRoom, TypeValidity, Rule
  <2>2. /\ rule.control # Duplicates.control /\ rule.control # Occupancy.control
        /\ rule.control # ClosedRoom.control
    BY DEF Capacity, InactiveRoom, TypeValidity, Duplicates, Occupancy, ClosedRoom, Rule, Grouped
  <2>. QED BY <2>1, <2>2 DEF Concerns, Active, Reading
<1>6. DOMAIN b.related = {} /\ RecordOK(b.fields)
  BY <1>2 DEF EvidenceOK
<1>. QED BY <1>1, <1>3, <1>4, <1>5, <1>6, Zenon

\* Capacity: more guests than the room holds.
LEMMA CapacitySays ==
  ASSUME rule = Capacity, NEW i \in DOMAIN bundles, EvidenceOK(rule, bundles[i])
  PROVE  /\ Verdict[i] = FAIL => Wrong(i)
         /\ Whole(bundles[i]) =>
              Verdict[i] = IF ~Concerns(i) THEN EXCLUDED ELSE IF Wrong(i) THEN FAIL ELSE PASS
<1>. DEFINE b == bundles[i]
            d == Beside(ADULTS, "lte", MAXADULTS)
            v == b.fields[ADULTS]
            w == b.fields[MAXADULTS]
<1>1. rule.control = "room_capacity_compliance" /\ rule.predicates = <<d>>
  BY DEF Capacity, Rule
<1>2. /\ DOMAIN b.related = {} /\ RecordOK(b.fields)
      /\ STATUS \in DOMAIN b.fields /\ ASSIGNED \in DOMAIN b.fields
      /\ rule.scope = STAYS /\ rule.exceptions = <<>> /\ rule.mode = "all"
      /\ Verdict[i] = OfRecord(rule, b)
      /\ Concerns(i) <=> /\ Read(b.fields[STATUS]) /\ b.fields[STATUS] # CANCELLED
                         /\ Read(b.fields[ASSIGNED])
  BY StaysRead
<1>3. ADULTS \in DOMAIN b.fields /\ MAXADULTS \in DOMAIN b.fields
  <2>1. d \in ToSet(rule.predicates)
    BY <1>1 DEF ToSet
  <2>2. Operands(d) \subseteq DOMAIN b.fields
    BY <2>1 DEF EvidenceOK
  <2>. QED BY <2>2 DEF Operands, Beside
<1>4. /\ Unknown \in {v, w} => Evaluate(d, b) = UNSURE
      /\ Unknown \notin {v, w} =>
           Read(v) /\ Read(w) /\ Evaluate(d, b) = Ruling(~(v.payload > w.payload))
  BY <1>2, <1>3, BesideSays, CountsCompare DEF RecordOK
<1>5. Results(rule.predicates, b) = {Evaluate(d, b)}
  BY <1>1, ResultsOf
<1>6. Wrong(i) <=> Concerns(i) /\ Read(v) /\ Read(w) /\ v.payload > w.payload
  BY <1>1 DEF Wrong, Reading, MoneyOwed, Capacity, InactiveRoom, TypeValidity, Duplicates,
       Occupancy, ClosedRoom, Rule, Grouped
<1>7. /\ Admitted(rule, b) \in {PASS, EXCLUDED, UNKNOWN}
      /\ Admitted(rule, b) = PASS => Concerns(i)
      /\ b.fields[STATUS] # Unknown /\ b.fields[ASSIGNED] # Unknown =>
           Admitted(rule, b) = IF Concerns(i) THEN PASS ELSE EXCLUDED
  BY <1>2, StaysAdmitted
<1>8. Whole(b) => b.fields[STATUS] # Unknown /\ b.fields[ASSIGNED] # Unknown
                  /\ Unknown \notin {v, w}
  BY <1>2, <1>3 DEF Whole
<1>. HIDE DEF b, d, v, w
<1>9. Verdict[i] = IF Admitted(rule, b) # PASS THEN Admitted(rule, b)
                   ELSE IF Evaluate(d, b) = FAILS THEN FAIL
                   ELSE IF Evaluate(d, b) = UNSURE THEN UNKNOWN ELSE PASS
  BY <1>2, <1>5, AllSays
<1>10. Verdict[i] = FAIL => Wrong(i)
  BY <1>4, <1>6, <1>7, <1>9 DEF Ruling, HOLDS, FAILS, UNSURE, PASS, FAIL, EXCLUDED, UNKNOWN
<1>11. ASSUME Whole(b)
       PROVE  Verdict[i] = IF ~Concerns(i) THEN EXCLUDED ELSE IF Wrong(i) THEN FAIL ELSE PASS
  BY <1>4, <1>6, <1>7, <1>8, <1>9, <1>11 DEF Ruling, HOLDS, FAILS, UNSURE, PASS, FAIL, EXCLUDED, UNKNOWN
<1>. QED BY <1>10, <1>11 DEF b

\* What a rule about stays concludes, when what its predicates accuse of is known.
LEMMA StayConcluded ==
  ASSUME NEW i \in DOMAIN bundles, rule \in {Capacity, InactiveRoom, TypeValidity},
         EvidenceOK(rule, bundles[i]), NEW wrong \in BOOLEAN,
         Wrong(i) <=> Concerns(i) /\ wrong,
         FAILS \in Results(rule.predicates, bundles[i]) => wrong,
         Whole(bundles[i]) =>
           IF wrong THEN FAILS \in Results(rule.predicates, bundles[i])
           ELSE UNSURE \notin Results(rule.predicates, bundles[i])
  PROVE  /\ Verdict[i] = FAIL => Wrong(i)
         /\ Whole(bundles[i]) =>
              Verdict[i] = IF ~Concerns(i) THEN EXCLUDED ELSE IF Wrong(i) THEN FAIL ELSE PASS
<1>. DEFINE b == bundles[i]
            results == Results(rule.predicates, b)
<1>1. /\ DOMAIN b.related = {} /\ RecordOK(b.fields)
      /\ STATUS \in DOMAIN b.fields /\ ASSIGNED \in DOMAIN b.fields
      /\ rule.scope = STAYS /\ rule.exceptions = <<>> /\ rule.mode = "all"
      /\ Verdict[i] = OfRecord(rule, b)
      /\ Concerns(i) <=> /\ Read(b.fields[STATUS]) /\ b.fields[STATUS] # CANCELLED
                         /\ Read(b.fields[ASSIGNED])
  BY StaysRead
<1>2. /\ Admitted(rule, b) \in {PASS, EXCLUDED, UNKNOWN}
      /\ Admitted(rule, b) = PASS => Concerns(i)
      /\ b.fields[STATUS] # Unknown /\ b.fields[ASSIGNED] # Unknown =>
           Admitted(rule, b) = IF Concerns(i) THEN PASS ELSE EXCLUDED
  BY <1>1, StaysAdmitted
<1>3. Whole(b) => b.fields[STATUS] # Unknown /\ b.fields[ASSIGNED] # Unknown
  BY <1>1 DEF Whole
<1>4. /\ FAILS \in results => wrong
      /\ Whole(b) => IF wrong THEN FAILS \in results ELSE UNSURE \notin results
  OBVIOUS
<1>5. Verdict[i] = IF Admitted(rule, b) # PASS THEN Admitted(rule, b)
                   ELSE IF FAILS \in results THEN FAIL
                   ELSE IF UNSURE \in results THEN UNKNOWN ELSE PASS
  BY <1>1, AllSays
<1>. HIDE DEF b, results
<1>6. Verdict[i] = FAIL => Wrong(i)
  BY <1>2, <1>4, <1>5 DEF PASS, FAIL, EXCLUDED, UNKNOWN
<1>7. ASSUME Whole(b)
      PROVE  Verdict[i] = IF ~Concerns(i) THEN EXCLUDED ELSE IF Wrong(i) THEN FAIL ELSE PASS
  BY <1>2, <1>3, <1>4, <1>5, <1>7 DEF PASS, FAIL, EXCLUDED, UNKNOWN
<1>. QED BY <1>6, <1>7 DEF b

\* Inactive room: a stay in a room that is not there, or is closed.
LEMMA InactiveRoomSays ==
  ASSUME rule = InactiveRoom, NEW i \in DOMAIN bundles, EvidenceOK(rule, bundles[i]),
         BundleOK(bundles[i])
  PROVE  /\ Verdict[i] = FAIL => Wrong(i)
         /\ Whole(bundles[i]) =>
              Verdict[i] = IF ~Concerns(i) THEN EXCLUDED ELSE IF Wrong(i) THEN FAIL ELSE PASS
<1>. DEFINE b == bundles[i]
            c == Clause(ROOMNUMBER, "reference_exists")
            d == Clause(CLOSEDFROM, "not_exists")
            wrong == b.joins["room"] = FAILS \/ Read(b.fields[CLOSEDFROM])
<1>1. rule.control = "inactive_room_future_stay" /\ rule.predicates = <<c, d>>
  BY DEF InactiveRoom, Rule
<1>2. DOMAIN b.related = {}
  BY StaysRead
<1>3. ROOMNUMBER \in DOMAIN b.fields /\ CLOSEDFROM \in DOMAIN b.fields
  <2>1. c \in ToSet(rule.predicates) /\ d \in ToSet(rule.predicates)
    BY <1>1 DEF ToSet
  <2>2. Operands(c) \subseteq DOMAIN b.fields /\ Operands(d) \subseteq DOMAIN b.fields
    BY <2>1 DEF EvidenceOK
  <2>. QED BY <2>2 DEF Operands, Clause
<1>4. /\ Evaluate(c, b) = Joined(b, "room")
      /\ "room" \in DOMAIN b.joins /\ Joined(b, "room") = b.joins["room"]
      /\ b.joins["room"] \in {HOLDS, FAILS, UNSURE}
  BY <1>2, <1>3, ReferenceSays DEF EvidenceOK, Joined, BundleOK
<1>5. /\ b.fields[CLOSEDFROM] = Unknown => Evaluate(d, b) = UNSURE
      /\ b.fields[CLOSEDFROM] = Absent => Evaluate(d, b) = HOLDS
      /\ Read(b.fields[CLOSEDFROM]) => Evaluate(d, b) = FAILS
  BY <1>2, <1>3, ExistsSays
<1>6. Results(rule.predicates, b) = {Evaluate(c, b), Evaluate(d, b)}
  BY <1>1, ResultsOf
<1>7. Wrong(i) <=> Concerns(i) /\ wrong
  BY <1>1 DEF Wrong, Reading, MoneyOwed, Capacity, InactiveRoom, TypeValidity, Duplicates,
       Occupancy, ClosedRoom, Rule, Grouped
<1>8. FAILS \in Results(rule.predicates, b) => wrong
  BY <1>4, <1>5, <1>6 DEF Read, HOLDS, FAILS, UNSURE
<1>9. Whole(b) => IF wrong THEN FAILS \in Results(rule.predicates, b)
                  ELSE UNSURE \notin Results(rule.predicates, b)
  BY <1>3, <1>4, <1>5, <1>6, Readable DEF Read, Whole, HOLDS, FAILS, UNSURE
<1>. HIDE DEF wrong
<1>. QED BY <1>7, <1>8, <1>9, StayConcluded

\* Type validity: a room that is not there, of no type of the hotel's, or not as booked.
LEMMA TypeValiditySays ==
  ASSUME rule = TypeValidity, NEW i \in DOMAIN bundles, EvidenceOK(rule, bundles[i]),
         BundleOK(bundles[i])
  PROVE  /\ Verdict[i] = FAIL => Wrong(i)
         /\ Whole(bundles[i]) =>
              Verdict[i] = IF ~Concerns(i) THEN EXCLUDED ELSE IF Wrong(i) THEN FAIL ELSE PASS
<1>. DEFINE b == bundles[i]
            c == Clause(ROOMNUMBER, "reference_exists")
            d == Beside(ROOMTYPE, "in", ROOMTYPES)
            e == Beside(BOOKEDTYPE, "matches_ignore_case", ROOMTYPE)
            u == b.fields[ROOMTYPE]
            v == b.fields[BOOKEDTYPE]
            w == b.fields[ROOMTYPES]
            wrong == \/ b.joins["room"] = FAILS
                     \/ /\ Read(u)
                        /\ \/ Read(w) /\ u.payload \notin w.members
                           \/ Read(v) /\ u.payload # v.payload
<1>1. rule.control = "room_assignment_type_validity" /\ rule.predicates = <<c, d, e>>
  BY DEF TypeValidity, Rule
<1>2. DOMAIN b.related = {} /\ RecordOK(b.fields)
  BY StaysRead
<1>3. {ROOMNUMBER, ROOMTYPE, BOOKEDTYPE, ROOMTYPES} \subseteq DOMAIN b.fields
  <2>1. c \in ToSet(rule.predicates) /\ d \in ToSet(rule.predicates) /\ e \in ToSet(rule.predicates)
    <3>. HIDE DEF c, d, e
    <3>1. DOMAIN <<c, d, e>> = {1, 2, 3}
      OBVIOUS
    <3>. QED BY <1>1, <3>1 DEF ToSet
  <2>2. /\ Operands(c) \subseteq DOMAIN b.fields /\ Operands(d) \subseteq DOMAIN b.fields
        /\ Operands(e) \subseteq DOMAIN b.fields
    BY <2>1 DEF EvidenceOK
  <2>. QED BY <2>2 DEF Operands, Clause, Beside
<1>4. /\ Evaluate(c, b) = Joined(b, "room")
      /\ "room" \in DOMAIN b.joins /\ Joined(b, "room") = b.joins["room"]
      /\ b.joins["room"] \in {HOLDS, FAILS, UNSURE}
  BY <1>2, <1>3, ReferenceSays DEF EvidenceOK, Joined, BundleOK
<1>5. /\ Unknown \in {u, w} => Evaluate(d, b) = UNSURE
      /\ Unknown \notin {u, w} =>
           Read(u) /\ Read(w) /\ Evaluate(d, b) = Ruling(u.payload \in w.members)
  BY <1>2, <1>3, BesideSays, TypesInclude DEF RecordOK
<1>6. /\ Unknown \in {u, v} => Evaluate(e, b) = UNSURE
      /\ Unknown \notin {u, v} =>
           Read(u) /\ Read(v) /\ Evaluate(e, b) = Ruling(u.payload = v.payload)
  BY <1>2, <1>3, BesideSays, TypesCompare DEF RecordOK
<1>7. Results(rule.predicates, b) = {Evaluate(c, b), Evaluate(d, b), Evaluate(e, b)}
  BY <1>1, ResultsOf
<1>8. Wrong(i) <=> Concerns(i) /\ wrong
  BY <1>1 DEF Wrong, Reading, MoneyOwed, Capacity, InactiveRoom, TypeValidity, Duplicates,
       Occupancy, ClosedRoom, Rule, Grouped
<1>9. Whole(b) => Unknown \notin {u, v, w} /\ b.joins["room"] # UNSURE
  BY <1>3, <1>4 DEF Whole
<1>. HIDE DEF b, c, d, e, u, v, w
<1>10. FAILS \in Results(rule.predicates, b) => wrong
  BY <1>4, <1>5, <1>6, <1>7 DEF Ruling, HOLDS, FAILS, UNSURE
<1>11. Whole(b) => IF wrong THEN FAILS \in Results(rule.predicates, b)
                   ELSE UNSURE \notin Results(rule.predicates, b)
  BY <1>4, <1>5, <1>6, <1>7, <1>9 DEF Ruling, HOLDS, FAILS, UNSURE
<1>. HIDE DEF wrong
<1>. QED BY <1>8, <1>10, <1>11, StayConcluded DEF b

------------------------------------------------------------------------------
(* Rules about the records of a group.                                      *)

\* A record reaches its group when every clause of its scope and exceptions lets it.
LEMMA SettledAnswers ==
  ASSUME NEW r, NEW b
  PROVE  /\ Settled(r, b) \in {PASS, EXCLUDED, UNKNOWN}
         /\ Settled(r, b) = PASS <=> /\ Throughout(r.scope, b, HOLDS)
                                     /\ Throughout(r.exceptions, b, FAILS)
<1>. DEFINE in    == Throughout(r.scope, b, HOLDS)
            out   == StopsAt(r.scope, b, HOLDS, FAILS)
            clear == Throughout(r.exceptions, b, FAILS)
            spare == StopsAt(r.exceptions, b, FAILS, HOLDS)
<1>1. ~(in /\ out) /\ ~(clear /\ spare)
  BY DEF Throughout, StopsAt, HOLDS, FAILS
<1>2. Settled(r, b) = CASE in /\ clear -> PASS [] out -> EXCLUDED [] in /\ spare -> EXCLUDED
                        [] OTHER -> UNKNOWN
  BY DEF Settled
<1>. HIDE DEF in, out, clear, spare
<1>3. /\ in /\ clear => Settled(r, b) = PASS
      /\ out => Settled(r, b) = EXCLUDED
      /\ in /\ spare => Settled(r, b) = EXCLUDED
      /\ ~(in /\ clear) /\ ~out /\ ~(in /\ spare) => Settled(r, b) = UNKNOWN
  BY <1>1, <1>2
<1>. QED BY <1>3 DEF PASS, EXCLUDED, UNKNOWN, in, clear

\* Whether a booking is counted: it is not cancelled, and came through a channel.
LEMMA BookingsSettled ==
  ASSUME rule = Duplicates, NEW b, EvidenceOK(rule, b)
  PROVE  LET s == b.fields[STATUS]
             k == b.fields[CHANNELID]
             concerned == Read(s) /\ s # CANCELLED /\ Read(k)
         IN  /\ {STATUS, CHANNELID, ID} \subseteq DOMAIN b.fields
             /\ DOMAIN b.related = {}
             /\ Settled(rule, b) = PASS <=> concerned
             /\ Whole(b) => Settled(rule, b) = IF concerned THEN PASS ELSE EXCLUDED
<1>. DEFINE c == Against(STATUS, "not_equals", CANCELLED)
            d == Clause(CHANNELID, "exists")
            x == Clause(CHANNELID, "not_exists")
            p == [field |-> ID, operator |-> "count_lte", value |-> 1]
            s == b.fields[STATUS]
            k == b.fields[CHANNELID]
<1>1. rule.scope = <<c, d>> /\ rule.exceptions = <<x>> /\ rule.predicates = <<p>>
  BY DEF Duplicates, Grouped
<1>2. {STATUS, CHANNELID, ID} \subseteq DOMAIN b.fields
  <2>1. c \in ToSet(rule.scope) /\ d \in ToSet(rule.scope) /\ p \in ToSet(rule.predicates)
    BY <1>1 DEF ToSet
  <2>2. Operands(c) \subseteq DOMAIN b.fields /\ Operands(d) \subseteq DOMAIN b.fields
        /\ Operands(p) \subseteq DOMAIN b.fields
    BY <2>1 DEF EvidenceOK
  <2>. QED BY <2>2 DEF Operands, Against, Clause
<1>3. DOMAIN b.related = {}
  <2>1. Duplicates # ClosedRoom
    BY DEF Duplicates, ClosedRoom, Rule, Grouped
  <2>. QED BY <2>1 DEF EvidenceOK
<1>4. /\ s = Unknown => Evaluate(c, b) = UNSURE
      /\ s # Unknown => Read(s) /\ Evaluate(c, b) = Ruling(s # CANCELLED)
  <2>1. s # Unknown => s = Text(s.payload) /\ s.payload \in Int
    BY <1>2, ReadingIs DEF EvidenceOK, RecordOK
  <2>. QED BY <1>2, <1>3, <2>1, EqualsSays DEF CANCELLED
<1>5. /\ k = Unknown => Evaluate(d, b) = UNSURE /\ Evaluate(x, b) = UNSURE
      /\ k = Absent => Evaluate(d, b) = FAILS /\ Evaluate(x, b) = HOLDS
      /\ Read(k) => Evaluate(d, b) = HOLDS /\ Evaluate(x, b) = FAILS
  BY <1>2, <1>3, ExistsSays
<1>6. k = Unknown \/ k = Absent \/ Read(k)
  BY DEF Read
<1>7. s = Unknown => ~Read(s)
  BY DEF Read
<1>8. Whole(b) => s # Unknown /\ k # Unknown
  BY <1>2 DEF Whole
<1>. HIDE DEF c, d, x, p, s, k
<1>9. /\ Throughout(rule.scope, b, HOLDS) <=> Evaluate(c, b) = HOLDS /\ Evaluate(d, b) = HOLDS
      /\ Throughout(rule.exceptions, b, FAILS) <=> Evaluate(x, b) = FAILS
      /\ Evaluate(c, b) = FAILS => StopsAt(rule.scope, b, HOLDS, FAILS)
      /\ Evaluate(c, b) = HOLDS /\ Evaluate(d, b) = FAILS => StopsAt(rule.scope, b, HOLDS, FAILS)
  <2>1. DOMAIN <<c, d>> = {1, 2} /\ DOMAIN <<x>> = {1}
    OBVIOUS
  <2>. QED BY <1>1, <2>1 DEF Throughout, StopsAt
<1>10. /\ Evaluate(c, b) = HOLDS <=> Read(s) /\ s # CANCELLED
       /\ Evaluate(d, b) = HOLDS <=> Read(k)
       /\ Evaluate(d, b) = HOLDS => Evaluate(x, b) = FAILS
  BY <1>4, <1>5, <1>6, <1>7 DEF Ruling, HOLDS, FAILS, UNSURE
<1>11. Settled(rule, b) = PASS <=> Read(s) /\ s # CANCELLED /\ Read(k)
  BY <1>9, <1>10, SettledAnswers
<1>12. ASSUME Whole(b), ~(Read(s) /\ s # CANCELLED /\ Read(k))
       PROVE  Settled(rule, b) = EXCLUDED
  <2>1. StopsAt(rule.scope, b, HOLDS, FAILS)
    BY <1>4, <1>5, <1>6, <1>8, <1>9, <1>10, <1>12 DEF Ruling
  <2>2. ~(Throughout(rule.scope, b, HOLDS) /\ Throughout(rule.exceptions, b, FAILS))
    BY <1>11, <1>12, SettledAnswers
  <2>. QED BY <2>1, <2>2 DEF Settled
<1>. QED BY <1>2, <1>3, <1>11, <1>12 DEF s, k

\* Distinct ids are more than one when two of them differ.
LEMMA TwoIds ==
  ASSUME NEW group, IsFiniteSet(group), NEW id, NEW i \in group, id[i] # Unknown
  PROVE  /\ Cardinality(ReadIds(group, id)) > 1 <=>
              \E j \in group : id[j] # Unknown /\ id[j] # id[i]
         /\ Cardinality(ReadIds(group, id)) \in Nat
<1>. DEFINE all == {id[j] : j \in group}
            ids == all \ {Unknown}
            one == [j \in group |-> id[j]]
<1>1. one \in Surjection(group, all)
  BY DEF Surjection
<1>2. IsFiniteSet(ids)
  <2>1. IsFiniteSet(all)
    BY <1>1, FS_Surjection
  <2>. QED BY <2>1, FS_Subset
<1>3. Cardinality(ids) \in Nat /\ id[i] \in ids
  BY <1>2, FS_CardinalityType
<1>4. ASSUME ~\E j \in group : id[j] # Unknown /\ id[j] # id[i]
      PROVE  Cardinality(ids) = 1
  <2>1. ids = {id[i]}
    BY <1>3, <1>4
  <2>. QED BY <2>1, FS_Singleton
<1>5. ASSUME NEW j \in group, id[j] # Unknown, id[j] # id[i]
      PROVE  Cardinality(ids) > 1
  <2>1. id[j] \in ids
    BY <1>5
  <2>2. Cardinality(ids) # 1
    <3>1. ~\E x : ids = {x}
      BY <1>3, <1>5, <2>1
    <3>. HIDE DEF ids
    <3>. QED BY <1>2, <3>1, FS_Singleton
  <2>3. Cardinality(ids) # 0
    <3>. HIDE DEF ids
    <3>. QED BY <1>2, <2>1, FS_EmptySet
  <2>. HIDE DEF ids
  <2>. QED BY <1>3, <2>2, <2>3
<1>. HIDE DEF ids
<1>6. Cardinality(ids) > 1 <=> \E j \in group : id[j] # Unknown /\ id[j] # id[i]
  BY <1>4, <1>5
<1>. QED BY <1>3, <1>6 DEF ids, ReadIds

\* Duplicates: two bookings under one channel confirmation.
LEMMA DuplicatesSays ==
  ASSUME rule = Duplicates, EvidenceInv, \A j \in DOMAIN bundles : EvidenceOK(rule, bundles[j]),
         NEW i \in DOMAIN bundles
  PROVE  /\ Verdict[i] = FAIL => Wrong(i)
         /\ (\A j \in DOMAIN bundles : Whole(bundles[j])) =>
              Verdict[i] = IF ~Concerns(i) THEN EXCLUDED ELSE IF Wrong(i) THEN FAIL ELSE PASS
<1>. DEFINE p == [field |-> ID, operator |-> "count_lte", value |-> 1]
            group == Group(rule, bundles, i)
            counted(j) == Active(j, STATUS) /\ Read(Reading(j, CHANNELID))
            id == [j \in group |-> IdOf(rule, bundles[j])]
            ids == ReadIds(group, id)
            unread == {j \in group : id[j] = Unknown}
            shared == \E j \in DOMAIN bundles : Rivals(i, j, STATUS, CHANNELID, ID)
<1>1. /\ rule.control = "duplicate_channel_reservation" /\ rule.mode = "aggregate"
      /\ rule.group_by = CHANNELID /\ rule.predicates = <<p>> /\ rule.predicates[1] = p
  BY DEF Duplicates, Grouped
<1>2. \A j \in DOMAIN bundles :
        /\ {STATUS, CHANNELID, ID} \subseteq DOMAIN bundles[j].fields
        /\ Settled(rule, bundles[j]) = PASS <=> counted(j)
        /\ Whole(bundles[j]) =>
             Settled(rule, bundles[j]) = IF counted(j) THEN PASS ELSE EXCLUDED
  BY BookingsSettled DEF Active, Reading
<1>3. \A j \in DOMAIN bundles :
        /\ KeyOf(rule, bundles[j]) = Reading(j, CHANNELID)
        /\ IdOf(rule, bundles[j]) = Reading(j, ID)
        /\ Reading(j, ID) = Unknown \/ Read(Reading(j, ID))
  <2>1. ASSUME NEW j \in DOMAIN bundles
        PROVE  Reading(j, ID) = Unknown \/ Read(Reading(j, ID))
    BY <1>2, ReadingIs, Readable DEF EvidenceOK, RecordOK, Reading, Text
  <2>. QED BY <1>1, <1>2, <2>1 DEF KeyOf, IdOf, Field, Reading
<1>4. /\ Concerns(i) <=> counted(i)
      /\ Wrong(i) <=> counted(i) /\ shared
  BY <1>1 DEF Concerns, Wrong, MoneyOwed, Capacity, InactiveRoom, TypeValidity, Duplicates,
       Occupancy, ClosedRoom, Rule, Grouped
<1>5. Verdict[i] = OfGrouped(rule, bundles, i)
  BY <1>1 DEF Verdict, Verdicts
<1>6. group = {j \in DOMAIN bundles : /\ counted(j) /\ Reading(j, CHANNELID) # Unknown
                                      /\ Reading(j, CHANNELID) = Reading(i, CHANNELID)}
  BY <1>2, <1>3 DEF Group, InPlay
<1>7. IsFiniteSet(group)
  BY <1>6, FS_Subset DEF EvidenceInv
<1>8. CountLte(rule, bundles, group, i) =
        IF i \in unread THEN UNKNOWN
        ELSE IF Cardinality(ids) > 1 THEN FAIL
        ELSE IF Cardinality(ids) + Cardinality(unread) <= 1 THEN PASS ELSE UNKNOWN
  <2>1. /\ {IdOf(rule, bundles[j]) : j \in group} = {id[j] : j \in group}
        /\ unread = {j \in group : IdOf(rule, bundles[j]) = Unknown}
    OBVIOUS
  <2>2. rule.predicates[1].value = 1
    BY <1>1
  <2>. HIDE DEF group, id
  <2>. QED BY <2>1, <2>2 DEF CountLte, ReadIds
<1>9. ASSUME counted(i) PROVE i \in group
  BY <1>6, <1>9 DEF Read
<1>10. ASSUME counted(i), i \notin unread
       PROVE  /\ Cardinality(ids) > 1 <=> \E j \in group : id[j] # Unknown /\ id[j] # id[i]
              /\ Cardinality(ids) \in Nat
  <2>1. i \in group /\ id[i] # Unknown
    BY <1>9, <1>10
  <2>. HIDE DEF group, id
  <2>. QED BY <1>7, <2>1, TwoIds
<1>11. ASSUME counted(i), i \notin unread
       PROVE  shared <=> \E j \in group : id[j] # Unknown /\ id[j] # id[i]
  <2>1. \A j \in group : id[j] = Reading(j, ID)
    BY <1>3, <1>6
  <2>2. Read(Reading(i, ID)) /\ Read(Reading(i, CHANNELID)) /\ i \in group
    BY <1>3, <1>9, <1>11, <2>1
  <2>3. ASSUME NEW j \in group, id[j] # Unknown, id[j] # id[i] PROVE shared
    <3>1. j \in DOMAIN bundles /\ counted(j) /\ Reading(j, CHANNELID) = Reading(i, CHANNELID)
      BY <1>6
    <3>2. Read(Reading(j, ID)) /\ Reading(j, ID) # Reading(i, ID)
      BY <1>3, <2>1, <2>2, <2>3, <3>1
    <3>. QED BY <1>11, <2>2, <3>1, <3>2 DEF Rivals
  <2>4. ASSUME NEW j \in DOMAIN bundles, Rivals(i, j, STATUS, CHANNELID, ID)
        PROVE  \E k \in group : id[k] # Unknown /\ id[k] # id[i]
    <3>1. /\ Active(j, STATUS) /\ Reading(i, CHANNELID) = Reading(j, CHANNELID)
          /\ Read(Reading(j, ID)) /\ Reading(i, ID) # Reading(j, ID)
      BY <2>4 DEF Rivals
    <3>2. j \in group
      BY <1>6, <2>2, <3>1 DEF Read
    <3>. QED BY <2>1, <2>2, <3>1, <3>2 DEF Read
  <2>. QED BY <2>3, <2>4
<1>12. /\ Settled(rule, bundles[i]) = PASS <=> counted(i)
       /\ Settled(rule, bundles[i]) \in {PASS, EXCLUDED, UNKNOWN}
  BY <1>2, SettledAnswers
<1>13. OfGrouped(rule, bundles, i) =
         IF Settled(rule, bundles[i]) # PASS THEN Settled(rule, bundles[i])
         ELSE IF KeyOf(rule, bundles[i]) = Unknown THEN UNKNOWN
         ELSE IF /\ CountLte(rule, bundles, group, i) = PASS
                 /\ KeyOf(rule, bundles[i]) \in UncertainKeys(rule, bundles) THEN UNKNOWN
         ELSE CountLte(rule, bundles, group, i)
  <2>1. rule.predicates[1].operator = "count_lte"
    BY <1>1
  <2>. QED BY <2>1 DEF OfGrouped
<1>14. \A j \in DOMAIN bundles : Whole(bundles[j]) =>
         Reading(j, ID) # Unknown /\ Settled(rule, bundles[j]) # UNKNOWN
  BY <1>2 DEF Whole, Reading, PASS, EXCLUDED, UNKNOWN
<1>15. ASSUME \A j \in DOMAIN bundles : Whole(bundles[j])
       PROVE  UncertainKeys(rule, bundles) = {} /\ unread = {}
  <2>1. UncertainKeys(rule, bundles) = {}
    BY <1>14, <1>15 DEF UncertainKeys
  <2>2. unread = {}
    BY <1>3, <1>6, <1>14, <1>15
  <2>. QED BY <2>1, <2>2
<1>. HIDE DEF p, group, id, ids, unread, shared
<1>16. ASSUME Verdict[i] = FAIL PROVE Wrong(i)
  <2>1. counted(i) /\ CountLte(rule, bundles, group, i) = FAIL
    BY <1>5, <1>12, <1>13, <1>16 DEF PASS, FAIL, EXCLUDED, UNKNOWN
  <2>2. i \notin unread /\ Cardinality(ids) > 1
    BY <1>8, <2>1 DEF PASS, FAIL, UNKNOWN
  <2>. QED BY <1>4, <1>10, <1>11, <2>1, <2>2
<1>17. ASSUME \A j \in DOMAIN bundles : Whole(bundles[j]), counted(i)
       PROVE  Verdict[i] = IF shared THEN FAIL ELSE PASS
  <2>1. Verdict[i] = CountLte(rule, bundles, group, i)
    <3>1. KeyOf(rule, bundles[i]) # Unknown
      BY <1>3, <1>17 DEF Read
    <3>. QED BY <1>5, <1>12, <1>13, <1>15, <1>17, <3>1
  <2>2. i \notin unread /\ Cardinality(unread) = 0
    BY <1>15, <1>17, FS_EmptySet
  <2>3. shared <=> Cardinality(ids) > 1
    BY <1>10, <1>11, <1>17, <2>2
  <2>4. Cardinality(ids) \in Nat
    BY <1>10, <1>17, <2>2
  <2>. QED BY <1>8, <2>1, <2>2, <2>3, <2>4
<1>18. ASSUME \A j \in DOMAIN bundles : Whole(bundles[j]), ~counted(i)
       PROVE  Verdict[i] = EXCLUDED
  BY <1>2, <1>5, <1>13, <1>18 DEF PASS, EXCLUDED
<1>. QED BY <1>4, <1>16, <1>17, <1>18
\* Whether a segment is counted: it is not cancelled.
LEMMA SegmentsSettled ==
  ASSUME rule = Occupancy, NEW b, EvidenceOK(rule, b)
  PROVE  LET s == b.fields[SEGSTATUS]
             concerned == Read(s) /\ s # CANCELLED
         IN  /\ {SEGSTATUS, SEGROOM, SEGID, SEGFROM, SEGTO} \subseteq DOMAIN b.fields
             /\ Settled(rule, b) = PASS <=> concerned
             /\ Whole(b) => Settled(rule, b) = IF concerned THEN PASS ELSE EXCLUDED
<1>. DEFINE c == Against(SEGSTATUS, "not_equals", CANCELLED)
            p == [field |-> SEGID, operator |-> "no_overlap", start |-> SEGFROM, end |-> SEGTO]
            s == b.fields[SEGSTATUS]
<1>1. /\ rule.scope = <<c>> /\ rule.exceptions = <<>> /\ rule.predicates = <<p>>
      /\ rule.mode = "aggregate" /\ rule.group_by = SEGROOM
  BY DEF Occupancy, Grouped
<1>2. {SEGSTATUS, SEGROOM, SEGID, SEGFROM, SEGTO} \subseteq DOMAIN b.fields
  <2>1. c \in ToSet(rule.scope) /\ p \in ToSet(rule.predicates)
    BY <1>1 DEF ToSet
  <2>2. Operands(c) \subseteq DOMAIN b.fields /\ Operands(p) \subseteq DOMAIN b.fields
    BY <2>1 DEF EvidenceOK
  <2>3. SEGROOM \in DOMAIN b.fields
    BY <1>1 DEF EvidenceOK
  <2>. QED BY <2>2, <2>3 DEF Operands, Against
<1>3. DOMAIN b.related = {}
  <2>1. Occupancy # ClosedRoom
    BY DEF Occupancy, ClosedRoom, Rule, Grouped
  <2>. QED BY <2>1 DEF EvidenceOK
<1>4. /\ s = Unknown => Evaluate(c, b) = UNSURE
      /\ s # Unknown => Read(s) /\ Evaluate(c, b) = Ruling(s # CANCELLED)
  <2>1. s # Unknown => s = Text(s.payload) /\ s.payload \in Int
    BY <1>2, ReadingIs DEF EvidenceOK, RecordOK
  <2>. QED BY <1>2, <1>3, <2>1, EqualsSays DEF CANCELLED
<1>5. s = Unknown => ~Read(s)
  BY DEF Read
<1>6. Whole(b) => s # Unknown
  BY <1>2 DEF Whole
<1>. HIDE DEF c, p, s
<1>7. /\ Throughout(rule.scope, b, HOLDS) <=> Evaluate(c, b) = HOLDS
      /\ Throughout(rule.exceptions, b, FAILS)
      /\ Evaluate(c, b) = FAILS => StopsAt(rule.scope, b, HOLDS, FAILS)
  <2>1. DOMAIN <<c>> = {1}
    OBVIOUS
  <2>. QED BY <1>1, <2>1 DEF Throughout, StopsAt
<1>8. Evaluate(c, b) = HOLDS <=> Read(s) /\ s # CANCELLED
  BY <1>4, <1>5 DEF Ruling, HOLDS, FAILS, UNSURE
<1>9. Settled(rule, b) = PASS <=> Read(s) /\ s # CANCELLED
  BY <1>7, <1>8, SettledAnswers
<1>10. ASSUME Whole(b), ~(Read(s) /\ s # CANCELLED)
       PROVE  Settled(rule, b) = EXCLUDED
  <2>1. StopsAt(rule.scope, b, HOLDS, FAILS)
    BY <1>4, <1>6, <1>7, <1>10 DEF Ruling
  <2>2. ~Throughout(rule.scope, b, HOLDS)
    BY <1>7, <1>8, <1>10
  <2>. QED BY <2>1, <2>2 DEF Settled
<1>. QED BY <1>2, <1>9, <1>10 DEF s

\* The nights of two stays meet when the stays overlap.
LEMMA NightsMeet ==
  ASSUME NEW a \in Int, NEW b \in Int, NEW c \in Int, NEW d \in Int, a + 1 <= b, c + 1 <= d
  PROVE  (a .. (b - 1)) \cap (c .. (d - 1)) # {} <=> Overlaps(a, b, c, d)
<1>1. ASSUME NEW n \in (a .. (b - 1)) \cap (c .. (d - 1)) PROVE Overlaps(a, b, c, d)
  BY <1>1 DEF Overlaps
<1>2. ASSUME Overlaps(a, b, c, d), a <= c PROVE c \in (a .. (b - 1)) \cap (c .. (d - 1))
  BY <1>2 DEF Overlaps
<1>3. ASSUME Overlaps(a, b, c, d), c <= a PROVE a \in (a .. (b - 1)) \cap (c .. (d - 1))
  BY <1>3 DEF Overlaps
<1>. QED BY <1>1, <1>2, <1>3

\* Occupancy: two bookings in one room on one night.
LEMMA OccupancySays ==
  ASSUME rule = Occupancy, EvidenceInv, \A j \in DOMAIN bundles : EvidenceOK(rule, bundles[j]),
         NEW i \in DOMAIN bundles
  PROVE  /\ Verdict[i] = FAIL => Wrong(i)
         /\ (\A j \in DOMAIN bundles : Whole(bundles[j])) =>
              Verdict[i] = IF ~Concerns(i) THEN EXCLUDED ELSE IF Wrong(i) THEN FAIL ELSE PASS
<1>. DEFINE p == [field |-> SEGID, operator |-> "no_overlap", start |-> SEGFROM, end |-> SEGTO]
            group == Group(rule, bundles, i)
            counted(j) == Active(j, SEGSTATUS)
            Start(j) == Reading(j, SEGFROM)
            End(j) == Reading(j, SEGTO)
            unread == {j \in group : Unknown \in {Start(j), End(j), Reading(j, SEGID)}}
            Clash(j) == /\ Reading(j, SEGID) # Reading(i, SEGID)
                        /\ Overlaps(Start(i).payload, End(i).payload, Start(j).payload, End(j).payload)
            shared == \E j \in DOMAIN bundles :
                        /\ Rivals(i, j, SEGSTATUS, SEGROOM, SEGID)
                        /\ \A k \in {i, j} : Read(Start(k)) /\ Read(End(k))
                        /\ Nights(i) \cap Nights(j) # {}
<1>1. /\ rule.control = "resource_occupancy_consistency" /\ rule.mode = "aggregate"
      /\ rule.group_by = SEGROOM /\ rule.predicates = <<p>> /\ rule.predicates[1] = p
  BY DEF Occupancy, Grouped
<1>2. \A j \in DOMAIN bundles :
        /\ {SEGSTATUS, SEGROOM, SEGID, SEGFROM, SEGTO} \subseteq DOMAIN bundles[j].fields
        /\ Settled(rule, bundles[j]) = PASS <=> counted(j)
        /\ Whole(bundles[j]) =>
             Settled(rule, bundles[j]) = IF counted(j) THEN PASS ELSE EXCLUDED
  BY SegmentsSettled DEF Active, Reading
<1>3. ASSUME NEW j \in DOMAIN bundles
      PROVE  /\ KeyOf(rule, bundles[j]) = Reading(j, SEGROOM)
             /\ IdOf(rule, bundles[j]) = Reading(j, SEGID)
             /\ Field(bundles[j], SEGFROM) = Start(j) /\ Field(bundles[j], SEGTO) = End(j)
             /\ \A f \in {SEGID, SEGROOM, SEGFROM, SEGTO} :
                  Reading(j, f) = Unknown \/ Read(Reading(j, f))
             /\ Start(j) # Unknown => Start(j).payload \in Int
             /\ End(j) # Unknown => End(j).payload \in Int
             /\ Start(j) # Unknown /\ End(j) # Unknown => Start(j).payload + 1 <= End(j).payload
  <2>1. RecordOK(bundles[j].fields) /\ Sensible(bundles[j].fields)
    BY DEF EvidenceOK
  <2>2. ASSUME NEW f \in {SEGID, SEGROOM}
        PROVE  Reading(j, f) = Unknown \/ Read(Reading(j, f))
    BY <1>2, <2>1, ReadingIs, Readable DEF RecordOK, Reading, Text
  <2>3. ASSUME NEW f \in {SEGFROM, SEGTO}, Reading(j, f) # Unknown
        PROVE  Read(Reading(j, f)) /\ Reading(j, f).payload \in Int
    <3>1. IsReading(f, Reading(j, f)) /\ f \in DATES
      BY <1>2, <2>1, <2>3 DEF RecordOK, Reading, DATES
    <3>2. Reading(j, f) = Known(Reading(j, f).payload, DATE) /\ Reading(j, f).payload \in Days
      BY <3>1, ReadingIs
    <3>. QED BY <3>2, Readable, ReadingsAssumption DEF Days
  <2>4. Start(j) # Unknown /\ End(j) # Unknown => Start(j).payload + 1 <= End(j).payload
    BY <1>2, <2>1, <2>3 DEF Sensible, InOrder, Reading
  <2>. QED BY <1>1, <1>2, <2>2, <2>3, <2>4 DEF KeyOf, IdOf, Field, Reading
<1>4. /\ Concerns(i) <=> counted(i)
      /\ Wrong(i) <=> counted(i) /\ shared
  BY <1>1 DEF Concerns, Wrong, MoneyOwed, Capacity, InactiveRoom, TypeValidity, Duplicates,
       Occupancy, ClosedRoom, Rule, Grouped
<1>5. Verdict[i] = OfGrouped(rule, bundles, i)
  BY <1>1 DEF Verdict, Verdicts
<1>6. group = {j \in DOMAIN bundles : /\ counted(j) /\ Reading(j, SEGROOM) # Unknown
                                      /\ Reading(j, SEGROOM) = Reading(i, SEGROOM)}
  BY <1>2, <1>3 DEF Group, InPlay
<1>7. NoOverlap(rule, bundles, group, i) =
        IF i \in unread THEN UNKNOWN
        ELSE IF \E j \in group \ unread : Clash(j) THEN FAIL
        ELSE IF unread # {} THEN UNKNOWN ELSE PASS
  <2>1. group \subseteq DOMAIN bundles
    BY <1>6
  <2>2. \A j \in DOMAIN bundles :
          /\ Field(bundles[j], p.start) = Start(j) /\ Field(bundles[j], p.end) = End(j)
          /\ IdOf(rule, bundles[j]) = Reading(j, SEGID)
    BY <1>3
  <2>3. unread = {j \in group : Unknown \in {Field(bundles[j], p.start), Field(bundles[j], p.end),
                                             IdOf(rule, bundles[j])}}
    BY <2>1, <2>2
  <2>. HIDE DEF p, group, unread
  <2>. QED BY <1>1, <2>1, <2>2, <2>3 DEF NoOverlap
<1>8. ASSUME counted(i), Reading(i, SEGROOM) # Unknown PROVE i \in group
  BY <1>6, <1>8
<1>9. ASSUME counted(i), Reading(i, SEGROOM) # Unknown, i \notin unread
      PROVE  shared <=> \E j \in group \ unread : Clash(j)
  <2>1. i \in group /\ Unknown \notin {Start(i), End(i), Reading(i, SEGID)}
    BY <1>8, <1>9
  <2>2. ASSUME NEW j \in group \ unread, Clash(j) PROVE shared
    <3>1. /\ j \in DOMAIN bundles /\ counted(j) /\ Reading(j, SEGROOM) = Reading(i, SEGROOM)
          /\ Unknown \notin {Start(j), End(j), Reading(j, SEGID)}
      BY <1>6
    <3>2. Rivals(i, j, SEGSTATUS, SEGROOM, SEGID)
      BY <1>3, <1>9, <2>1, <2>2, <3>1 DEF Rivals
    <3>3. Nights(i) \cap Nights(j) # {}
      <4>1. \A k \in {i, j} : /\ Start(k).payload \in Int /\ End(k).payload \in Int
                              /\ Start(k).payload + 1 <= End(k).payload
        BY <1>3, <2>1, <3>1
      <4>2. Overlaps(Start(i).payload, End(i).payload, Start(j).payload, End(j).payload)
        BY <2>2
      <4>. HIDE DEF group, unread, Clash
      <4>3. (Start(i).payload .. (End(i).payload - 1))
              \cap (Start(j).payload .. (End(j).payload - 1)) # {}
        BY <4>1, <4>2, NightsMeet
      <4>. QED BY <4>3 DEF Nights
    <3>4. \A k \in {i, j} : Read(Start(k)) /\ Read(End(k))
      BY <1>3, <2>1, <3>1
    <3>. QED BY <3>1, <3>2, <3>3, <3>4
  <2>3. ASSUME NEW j \in DOMAIN bundles, Rivals(i, j, SEGSTATUS, SEGROOM, SEGID),
               \A k \in {i, j} : Read(Start(k)) /\ Read(End(k)), Nights(i) \cap Nights(j) # {}
        PROVE  j \in group \ unread /\ Clash(j)
    <3>1. /\ counted(j) /\ Reading(i, SEGROOM) = Reading(j, SEGROOM)
          /\ Read(Reading(j, SEGID)) /\ Reading(i, SEGID) # Reading(j, SEGID)
          /\ Read(Start(j)) /\ Read(End(j))
      BY <2>3 DEF Rivals
    <3>2. Unknown \notin {Start(j), End(j), Reading(j, SEGID)}
      BY <3>1 DEF Read
    <3>3. j \in group \ unread
      BY <1>6, <1>9, <3>1, <3>2
    <3>4. Overlaps(Start(i).payload, End(i).payload, Start(j).payload, End(j).payload)
      BY <1>3, <2>1, <2>3, <3>2, NightsMeet DEF Nights
    <3>. QED BY <3>1, <3>3, <3>4
  <2>. HIDE DEF group, unread, Clash
  <2>. QED BY <2>2, <2>3
<1>10. /\ Settled(rule, bundles[i]) = PASS <=> counted(i)
       /\ Settled(rule, bundles[i]) \in {PASS, EXCLUDED, UNKNOWN}
  BY <1>2, SettledAnswers
<1>11. OfGrouped(rule, bundles, i) =
         IF Settled(rule, bundles[i]) # PASS THEN Settled(rule, bundles[i])
         ELSE IF Reading(i, SEGROOM) = Unknown THEN UNKNOWN
         ELSE IF /\ NoOverlap(rule, bundles, group, i) = PASS
                 /\ Reading(i, SEGROOM) \in UncertainKeys(rule, bundles) THEN UNKNOWN
         ELSE NoOverlap(rule, bundles, group, i)
  <2>1. rule.predicates[1].operator = "no_overlap" /\ rule.predicates[1].operator # "count_lte"
    BY <1>1
  <2>. QED BY <1>3, <2>1 DEF OfGrouped
<1>12. \A j \in DOMAIN bundles : Whole(bundles[j]) =>
         /\ Unknown \notin {Start(j), End(j), Reading(j, SEGID), Reading(j, SEGROOM)}
         /\ Settled(rule, bundles[j]) # UNKNOWN
  BY <1>2 DEF Whole, Reading, PASS, EXCLUDED, UNKNOWN
<1>13. ASSUME \A j \in DOMAIN bundles : Whole(bundles[j])
       PROVE  UncertainKeys(rule, bundles) = {} /\ unread = {}
  <2>1. UncertainKeys(rule, bundles) = {}
    BY <1>12, <1>13 DEF UncertainKeys
  <2>2. unread = {}
    BY <1>6, <1>12, <1>13
  <2>. QED BY <2>1, <2>2
<1>. HIDE DEF p, group, unread, shared, Clash
<1>14. ASSUME Verdict[i] = FAIL PROVE Wrong(i)
  <2>1. /\ counted(i) /\ Reading(i, SEGROOM) # Unknown
        /\ NoOverlap(rule, bundles, group, i) = FAIL
    BY <1>5, <1>10, <1>11, <1>14 DEF PASS, FAIL, EXCLUDED, UNKNOWN
  <2>2. i \notin unread /\ \E j \in group \ unread : Clash(j)
    BY <1>7, <2>1 DEF PASS, FAIL, UNKNOWN
  <2>. QED BY <1>4, <1>9, <2>1, <2>2
<1>15. ASSUME \A j \in DOMAIN bundles : Whole(bundles[j]), counted(i)
       PROVE  Verdict[i] = IF shared THEN FAIL ELSE PASS
  <2>1. Reading(i, SEGROOM) # Unknown
    BY <1>12, <1>15
  <2>2. Verdict[i] = NoOverlap(rule, bundles, group, i)
    BY <1>5, <1>10, <1>11, <1>13, <1>15, <2>1
  <2>3. i \notin unread /\ unread = {}
    BY <1>13, <1>15
  <2>4. shared <=> \E j \in group \ unread : Clash(j)
    BY <1>9, <1>15, <2>1, <2>3
  <2>. QED BY <1>7, <2>2, <2>3, <2>4
<1>16. ASSUME \A j \in DOMAIN bundles : Whole(bundles[j]), ~counted(i)
       PROVE  Verdict[i] = EXCLUDED
  BY <1>2, <1>5, <1>11, <1>16 DEF PASS, EXCLUDED
<1>. QED BY <1>4, <1>14, <1>15, <1>16

------------------------------------------------------------------------------
(* A closed room and its segments.                                          *)

STARTED == Inside(SEGFROM, CLOSEDFROM, CLOSEDTO)
ONGOING == Inside(CLOSEDFROM, SEGFROM, SEGTO)
UNENDED == [field |-> CLOSEDTO, operator |-> "gte", value |-> Known(Today, DATE), absent |-> HOLDS]

\* What the rule about closed rooms is given.
LEMMA ClosedRoomRead ==
  ASSUME rule = ClosedRoom, NEW b, EvidenceOK(rule, b)
  PROVE  /\ rule.control = "ooo_room_protection" /\ rule.mode = "none"
         /\ rule.scope = <<Clause(CLOSEDFROM, "exists"), UNENDED>> /\ rule.exceptions = <<>>
         /\ rule.predicates = <<STARTED, ONGOING>>
         /\ {CLOSEDFROM, CLOSEDTO, SEGFROM, SEGTO} \subseteq DOMAIN b.fields
         /\ DOMAIN b.related = {"occupancy"} /\ "occupancy" \in DOMAIN b.joins
         /\ RecordOK(b.fields) /\ Sensible(b.fields)
<1>. DEFINE c == Clause(CLOSEDFROM, "exists")
<1>1. /\ rule.control = "ooo_room_protection" /\ rule.mode = "none"
      /\ rule.scope = <<c, UNENDED>> /\ rule.exceptions = <<>>
      /\ rule.predicates = <<STARTED, ONGOING>>
  BY DEF ClosedRoom, Rule, UNENDED, STARTED, ONGOING
<1>2. {CLOSEDFROM, CLOSEDTO, SEGFROM, SEGTO} \subseteq DOMAIN b.fields
  <2>1. UNENDED \in ToSet(rule.scope) /\ ONGOING \in ToSet(rule.predicates)
    <3>1. DOMAIN <<c, UNENDED>> = {1, 2} /\ DOMAIN <<STARTED, ONGOING>> = {1, 2}
      OBVIOUS
    <3>. QED BY <1>1, <3>1 DEF ToSet
  <2>2. Operands(UNENDED) \subseteq DOMAIN b.fields /\ Operands(ONGOING) \subseteq DOMAIN b.fields
    BY <2>1 DEF EvidenceOK
  <2>. QED BY <2>2 DEF Operands, UNENDED, ONGOING, Inside
<1>. QED BY <1>1, <1>2 DEF EvidenceOK

\* What the closure of a room is.
LEMMA ClosureRead ==
  ASSUME rule = ClosedRoom, NEW i \in DOMAIN bundles, EvidenceOK(rule, bundles[i])
  PROVE  LET cf == Reading(i, CLOSEDFROM)
             ct == Reading(i, CLOSEDTO)
         IN  /\ \A v \in {cf, ct} : v = Unknown \/ v = Absent \/ Read(v)
             /\ \A v \in {cf, ct} : Read(v) => v.unit = DATE /\ v.payload \in Days
             /\ Read(cf) /\ Read(ct) => cf.payload <= ct.payload
<1>1. /\ {CLOSEDFROM, CLOSEDTO} \subseteq DOMAIN bundles[i].fields
      /\ RecordOK(bundles[i].fields) /\ Sensible(bundles[i].fields)
  BY ClosedRoomRead
<1>2. ASSUME NEW f \in {CLOSEDFROM, CLOSEDTO}, Read(Reading(i, f))
      PROVE  Reading(i, f).unit = DATE /\ Reading(i, f).payload \in Days
  <2>1. IsReading(f, Reading(i, f)) /\ f \in DATES /\ Reading(i, f) # Absent
    BY <1>1, <1>2 DEF RecordOK, Reading, Read, DATES
  <2>2. Reading(i, f) = Known(Reading(i, f).payload, DATE) /\ Reading(i, f).payload \in Days
    BY <2>1, ReadingIs
  <2>. QED BY <2>2, Readable
<1>3. Read(Reading(i, CLOSEDFROM)) /\ Read(Reading(i, CLOSEDTO)) =>
        Reading(i, CLOSEDFROM).payload <= Reading(i, CLOSEDTO).payload
  BY <1>1, <1>2, ReadingsAssumption DEF Sensible, InOrder, Reading, Days
<1>. QED BY <1>2, <1>3 DEF Read

\* A closure concerns a run when it has not ended before it.
LEMMA ClosureConcerns ==
  ASSUME rule = ClosedRoom, NEW i \in DOMAIN bundles, EvidenceOK(rule, bundles[i])
  PROVE  LET cf == Reading(i, CLOSEDFROM)
             ct == Reading(i, CLOSEDTO)
         IN  Concerns(i) <=> Read(cf) /\ (ct = Absent \/ (Read(ct) /\ ct.payload >= Today))
<1>. DEFINE cf == Reading(i, CLOSEDFROM)
            ct == Reading(i, CLOSEDTO)
<1>1. /\ \A v \in {cf, ct} : Read(v) => v.unit = DATE /\ v.payload \in Days
      /\ Read(cf) /\ Read(ct) => cf.payload <= ct.payload
  BY ClosureRead
<1>2. Concerns(i) <=> \E d \in Closure(i) : d >= Today
  <2>1. rule.control = "ooo_room_protection"
    BY ClosedRoomRead
  <2>. QED BY <2>1 DEF Concerns, MoneyOwed, Capacity, InactiveRoom, TypeValidity, Duplicates,
                      Occupancy, ClosedRoom, Rule, Grouped
<1>3. \A d \in Days : d \in Closure(i) <=>
        /\ Read(cf) /\ d >= cf.payload
        /\ ct = Absent \/ (Read(ct) /\ d <= ct.payload)
  BY DEF Closure
<1>4. Today \in Days /\ Days \subseteq Int
  BY ReadingsAssumption DEF Days
<1>. HIDE DEF cf, ct
<1>5. ASSUME NEW d \in Closure(i), d >= Today
      PROVE  Read(cf) /\ (ct = Absent \/ (Read(ct) /\ ct.payload >= Today))
  <2>1. d \in Days
    BY DEF Closure
  <2>2. /\ Read(cf) /\ d >= cf.payload
        /\ ct = Absent \/ (Read(ct) /\ d <= ct.payload)
    BY <1>3, <1>5, <2>1
  <2>3. Read(ct) => ct.payload \in Int
    BY <1>1, <1>4
  <2>. QED BY <1>4, <1>5, <2>1, <2>2, <2>3
<1>6. ASSUME Read(cf), ct = Absent \/ (Read(ct) /\ ct.payload >= Today)
      PROVE  \E d \in Closure(i) : d >= Today
  <2>1. /\ cf.payload \in Days /\ cf.payload \in Int /\ Today \in Int
        /\ Read(ct) => ct.payload \in Int /\ ct.payload >= Today
    BY <1>1, <1>4, <1>6, Readable DEF Read
  <2>2. PICK d \in {cf.payload, Today} : d >= cf.payload /\ d >= Today
    BY <2>1
  <2>3. Read(ct) => d <= ct.payload
    BY <1>1, <1>4, <1>6, <2>1, <2>2
  <2>4. d \in Closure(i)
    BY <1>3, <1>4, <1>6, <2>1, <2>2, <2>3
  <2>. QED BY <2>2, <2>4
<1>. QED BY <1>2, <1>5, <1>6 DEF cf, ct

\* Which closures are looked at.
LEMMA ClosureAdmitted ==
  ASSUME rule = ClosedRoom, NEW i \in DOMAIN bundles, EvidenceOK(rule, bundles[i])
  PROVE  LET cf == Reading(i, CLOSEDFROM)
             ct == Reading(i, CLOSEDTO)
             admitted == Admitted(rule, bundles[i])
         IN  /\ admitted \in {PASS, EXCLUDED, UNKNOWN}
             /\ admitted = PASS => Concerns(i)
             /\ cf # Unknown /\ ct # Unknown =>
                  admitted = IF Concerns(i) THEN PASS ELSE EXCLUDED
<1>. DEFINE b == bundles[i]
            cf == Reading(i, CLOSEDFROM)
            ct == Reading(i, CLOSEDTO)
            c == Clause(CLOSEDFROM, "exists")
            d == UNENDED
<1>1. /\ rule.scope = <<c, d>> /\ rule.exceptions = <<>>
      /\ {CLOSEDFROM, CLOSEDTO} \subseteq DOMAIN b.fields /\ DOMAIN b.related = {"occupancy"}
  BY ClosedRoomRead
<1>2. EntityOf(CLOSEDFROM) \notin DOMAIN b.related /\ EntityOf(CLOSEDTO) \notin DOMAIN b.related
  BY <1>1, FieldsAre
<1>3. /\ cf = Unknown => Evaluate(c, b) = UNSURE
      /\ cf = Absent => Evaluate(c, b) = FAILS
      /\ Read(cf) => Evaluate(c, b) = HOLDS
  BY <1>1, <1>2, ExistsSays DEF Reading
<1>4. Evaluate(d, b) = Ordered("gte", ct, Known(Today, DATE), HOLDS)
  <2>1. /\ d.field = CLOSEDTO /\ d.operator = "gte" /\ d.absent = HOLDS /\ Operands(d) = {CLOSEDTO}
        /\ RightOf(d, b) = Known(Today, DATE) /\ ~Unsupplied(d)
    BY Readable DEF UNENDED, Operands, Unsupplied, RightOf, Read
  <2>2. ~ReadsCollection(d, b)
    BY <1>2, <2>1 DEF ReadsCollection, Entities
  <2>3. Field(b, CLOSEDTO) = ct
    BY <1>1 DEF Field, Reading
  <2>. HIDE DEF d, b
  <2>. QED BY <1>1, <2>1, <2>2, <2>3, EvaluateByOperator DEF ORDERINGS, b
<1>5. /\ \A v \in {cf, ct} : v = Unknown \/ v = Absent \/ Read(v)
      /\ Read(ct) => ct.unit = DATE /\ ct.payload \in Days
  BY ClosureRead
<1>6. /\ ct = Absent => Evaluate(d, b) = HOLDS
      /\ ct = Unknown => Evaluate(d, b) = UNSURE
      /\ Read(ct) => Evaluate(d, b) = Ruling(ct.payload >= Today)
  BY <1>4, <1>5, Readable DEF Ordered, Comparable, Read
<1>7. Concerns(i) <=> Read(cf) /\ (ct = Absent \/ (Read(ct) /\ ct.payload >= Today))
  BY ClosureConcerns
<1>8. Results(rule.scope, b) = {Evaluate(c, b), Evaluate(d, b)} /\ Results(rule.exceptions, b) = {}
  <2>. HIDE DEF b, c, d
  <2>. QED BY <1>1, ResultsOf
<1>9. /\ Unknown # Absent /\ ~Read(Absent) /\ ~Read(Unknown)
  BY Readable DEF Read
<1>. HIDE DEF b, c, d, cf, ct
<1>10. Admitted(rule, b) =
         IF FAILS \in {Evaluate(c, b), Evaluate(d, b)} THEN EXCLUDED
         ELSE IF UNSURE \in {Evaluate(c, b), Evaluate(d, b)} THEN UNKNOWN ELSE PASS
  BY <1>8 DEF Admitted
<1>11. /\ Evaluate(c, b) \in {HOLDS, FAILS, UNSURE} /\ Evaluate(d, b) \in {HOLDS, FAILS, UNSURE}
       /\ Evaluate(c, b) = HOLDS <=> Read(cf)
       /\ Evaluate(d, b) = HOLDS <=> (ct = Absent \/ (Read(ct) /\ ct.payload >= Today))
       /\ cf # Unknown => Evaluate(c, b) # UNSURE
       /\ ct # Unknown => Evaluate(d, b) # UNSURE
  <2>1. cf = Unknown \/ cf = Absent \/ Read(cf)
    BY <1>5
  <2>2. ct = Unknown \/ ct = Absent \/ Read(ct)
    BY <1>5
  <2>. QED BY <1>3, <1>6, <1>9, <2>1, <2>2 DEF Ruling, HOLDS, FAILS, UNSURE
<1>12. Concerns(i) <=> Evaluate(c, b) = HOLDS /\ Evaluate(d, b) = HOLDS
  BY <1>7, <1>11
<1>. HIDE DEF Concerns
<1>. QED BY <1>10, <1>11, <1>12 DEF b, cf, ct, HOLDS, FAILS, UNSURE, PASS, EXCLUDED, UNKNOWN
\* What the two predicates ask of one segment.
SegmentResults(b, r) ==
  {Evaluate(STARTED, View(b, "occupancy", r)), Evaluate(ONGOING, View(b, "occupancy", r))}

\* Each predicate compares the segment with the closure.
LEMMA SegmentAsked ==
  ASSUME rule = ClosedRoom, NEW b, EvidenceOK(rule, b), BundleOK(b), NEW r, SegmentOK(r)
  PROVE  LET cf == b.fields[CLOSEDFROM]
             ct == b.fields[CLOSEDTO]
         IN  /\ Evaluate(STARTED, View(b, "occupancy", r)) = Within(r[SEGFROM], cf, ct)
             /\ Evaluate(ONGOING, View(b, "occupancy", r)) = Within(cf, r[SEGFROM], r[SEGTO])
<1>. DEFINE v == View(b, "occupancy", r)
            s == STARTED
            o == ONGOING
<1>1. /\ {CLOSEDFROM, CLOSEDTO, SEGFROM, SEGTO} \subseteq DOMAIN b.fields
      /\ DOMAIN b.related = {"occupancy"}
  BY ClosedRoomRead
<1>2. DOMAIN r = {SEGFROM, SEGTO}
  BY DEF SegmentOK
<1>3. /\ v.fields = [f \in DOMAIN b.fields \union DOMAIN r |->
                       IF f \in DOMAIN r THEN r[f] ELSE b.fields[f]]
      /\ DOMAIN v.related = {}
  BY <1>1 DEF View, BundleOK
<1>4. CLOSEDFROM \notin {SEGFROM, SEGTO} /\ CLOSEDTO \notin {SEGFROM, SEGTO}
  BY DEF CLOSEDFROM, CLOSEDTO, SEGFROM, SEGTO
<1>. HIDE DEF v
<1>5. /\ Field(v, SEGFROM) = r[SEGFROM] /\ Field(v, SEGTO) = r[SEGTO]
      /\ Field(v, CLOSEDFROM) = b.fields[CLOSEDFROM] /\ Field(v, CLOSEDTO) = b.fields[CLOSEDTO]
      /\ {CLOSEDFROM, CLOSEDTO, SEGFROM, SEGTO} \subseteq DOMAIN v.fields
  BY <1>1, <1>2, <1>3, <1>4 DEF Field
<1>6. /\ s.field = SEGFROM /\ s.start = CLOSEDFROM /\ s.end = CLOSEDTO /\ s.operator = "within"
      /\ o.field = CLOSEDFROM /\ o.start = SEGFROM /\ o.end = SEGTO /\ o.operator = "within"
      /\ Operands(s) \subseteq {CLOSEDFROM, CLOSEDTO, SEGFROM, SEGTO}
      /\ Operands(o) \subseteq {CLOSEDFROM, CLOSEDTO, SEGFROM, SEGTO}
      /\ ~Unsupplied(s) /\ ~Unsupplied(o)
  BY DEF STARTED, ONGOING, Inside, Operands, Unsupplied
<1>7. ~ReadsCollection(s, v) /\ ~ReadsCollection(o, v)
  BY <1>3 DEF ReadsCollection
<1>. HIDE DEF s, o
<1>8. /\ Evaluate(s, v) = Within(Field(v, s.field), Field(v, s.start), Field(v, s.end))
      /\ Evaluate(o, v) = Within(Field(v, o.field), Field(v, o.start), Field(v, o.end))
  BY <1>5, <1>6, <1>7, EvaluateByOperator
<1>. QED BY <1>5, <1>6, <1>8 DEF s, o, v

\* They find every day of the segment inside the closure, and no other.
LEMMA SegmentMeets ==
  ASSUME rule = ClosedRoom, NEW i \in DOMAIN bundles, EvidenceOK(rule, bundles[i]),
         BundleOK(bundles[i]), NEW r, SegmentOK(r), Concerns(i)
  PROVE  LET answers == SegmentResults(bundles[i], r)
         IN  /\ answers \subseteq {HOLDS, FAILS, UNSURE}
             /\ HOLDS \in answers => Occupied(r) \cap Closure(i) # {}
             /\ answers = {FAILS} => Occupied(r) \cap Closure(i) = {}
             /\ (\A f \in DOMAIN r : r[f] # Unknown) =>
                  /\ UNSURE \notin answers
                  /\ HOLDS \in answers <=> Occupied(r) \cap Closure(i) # {}
<1>. DEFINE cf == Reading(i, CLOSEDFROM)
            ct == Reading(i, CLOSEDTO)
            sf == r[SEGFROM]
            st == r[SEGTO]
            started == Within(sf, cf, ct)
            ongoing == Within(cf, sf, st)
<1>1. SegmentResults(bundles[i], r) = {started, ongoing}
  BY SegmentAsked DEF SegmentResults, Reading
<1>2. /\ Read(cf) /\ cf.unit = DATE /\ cf.payload \in Days
      /\ ct = Absent \/ (Read(ct) /\ ct.unit = DATE /\ ct.payload \in Days)
  BY ClosureRead, ClosureConcerns
<1>3. Read(ct) => cf.payload <= ct.payload
  BY <1>2, ClosureRead
<1>4. DOMAIN r = {SEGFROM, SEGTO}
  BY DEF SegmentOK
<1>5. \A x \in {sf, st} : x # Unknown => Read(x) /\ x.unit = DATE /\ x.payload \in Days
  <2>1. ASSUME NEW f \in {SEGFROM, SEGTO}, r[f] # Unknown
        PROVE  Read(r[f]) /\ r[f].unit = DATE /\ r[f].payload \in Days
    <3>1. IsReading(f, r[f]) /\ f \in DATES
      BY <1>4, <2>1 DEF SegmentOK, RecordOK, DATES
    <3>2. r[f] = Known(r[f].payload, DATE) /\ r[f].payload \in Days
      BY <3>1, ReadingIs
    <3>. QED BY <3>2, Readable
  <2>. QED BY <2>1
<1>6. /\ Days \subseteq Int /\ ~Read(Absent) /\ ~Read(Unknown) /\ Unknown # Absent
  BY Readable DEF Days, Read
<1>7. /\ \A d \in Days : d \in Closure(i) <=>
           d >= cf.payload /\ (ct = Absent \/ d <= ct.payload)
      /\ Closure(i) \subseteq Days
  BY <1>2, <1>6 DEF Closure
<1>8. /\ \A d \in Days : d \in Occupied(r) <=>
           /\ sf # Unknown
           /\ d = sf.payload \/ (st # Unknown /\ sf.payload <= d /\ d <= st.payload)
      /\ Occupied(r) \subseteq Days
  <2>1. \A x \in {sf, st} : Read(x) <=> x # Unknown
    BY <1>5, <1>6
  <2>2. \A d \in Days : Read(sf) /\ Read(st) =>
          (d \in sf.payload .. st.payload <=> sf.payload <= d /\ d <= st.payload)
    BY <1>5, <1>6, <2>1
  <2>3. Occupied(r) = {d \in Days : /\ Read(sf)
                                    /\ \/ d = sf.payload
                                       \/ Read(st) /\ d \in sf.payload .. st.payload}
    BY DEF Occupied
  <2>. HIDE DEF sf, st
  <2>. QED BY <2>1, <2>2, <2>3
<1>9. /\ sf = Unknown => started = UNSURE /\ ongoing = UNSURE
      /\ sf # Unknown => started = Ruling(/\ sf.payload >= cf.payload
                                          /\ ct = Absent \/ sf.payload <= ct.payload)
      /\ st = Unknown => ongoing = UNSURE
      /\ sf # Unknown /\ st # Unknown =>
           ongoing = Ruling(cf.payload >= sf.payload /\ cf.payload <= st.payload)
  <2>1. cf # Unknown /\ cf # Absent /\ ct # Unknown
    BY <1>2, <1>6
  <2>2. sf # Unknown => sf # Absent /\ sf.unit = DATE
    BY <1>5, <1>6
  <2>3. st # Unknown => st # Absent
    BY <1>5, <1>6
  <2>. HIDE DEF cf, ct, sf, st
  <2>. QED BY <1>2, <2>1, <2>2, <2>3 DEF Within
<1>. HIDE DEF cf, ct, sf, st, started, ongoing
<1>10. /\ started \in {HOLDS, FAILS, UNSURE} /\ ongoing \in {HOLDS, FAILS, UNSURE}
       /\ sf # Unknown <=> started # UNSURE
       /\ ongoing # UNSURE <=> sf # Unknown /\ st # Unknown
  BY <1>9 DEF Ruling, HOLDS, FAILS, UNSURE
<1>11. ASSUME HOLDS \in {started, ongoing} PROVE Occupied(r) \cap Closure(i) # {}
  <2>1. CASE started = HOLDS
    <3>1. sf # Unknown /\ sf.payload >= cf.payload /\ (ct = Absent \/ sf.payload <= ct.payload)
      BY <1>9, <1>10, <2>1 DEF Ruling, HOLDS, FAILS, UNSURE
    <3>2. sf.payload \in Occupied(r) \cap Closure(i)
      BY <1>5, <1>7, <1>8, <3>1
    <3>. QED BY <3>2
  <2>2. CASE ongoing = HOLDS
    <3>1. /\ sf # Unknown /\ st # Unknown
          /\ cf.payload >= sf.payload /\ cf.payload <= st.payload
      BY <1>9, <1>10, <2>2 DEF Ruling, HOLDS, FAILS, UNSURE
    <3>2. cf.payload \in Occupied(r)
      BY <1>2, <1>5, <1>6, <1>8, <3>1
    <3>3. cf.payload \in Closure(i)
      <4>1. cf.payload \in Int /\ cf.payload \in Days
        BY <1>2, <1>6
      <4>2. ct = Absent \/ cf.payload <= ct.payload
        BY <1>2, <1>3
      <4>. QED BY <1>7, <4>1, <4>2
    <3>. QED BY <3>2, <3>3
  <2>. QED BY <1>11, <2>1, <2>2
<1>12. ASSUME sf # Unknown, st # Unknown, NEW d \in Occupied(r) \cap Closure(i)
       PROVE  HOLDS \in {started, ongoing}
  <2>1. /\ d \in Days /\ d \in Int
        /\ sf.payload \in Int /\ st.payload \in Int /\ cf.payload \in Int
        /\ ct # Absent => ct.payload \in Int
    BY <1>2, <1>5, <1>6, <1>8, <1>12
  <2>2. /\ d = sf.payload \/ (sf.payload <= d /\ d <= st.payload)
        /\ d >= cf.payload /\ (ct = Absent \/ d <= ct.payload)
    BY <1>7, <1>8, <1>12, <2>1
  <2>3. CASE sf.payload >= cf.payload
    <3>1. ct = Absent \/ sf.payload <= ct.payload
      BY <1>2, <1>6, <2>1, <2>2
    <3>. QED BY <1>9, <1>12, <2>3, <3>1 DEF Ruling
  <2>4. CASE ~(sf.payload >= cf.payload)
    <3>1. cf.payload >= sf.payload /\ cf.payload <= st.payload
      BY <1>6, <2>1, <2>2, <2>4
    <3>. QED BY <1>9, <1>12, <3>1 DEF Ruling
  <2>. QED BY <2>3, <2>4
<1>13. (\A f \in DOMAIN r : r[f] # Unknown) => sf # Unknown /\ st # Unknown
  BY <1>4 DEF sf, st
<1>14. {started, ongoing} = {FAILS} => sf # Unknown /\ st # Unknown /\ HOLDS \notin {started, ongoing}
  BY <1>10 DEF HOLDS, FAILS, UNSURE
<1>. QED BY <1>1, <1>10, <1>11, <1>12, <1>13, <1>14
\* What is found of a room's segments, all of them.
Found(b) == OfEachRecord(STARTED, "occupancy", b) \union OfEachRecord(ONGOING, "occupancy", b)

\* A closure is judged on what is found of its segments, and on the dates asked for.
LEMMA ClosedRoomJudged ==
  ASSUME rule = ClosedRoom, NEW i \in DOMAIN bundles, EvidenceOK(rule, bundles[i])
  PROVE  LET b == bundles[i]
         IN  Verdict[i] = IF Admitted(rule, b) # PASS THEN Admitted(rule, b)
                          ELSE IF HOLDS \in Found(b) THEN FAIL
                          ELSE IF UNSURE \in Found(b) \/ ~Covered(rule.predicates, "occupancy", b)
                          THEN UNKNOWN ELSE PASS
<1>. DEFINE b == bundles[i]
            s == STARTED
            o == ONGOING
            ps == rule.predicates
            found == UNION {OfPredicate(ps[k], b) : k \in DOMAIN ps}
            entities == DOMAIN b.related \cap UNION {Entities(ps[k]) : k \in DOMAIN ps}
<1>1. /\ rule.mode = "none" /\ ps = <<s, o>> /\ DOMAIN b.related = {"occupancy"}
  BY ClosedRoomRead
<1>2. /\ Entities(s) = {"occupancy", "room"} /\ Entities(o) = {"occupancy", "room"}
  <2>1. /\ Operands(s) = {SEGFROM, CLOSEDFROM, CLOSEDTO}
        /\ Operands(o) = {CLOSEDFROM, SEGFROM, SEGTO}
    BY DEF STARTED, ONGOING, Inside, Operands
  <2>2. /\ EntityOf(SEGFROM) = "occupancy" /\ EntityOf(SEGTO) = "occupancy"
        /\ EntityOf(CLOSEDFROM) = "room" /\ EntityOf(CLOSEDTO) = "room"
    BY FieldsAre
  <2>. QED BY <2>1, <2>2 DEF Entities
<1>. HIDE DEF s, o, b, ps
<1>3. DOMAIN ps = {1, 2} /\ ps[1] = s /\ ps[2] = o
  BY <1>1
<1>4. /\ OfPredicate(s, b) = OfEachRecord(s, "occupancy", b)
      /\ OfPredicate(o, b) = OfEachRecord(o, "occupancy", b)
  <2>1. "room" # "occupancy"
    OBVIOUS
  <2>2. /\ Entities(s) \cap DOMAIN b.related = {"occupancy"}
        /\ Entities(o) \cap DOMAIN b.related = {"occupancy"}
    BY <1>1, <1>2, <2>1
  <2>. QED BY <2>2, OfOneCollection
<1>5. found = Found(b)
  <2>1. {OfPredicate(ps[k], b) : k \in DOMAIN ps} = {OfPredicate(s, b), OfPredicate(o, b)}
    BY <1>3
  <2>2. found = OfPredicate(s, b) \union OfPredicate(o, b)
    BY <2>1
  <2>. QED BY <1>4, <2>2 DEF Found, s, o
<1>6. entities = {"occupancy"}
  <2>1. UNION {Entities(ps[k]) : k \in DOMAIN ps} = {"occupancy", "room"}
    <3>1. {Entities(ps[k]) : k \in DOMAIN ps} = {{"occupancy", "room"}}
      BY <1>2, <1>3
    <3>. QED BY <3>1
  <2>. QED BY <1>1, <2>1
<1>7. \E k \in DOMAIN ps : ReadsCollection(ps[k], b)
  BY <1>1, <1>2, <1>3 DEF ReadsCollection
<1>8. Verdict[i] = OfRecord(rule, b)
  BY <1>1 DEF Verdict, Verdicts, b
<1>9. JudgeCollection(ps, b) =
        IF HOLDS \in found THEN FAIL
        ELSE IF UNSURE \in found \/ \E e \in entities : ~Covered(ps, e, b)
        THEN UNKNOWN ELSE PASS
  BY DEF JudgeCollection
<1>10. OfRecord(rule, b) = IF Admitted(rule, b) # PASS THEN Admitted(rule, b)
                           ELSE JudgeCollection(ps, b)
  BY <1>1, <1>7 DEF OfRecord, ps
<1>11. (\E e \in entities : ~Covered(ps, e, b)) <=> ~Covered(ps, "occupancy", b)
  BY <1>6
<1>. HIDE DEF found, entities
<1>12. JudgeCollection(ps, b) =
         IF HOLDS \in Found(b) THEN FAIL
         ELSE IF UNSURE \in Found(b) \/ ~Covered(ps, "occupancy", b) THEN UNKNOWN ELSE PASS
  <2>1. CASE HOLDS \in found
    BY <1>5, <1>9, <2>1
  <2>2. CASE HOLDS \notin found /\ (UNSURE \in found \/ ~Covered(ps, "occupancy", b))
    BY <1>5, <1>9, <1>11, <2>2
  <2>3. CASE HOLDS \notin found /\ ~(UNSURE \in found \/ ~Covered(ps, "occupancy", b))
    BY <1>5, <1>9, <1>11, <2>3
  <2>. QED BY <2>1, <2>2, <2>3
<1>. QED BY <1>8, <1>10, <1>12 DEF b, ps

\* And what that says of the segments.
LEMMA SegmentsFound ==
  ASSUME rule = ClosedRoom, NEW i \in DOMAIN bundles, EvidenceOK(rule, bundles[i]),
         BundleOK(bundles[i]), Concerns(i)
  PROVE  LET b     == bundles[i]
             own   == b.related["occupancy"]
             maybe == b.unplaced["occupancy"]
         IN  /\ HOLDS \in Found(b) => \E r \in own : Occupied(r) \cap Closure(i) # {}
             /\ HOLDS \notin Found(b) /\ UNSURE \notin Found(b) =>
                  \A r \in own \union maybe : Occupied(r) \cap Closure(i) = {}
             /\ /\ b.joins["occupancy"] # UNSURE /\ maybe = {}
                /\ \A r \in own : \A f \in DOMAIN r : r[f] # Unknown
                => /\ UNSURE \notin Found(b)
                   /\ HOLDS \in Found(b) <=> \E r \in own : Occupied(r) \cap Closure(i) # {}
<1>. DEFINE b     == bundles[i]
            own   == b.related["occupancy"]
            maybe == b.unplaced["occupancy"]
            answers(r) == SegmentResults(b, r)
<1>1. \A r \in own \union maybe : SegmentOK(r)
  BY DEF EvidenceOK
<1>2. \A r \in own \union maybe :
        /\ answers(r) \subseteq {HOLDS, FAILS, UNSURE}
        /\ HOLDS \in answers(r) => Occupied(r) \cap Closure(i) # {}
        /\ answers(r) = {FAILS} => Occupied(r) \cap Closure(i) = {}
        /\ (\A f \in DOMAIN r : r[f] # Unknown) =>
             /\ UNSURE \notin answers(r)
             /\ HOLDS \in answers(r) <=> Occupied(r) \cap Closure(i) # {}
  BY <1>1, SegmentMeets
<1>3. Joined(b, "occupancy") = b.joins["occupancy"]
  BY ClosedRoomRead DEF Joined
<1>. HIDE DEF own, maybe
<1>4. CASE Joined(b, "occupancy") = UNSURE
  <2>1. Found(b) = {UNSURE}
    BY <1>4 DEF Found, OfEachRecord
  <2>. QED BY <1>3, <1>4, <2>1 DEF HOLDS, UNSURE, own, maybe
<1>5. CASE Joined(b, "occupancy") # UNSURE
  <2>. DEFINE S(r) == Evaluate(STARTED, View(b, "occupancy", r))
              O(r) == Evaluate(ONGOING, View(b, "occupancy", r))
  <2>1. \A r : answers(r) = {S(r), O(r)}
    BY DEF SegmentResults
  <2>2. Found(b) = ({S(r) : r \in own} \union {OfUnplaced(S(r)) : r \in maybe})
                     \union ({O(r) : r \in own} \union {OfUnplaced(O(r)) : r \in maybe})
    BY <1>5 DEF Found, OfEachRecord, own, maybe
  <2>. HIDE DEF S, O
  <2>3. /\ HOLDS # UNSURE /\ FAILS # UNSURE /\ HOLDS # FAILS
        /\ \A x : OfUnplaced(x) \in {FAILS, UNSURE} /\ (OfUnplaced(x) = FAILS => x = FAILS)
    BY DEF HOLDS, FAILS, UNSURE, OfUnplaced
  <2>4. HOLDS \in Found(b) <=> \E r \in own : HOLDS \in answers(r)
    <3>1. HOLDS \in Found(b) <=> \E r \in own : HOLDS = S(r) \/ HOLDS = O(r)
      BY <2>2, <2>3
    <3>2. \A r : HOLDS \in answers(r) <=> HOLDS = S(r) \/ HOLDS = O(r)
      BY <2>1
    <3>. QED BY <3>1, <3>2
  <2>5. ASSUME HOLDS \notin Found(b), UNSURE \notin Found(b), NEW r \in own \union maybe
        PROVE  Occupied(r) \cap Closure(i) = {}
    <3>1. S(r) \in {HOLDS, FAILS, UNSURE} /\ O(r) \in {HOLDS, FAILS, UNSURE}
      BY <1>2, <2>1
    <3>2. S(r) = FAILS /\ O(r) = FAILS
      BY <2>2, <2>3, <2>5, <3>1
    <3>. QED BY <1>2, <2>1, <3>2
  <2>6. ASSUME maybe = {}, \A r \in own : \A f \in DOMAIN r : r[f] # Unknown
        PROVE  /\ UNSURE \notin Found(b)
               /\ HOLDS \in Found(b) <=> \E r \in own : Occupied(r) \cap Closure(i) # {}
    <3>1. \A r \in own : /\ UNSURE \notin answers(r)
                         /\ HOLDS \in answers(r) <=> Occupied(r) \cap Closure(i) # {}
      BY <1>2, <2>6
    <3>2. UNSURE \in Found(b) => \E r \in own : UNSURE \in answers(r)
      BY <2>1, <2>2, <2>6
    <3>. QED BY <2>4, <3>1, <3>2
  <2>7. HOLDS \in Found(b) => \E r \in own : Occupied(r) \cap Closure(i) # {}
    BY <1>2, <2>4
  <2>. QED BY <1>3, <2>5, <2>6, <2>7 DEF own, maybe
<1>. QED BY <1>4, <1>5
\* The later of two days, and the earlier of one.
LEMMA MaxOfTwo ==
  ASSUME NEW a \in Int, NEW b \in Int
  PROVE  Max({a, b}) = IF a >= b THEN a ELSE b
<1>1. \E x \in {a, b} : \A y \in {a, b} : x >= y
  OBVIOUS
<1>2. Max({a, b}) \in {a, b} /\ \A y \in {a, b} : Max({a, b}) >= y
  BY <1>1 DEF Max
<1>. QED BY <1>2

LEMMA MinOfOne ==
  ASSUME NEW a \in Int
  PROVE  Min({a}) = a
<1>1. \E x \in {a} : \A y \in {a} : x <= y
  OBVIOUS
<1>. QED BY <1>1 DEF Min

\* The first day of a closure that a window asked on a day can answer for.
FirstAsked(w, from) == IF w.asked_on >= from THEN w.asked_on ELSE from

\* A window covers a closure that ends inside it, and starts no earlier than the window
\* or the day it was asked on.
LEMMA ClosureCovered ==
  ASSUME rule = ClosedRoom, NEW i \in DOMAIN bundles, EvidenceOK(rule, bundles[i]), Concerns(i)
  PROVE  LET cf == Reading(i, CLOSEDFROM)
             ct == Reading(i, CLOSEDTO)
             ws == bundles[i].window["occupancy"]
         IN  Covered(rule.predicates, "occupancy", bundles[i]) <=>
               /\ ws # {} /\ ct # Absent
               /\ \A w \in ws : /\ ct.payload >= FirstAsked(w, cf.payload)
                                /\ FirstAsked(w, cf.payload) >= w.start
                                /\ ct.payload <= w.end
<1>. DEFINE b == bundles[i]
            cf == Reading(i, CLOSEDFROM)
            ct == Reading(i, CLOSEDTO)
            ws == b.window["occupancy"]
            ps == rule.predicates
            reading == {k \in DOMAIN ps : "occupancy" \in Entities(ps[k])}
            spans == UNION {Span(ps[k], "occupancy", b) : k \in reading}
            starts == {s[1] : s \in spans}
            ends == {s[2] : s \in spans}
            Low(w) == IF Absent \in starts THEN w.asked_on
                      ELSE Max({w.asked_on, Min({s.payload : s \in starts})})
            last == Max({s.payload : s \in ends})
<1>1. /\ ps = <<STARTED, ONGOING>>
      /\ {CLOSEDFROM, CLOSEDTO, SEGFROM, SEGTO} \subseteq DOMAIN b.fields
  BY ClosedRoomRead
<1>2. /\ Read(cf) /\ cf.unit = DATE /\ cf.payload \in Days /\ cf.payload \in Int
      /\ ct = Absent \/ (Read(ct) /\ ct.unit = DATE /\ ct.payload \in Days /\ ct.payload \in Int)
      /\ Read(ct) => cf.payload <= ct.payload
      /\ cf # Absent
  BY ClosureRead, ClosureConcerns, Readable DEF Days, Read
<1>3. \A w \in ws : w.start \in Int /\ w.end \in Int /\ w.asked_on \in Int
  BY DEF EvidenceOK
<1>4. /\ EntityOf(SEGFROM) = "occupancy" /\ EntityOf(SEGTO) = "occupancy"
      /\ EntityOf(CLOSEDFROM) # "occupancy" /\ EntityOf(CLOSEDTO) # "occupancy"
  BY FieldsAre
<1>5. Field(b, CLOSEDFROM) = cf /\ Field(b, CLOSEDTO) = ct
  BY <1>1 DEF Field, Reading
<1>6. Span(STARTED, "occupancy", b) = {<<cf, ct>>}
  <2>1. /\ STARTED.operator = "within" /\ STARTED.field = SEGFROM
        /\ STARTED.start = CLOSEDFROM /\ STARTED.end = CLOSEDTO
    BY DEF STARTED, Inside
  <2>. HIDE DEF b, cf, ct
  <2>. QED BY <1>2, <1>4, <1>5, <2>1 DEF Span
<1>7. Span(ONGOING, "occupancy", b) = {<<cf, cf>>}
  <2>1. /\ ONGOING.operator = "within" /\ ONGOING.field = CLOSEDFROM
        /\ ONGOING.start = SEGFROM /\ ONGOING.end = SEGTO
    BY DEF ONGOING, Inside
  <2>. HIDE DEF b, cf, ct
  <2>. QED BY <1>2, <1>4, <1>5, <2>1 DEF Span
<1>8. "occupancy" \in Entities(STARTED) /\ "occupancy" \in Entities(ONGOING)
  <2>1. SEGFROM \in Operands(STARTED) /\ SEGFROM \in Operands(ONGOING)
    BY DEF STARTED, ONGOING, Inside, Operands
  <2>. QED BY <1>4, <2>1 DEF Entities
<1>. HIDE DEF b, cf, ct, ws, ps
<1>9. DOMAIN ps = {1, 2} /\ ps[1] = STARTED /\ ps[2] = ONGOING
  BY <1>1
<1>10. reading = {1, 2}
  BY <1>8, <1>9
<1>11. /\ \A k \in reading : Span(ps[k], "occupancy", b) # {}
       /\ spans = {<<cf, ct>>, <<cf, cf>>}
  <2>. HIDE DEF reading
  <2>1. {Span(ps[k], "occupancy", b) : k \in reading} = {{<<cf, ct>>}, {<<cf, cf>>}}
    BY <1>6, <1>7, <1>9, <1>10
  <2>2. \A k \in reading : Span(ps[k], "occupancy", b) # {}
    BY <1>6, <1>7, <1>9, <1>10
  <2>3. UNION {{<<cf, ct>>}, {<<cf, cf>>}} = {<<cf, ct>>, <<cf, cf>>}
    OBVIOUS
  <2>. QED BY <2>1, <2>2, <2>3
<1>. HIDE DEF spans, reading
<1>12. starts = {cf} /\ ends = {ct, cf}
  <2>1. {<<cf, ct>>[1], <<cf, cf>>[1]} = {cf} /\ {<<cf, ct>>[2], <<cf, cf>>[2]} = {ct, cf}
    OBVIOUS
  <2>2. /\ starts = {<<cf, ct>>[1], <<cf, cf>>[1]}
        /\ ends = {<<cf, ct>>[2], <<cf, cf>>[2]}
    BY <1>11
  <2>. QED BY <2>1, <2>2
<1>. HIDE DEF starts, ends
<1>13. ASSUME NEW w \in ws PROVE Low(w) = FirstAsked(w, cf.payload)
  <2>1. {s.payload : s \in starts} = {cf.payload}
    BY <1>12
  <2>2. Low(w) = Max({w.asked_on, cf.payload})
    BY <1>2, <1>12, <2>1, MinOfOne
  <2>. HIDE DEF Low
  <2>. QED BY <1>2, <1>3, <2>2, MaxOfTwo DEF FirstAsked
<1>14. ASSUME ct # Absent PROVE last = ct.payload
  <2>1. {s.payload : s \in ends} = {ct.payload, cf.payload}
    BY <1>12
  <2>2. last = Max({ct.payload, cf.payload})
    BY <2>1
  <2>. HIDE DEF last
  <2>. QED BY <1>2, <1>14, <2>2, MaxOfTwo
<1>15. Covered(ps, "occupancy", b) <=>
         /\ ws # {}
         /\ \A k \in reading : Span(ps[k], "occupancy", b) # {}
         /\ Absent \notin ends
         /\ \A w \in ws : last >= Low(w) /\ Low(w) >= w.start /\ last <= w.end
  BY DEF Covered, reading, spans, starts, ends, ws
<1>. HIDE DEF Low, last
<1>. QED BY <1>2, <1>11, <1>12, <1>13, <1>14, <1>15 DEF b, cf, ct, ws, ps

\* The days of a closure that ends, from the day its window was asked on.
LEMMA DaysAsked ==
  ASSUME rule = ClosedRoom, NEW i \in DOMAIN bundles, EvidenceOK(rule, bundles[i]), Concerns(i),
         NEW w \in bundles[i].window["occupancy"], Reading(i, CLOSEDTO) # Absent
  PROVE  LET first == FirstAsked(w, Reading(i, CLOSEDFROM).payload)
             last  == Reading(i, CLOSEDTO).payload
         IN  /\ first \in Int /\ last \in Int /\ w.start \in Int /\ w.end \in Int
             /\ last >= first
             /\ {d \in Closure(i) : d >= w.asked_on} = first .. last
<1>. DEFINE cf == Reading(i, CLOSEDFROM)
            ct == Reading(i, CLOSEDTO)
            first == FirstAsked(w, cf.payload)
            last == ct.payload
            closed == {d \in Closure(i) : d >= w.asked_on}
<1>1. /\ Read(cf) /\ cf.payload \in Days /\ cf.payload \in Int
      /\ Read(ct) /\ ct.payload \in Days /\ ct.payload \in Int
      /\ cf.payload <= ct.payload /\ ct.payload >= Today
  BY ClosureRead, ClosureConcerns DEF Days
<1>2. w.start \in Int /\ w.end \in Int /\ w.asked_on \in Int /\ w.asked_on <= Today
  BY DEF EvidenceOK
<1>3. Today \in Int /\ LastDay \in Int /\ Days = 1 .. LastDay
  BY ReadingsAssumption DEF Days
<1>4. Closure(i) = {d \in Days : cf.payload <= d /\ d <= ct.payload}
  BY <1>1, <1>3 DEF Closure
<1>. HIDE DEF cf, ct
<1>5. first \in Int /\ last \in Int /\ last >= first
  BY <1>1, <1>2, <1>3 DEF FirstAsked
<1>6. ASSUME NEW d \in closed PROVE d \in first .. last
  <2>1. d \in Int /\ cf.payload <= d /\ d <= ct.payload /\ d >= w.asked_on
    BY <1>3, <1>4
  <2>. QED BY <1>1, <1>2, <2>1 DEF FirstAsked
<1>7. ASSUME NEW d \in first .. last PROVE d \in closed
  <2>1. d \in Int /\ cf.payload <= d /\ w.asked_on <= d /\ d <= ct.payload
    BY <1>1, <1>2, <1>5 DEF FirstAsked
  <2>2. 1 <= cf.payload /\ ct.payload <= LastDay
    BY <1>1, <1>3
  <2>3. d \in Days
    BY <1>1, <1>3, <2>1, <2>2
  <2>. QED BY <1>2, <1>4, <2>1, <2>3
<1>8. closed = first .. last
  <2>. HIDE DEF closed, first, last
  <2>. QED BY <1>5, <1>6, <1>7
<1>. QED BY <1>2, <1>5, <1>8 DEF cf, ct

\* What the rule about closed rooms concludes.
LEMMA ClosedRoomSays ==
  ASSUME rule = ClosedRoom, NEW i \in DOMAIN bundles, EvidenceOK(rule, bundles[i]),
         BundleOK(bundles[i])
  PROVE  LET b     == bundles[i]
             own   == b.related["occupancy"]
             maybe == b.unplaced["occupancy"]
         IN  /\ Verdict[i] = FAIL => Wrong(i)
             /\ Verdict[i] = PASS =>
                  /\ Concerns(i) /\ Covered(rule.predicates, "occupancy", b)
                  /\ \A r \in own \union maybe : Occupied(r) \cap Closure(i) = {}
             /\ /\ Reading(i, CLOSEDFROM) # Unknown /\ Reading(i, CLOSEDTO) # Unknown
                /\ b.joins["occupancy"] # UNSURE /\ maybe = {}
                /\ \A r \in own : \A f \in DOMAIN r : r[f] # Unknown
                => Verdict[i] = IF ~Concerns(i) THEN EXCLUDED ELSE IF Wrong(i) THEN FAIL
                                ELSE IF Covered(rule.predicates, "occupancy", b) THEN PASS ELSE UNKNOWN
<1>. DEFINE b     == bundles[i]
            own   == b.related["occupancy"]
            maybe == b.unplaced["occupancy"]
            wrong == \E r \in own : Occupied(r) \cap Closure(i) # {}
            covered == Covered(rule.predicates, "occupancy", b)
            read == /\ b.joins["occupancy"] # UNSURE /\ maybe = {}
                    /\ \A r \in own : \A f \in DOMAIN r : r[f] # Unknown
            clear == \A r \in own \union maybe : Occupied(r) \cap Closure(i) = {}
            asked == Reading(i, CLOSEDFROM) # Unknown /\ Reading(i, CLOSEDTO) # Unknown
            admitted == Admitted(rule, b)
<1>1. Verdict[i] = IF admitted # PASS THEN admitted
                   ELSE IF HOLDS \in Found(b) THEN FAIL
                   ELSE IF UNSURE \in Found(b) \/ ~covered THEN UNKNOWN ELSE PASS
  BY ClosedRoomJudged
<1>2. /\ admitted \in {PASS, EXCLUDED, UNKNOWN}
      /\ admitted = PASS => Concerns(i)
      /\ asked => admitted = IF Concerns(i) THEN PASS ELSE EXCLUDED
  BY ClosureAdmitted
<1>3. Concerns(i) => /\ HOLDS \in Found(b) => wrong
                     /\ HOLDS \notin Found(b) /\ UNSURE \notin Found(b) => clear
                     /\ read => UNSURE \notin Found(b) /\ (HOLDS \in Found(b) <=> wrong)
  BY SegmentsFound
<1>4. Wrong(i) <=> Concerns(i) /\ wrong
  <2>1. rule.control = "ooo_room_protection"
    BY ClosedRoomRead
  <2>. HIDE DEF Concerns
  <2>. QED BY <2>1 DEF Wrong, MoneyOwed, Capacity, InactiveRoom, TypeValidity, Duplicates,
                      Occupancy, ClosedRoom, Rule, Grouped
<1>. HIDE DEF wrong, covered, read, clear, asked, admitted
<1>5. Verdict[i] = FAIL => Wrong(i)
  BY <1>1, <1>2, <1>3, <1>4 DEF PASS, FAIL, EXCLUDED, UNKNOWN
<1>6. Verdict[i] = PASS => Concerns(i) /\ covered /\ clear
  BY <1>1, <1>2, <1>3 DEF PASS, FAIL, EXCLUDED, UNKNOWN
<1>7. asked /\ read =>
        Verdict[i] = IF ~Concerns(i) THEN EXCLUDED ELSE IF Wrong(i) THEN FAIL
                     ELSE IF covered THEN PASS ELSE UNKNOWN
  BY <1>1, <1>2, <1>3, <1>4 DEF PASS, FAIL, EXCLUDED, UNKNOWN
<1>. QED BY <1>5, <1>6, <1>7 DEF covered, read, clear, asked

\* A closure the window covers is one every day of which was asked for.
LEMMA CoveredIsAskedFor ==
  ASSUME rule = ClosedRoom, NEW i \in DOMAIN bundles, EvidenceOK(rule, bundles[i]), Concerns(i)
  PROVE  Covered(rule.predicates, "occupancy", bundles[i]) <=> AskedFor(i)
<1>. DEFINE cf == Reading(i, CLOSEDFROM)
            ct == Reading(i, CLOSEDTO)
            ws == bundles[i].window["occupancy"]
            fits(w) == /\ ct.payload >= FirstAsked(w, cf.payload)
                       /\ FirstAsked(w, cf.payload) >= w.start
                       /\ ct.payload <= w.end
            within(w) == {d \in Closure(i) : d >= w.asked_on} \subseteq w.start .. w.end
<1>1. Covered(rule.predicates, "occupancy", bundles[i]) <=>
        ws # {} /\ ct # Absent /\ \A w \in ws : fits(w)
  BY ClosureCovered
<1>2. AskedFor(i) <=> \E w \in ws : ct # Absent /\ within(w)
  BY DEF AskedFor
<1>3. ASSUME NEW w \in ws, ct # Absent PROVE fits(w) <=> within(w)
  <2>. DEFINE first == FirstAsked(w, cf.payload)
              last == ct.payload
  <2>1. /\ first \in Int /\ last \in Int /\ w.start \in Int /\ w.end \in Int
        /\ last >= first
        /\ {d \in Closure(i) : d >= w.asked_on} = first .. last
    BY <1>3, DaysAsked
  <2>2. within(w) <=> first .. last \subseteq w.start .. w.end
    BY <2>1
  <2>3. fits(w) <=> first >= w.start /\ last <= w.end
    BY <2>1
  <2>. HIDE DEF first, last, within, fits
  <2>4. ASSUME first .. last \subseteq w.start .. w.end PROVE first >= w.start /\ last <= w.end
    <3>1. first \in first .. last /\ last \in first .. last
      BY <2>1
    <3>2. first \in w.start .. w.end /\ last \in w.start .. w.end
      BY <2>4, <3>1
    <3>. QED BY <2>1, <3>2
  <2>5. ASSUME first >= w.start, last <= w.end PROVE first .. last \subseteq w.start .. w.end
    BY <2>1, <2>5
  <2>. QED BY <2>2, <2>3, <2>4, <2>5
<1>4. \A w \in ws : ws = {w}
  BY DEF EvidenceOK
<1>. HIDE DEF cf, ct, ws, fits, within
<1>. QED BY <1>1, <1>2, <1>3, <1>4

\* Nobody is in a closed room that is cleared, on a day it was asked about.
LEMMA ClosedRoomClear ==
  ASSUME rule = ClosedRoom, NEW i \in DOMAIN bundles, EvidenceOK(rule, bundles[i]),
         BundleOK(bundles[i]), Verdict[i] = PASS, NEW w \in bundles[i].window["occupancy"]
  PROVE  LET closed == {d \in Closure(i) : d >= w.asked_on}
         IN  /\ closed # {}
             /\ \A r \in bundles[i].related["occupancy"] \union bundles[i].unplaced["occupancy"] :
                  Occupied(r) \cap closed = {}
             /\ \A from \in Days, to \in Days :
                  from <= to /\ (from .. to) \cap (w.start .. w.end) = {} => (from .. to) \cap closed = {}
<1>. DEFINE cf == Reading(i, CLOSEDFROM)
            ct == Reading(i, CLOSEDTO)
            first == FirstAsked(w, cf.payload)
            last == ct.payload
            closed == {d \in Closure(i) : d >= w.asked_on}
            segments == bundles[i].related["occupancy"] \union bundles[i].unplaced["occupancy"]
<1>1. /\ Concerns(i) /\ Covered(rule.predicates, "occupancy", bundles[i])
      /\ \A r \in segments : Occupied(r) \cap Closure(i) = {}
  BY ClosedRoomSays
<1>2. ct # Absent /\ first >= w.start /\ last <= w.end
  BY <1>1, ClosureCovered
<1>3. /\ first \in Int /\ last \in Int /\ w.start \in Int /\ w.end \in Int
      /\ last >= first /\ closed = first .. last
  BY <1>1, <1>2, DaysAsked
<1>4. \A r \in segments : Occupied(r) \cap closed = {}
  BY <1>1
<1>. HIDE DEF closed, first, last, segments
<1>5. closed # {} /\ closed \subseteq w.start .. w.end
  <2>1. last \in closed
    BY <1>3
  <2>2. ASSUME NEW d \in closed PROVE d \in w.start .. w.end
    BY <1>2, <1>3, <2>2
  <2>. QED BY <2>1, <2>2
<1>. QED BY <1>4, <1>5 DEF closed, segments

------------------------------------------------------------------------------
(* The evidence stays that of a hotel.                                      *)

HotelInv ==
  /\ \E c \in Cases :
       /\ rule = c.rule /\ DOMAIN bundles = DOMAIN c.bundles
       /\ \A i \in DOMAIN bundles :
            /\ DOMAIN bundles[i].fields = DOMAIN c.bundles[i].fields
            /\ \A f \in DOMAIN bundles[i].fields :
                 f \in DOMAIN Readings /\ bundles[i].fields[f] \in Readings[f] \union {Unknown}
  /\ \A i \in DOMAIN bundles : EvidenceOK(rule, bundles[i])

\* The evidence of one record may change in what is read of it.
LEMMA EvidenceKept ==
  ASSUME NEW r, NEW b, NEW c, EvidenceOK(r, b),
         DOMAIN c.fields = DOMAIN b.fields, RecordOK(c.fields), Sensible(c.fields),
         DOMAIN c.related = DOMAIN b.related, DOMAIN c.joins = DOMAIN b.joins,
         c.window = b.window,
         r = ClosedRoom =>
           \A s \in c.related["occupancy"] \union c.unplaced["occupancy"] : SegmentOK(s)
  PROVE  EvidenceOK(r, c)
<1>1. /\ \A p \in ToSet(r.scope) \union ToSet(r.exceptions) \union ToSet(r.predicates) :
           Operands(p) \subseteq DOMAIN b.fields
      /\ r.mode = "aggregate" => r.group_by \in DOMAIN b.fields
      /\ DOMAIN b.related = IF r = ClosedRoom THEN {"occupancy"} ELSE {}
      /\ r \in {InactiveRoom, TypeValidity} => "room" \in DOMAIN b.joins
      /\ r = ClosedRoom =>
           /\ "occupancy" \in DOMAIN b.joins
           /\ \A w \in b.window["occupancy"] :
                /\ b.window["occupancy"] = {w}
                /\ w.start \in Int /\ w.end \in Int /\ w.asked_on \in Int /\ w.asked_on <= Today
  BY DEF EvidenceOK
<1>. QED BY <1>1 DEF EvidenceOK

\* A step changes the evidence of one record, and keeps it that of a hotel.
Keeps(i) ==
  /\ rule' = rule /\ DOMAIN bundles' = DOMAIN bundles
  /\ \A k \in DOMAIN bundles \ {i} : bundles'[k] = bundles[k]
  /\ DOMAIN bundles'[i].fields = DOMAIN bundles[i].fields
  /\ \A f \in DOMAIN bundles[i].fields :
       bundles'[i].fields[f] \in Readings[f] \union {bundles[i].fields[f]}
  /\ EvidenceOK(rule, bundles'[i])

\* Each action keeps the evidence that of a hotel.
LEMMA LearnKeeps ==
  ASSUME EvidenceInv, HotelInv, NEW i \in DOMAIN bundles, NEW f \in DOMAIN bundles[i].fields,
         Learn(i, f)
  PROVE  Keeps(i)
<1>. DEFINE b == bundles[i]
            c == bundles'[i]
            names == DOMAIN b.fields
            possible == {Unknown} \union UNION {Readings[g] : g \in names}
<1>1. BundleOK(b) /\ EvidenceOK(rule, b)
  BY DEF EvidenceInv, HotelInv
<1>2. PICK v \in Readings[f] : bundles' = [bundles EXCEPT ![i].fields[f] = v]
  BY DEF Learn
<1>3. /\ DOMAIN bundles' = DOMAIN bundles
      /\ \A k \in DOMAIN bundles \ {i} : bundles'[k] = bundles[k]
      /\ c = [b EXCEPT !.fields = [b.fields EXCEPT ![f] = v]]
  BY <1>2
<1>4. /\ c.fields = [b.fields EXCEPT ![f] = v] /\ c.joins = b.joins /\ c.related = b.related
      /\ c.unplaced = b.unplaced /\ c.window = b.window
  BY <1>1, <1>3 DEF BundleOK
<1>5. rule' = rule /\ Plausible(c.fields)
  BY DEF Learn
<1>6. PICK e \in Cases : /\ DOMAIN bundles = DOMAIN e.bundles
                         /\ DOMAIN e.bundles[i].fields = names
                         /\ \A g \in names : g \in DOMAIN Readings
                                             /\ b.fields[g] \in Readings[g] \union {Unknown}
  BY DEF HotelInv
<1>. HIDE DEF b, c
<1>7. DOMAIN c.fields = names /\ \A g \in names : c.fields[g] \in Readings[g] \union {b.fields[g]}
  BY <1>4
<1>8. RecordOK(c.fields)
  <2>1. IsReading(f, v)
    BY <1>6, ReadingsAssumption DEF b
  <2>2. RecordOK(b.fields)
    BY <1>1 DEF EvidenceOK
  <2>. QED BY <1>4, <2>1, <2>2 DEF RecordOK
<1>9. Sensible(c.fields)
  <2>1. CASE {SEGFROM, CLOSEDFROM} \cap names # {}
    <3>1. \A g \in names : c.fields[g] \in possible
      BY <1>6, <1>7
    <3>2. c.fields \in [names -> possible]
      <4>1. c.fields = [g \in names |-> c.fields[g]]
        BY <1>4
      <4>. HIDE DEF possible
      <4>. QED BY <3>1, <4>1
    <3>3. i \in DOMAIN e.bundles /\ names = DOMAIN e.bundles[i].fields
      BY <1>6
    <3>4. \A fields \in [names -> possible] : Plausible(fields) => Sensible(fields)
      BY <1>6, <2>1, <3>3, PlausibleAssumption
    <3>. QED BY <1>5, <3>2, <3>4
  <2>2. CASE {SEGFROM, CLOSEDFROM} \cap names = {}
    BY <1>7, <2>2 DEF Sensible, InOrder
  <2>. QED BY <2>1, <2>2
<1>10. rule = ClosedRoom =>
         \A s \in c.related["occupancy"] \union c.unplaced["occupancy"] : SegmentOK(s)
  BY <1>1, <1>4 DEF EvidenceOK
<1>11. EvidenceOK(rule, c)
  BY <1>1, <1>4, <1>7, <1>8, <1>9, <1>10, EvidenceKept
<1>. QED BY <1>3, <1>5, <1>7, <1>11 DEF Keeps, b, c

LEMMA MatchKeeps ==
  ASSUME EvidenceInv, HotelInv, NEW i \in DOMAIN bundles, NEW e \in DOMAIN bundles[i].joins,
         Match(i, e)
  PROVE  Keeps(i)
<1>. DEFINE b == bundles[i]
            c == bundles'[i]
<1>1. BundleOK(b) /\ EvidenceOK(rule, b)
  BY DEF EvidenceInv, HotelInv
<1>2. PICK v \in {HOLDS, FAILS} : bundles' = [bundles EXCEPT ![i].joins[e] = v]
  BY DEF Match
<1>3. /\ DOMAIN bundles' = DOMAIN bundles
      /\ \A k \in DOMAIN bundles \ {i} : bundles'[k] = bundles[k]
      /\ c = [b EXCEPT !.joins = [b.joins EXCEPT ![e] = v]]
  BY <1>2
<1>4. /\ c.joins = [b.joins EXCEPT ![e] = v] /\ c.fields = b.fields /\ c.related = b.related
      /\ c.unplaced = b.unplaced /\ c.window = b.window
  BY <1>1, <1>3 DEF BundleOK
<1>5. rule' = rule
  BY DEF Match
<1>. HIDE DEF b, c
<1>6. EvidenceOK(rule, c)
  <2>1. RecordOK(c.fields) /\ Sensible(c.fields) /\ DOMAIN c.joins = DOMAIN b.joins
    BY <1>1, <1>4 DEF EvidenceOK
  <2>2. rule = ClosedRoom =>
          \A s \in c.related["occupancy"] \union c.unplaced["occupancy"] : SegmentOK(s)
    BY <1>1, <1>4 DEF EvidenceOK
  <2>. QED BY <1>1, <1>4, <2>1, <2>2, EvidenceKept
<1>. QED BY <1>3, <1>4, <1>5, <1>6 DEF Keeps, b, c

\* A step that answers or reads a collection leaves the fields as they are.
LEMMA CollectionKeeps ==
  ASSUME EvidenceInv, HotelInv, NEW i \in DOMAIN bundles, rule' = rule,
         DOMAIN bundles' = DOMAIN bundles,
         \A k \in DOMAIN bundles \ {i} : bundles'[k] = bundles[k],
         bundles'[i].fields = bundles[i].fields, bundles'[i].window = bundles[i].window,
         DOMAIN bundles'[i].related = DOMAIN bundles[i].related,
         DOMAIN bundles'[i].joins = DOMAIN bundles[i].joins,
         rule = ClosedRoom =>
           \A s \in bundles'[i].related["occupancy"] \union bundles'[i].unplaced["occupancy"] :
             SegmentOK(s)
  PROVE  Keeps(i)
<1>. DEFINE b == bundles[i]
            c == bundles'[i]
<1>1. EvidenceOK(rule, b)
  BY DEF HotelInv
<1>2. RecordOK(c.fields) /\ Sensible(c.fields)
  BY <1>1 DEF EvidenceOK
<1>3. EvidenceOK(rule, c)
  <2>1. /\ DOMAIN c.fields = DOMAIN b.fields /\ DOMAIN c.related = DOMAIN b.related
        /\ DOMAIN c.joins = DOMAIN b.joins /\ c.window = b.window
        /\ rule = ClosedRoom =>
             \A s \in c.related["occupancy"] \union c.unplaced["occupancy"] : SegmentOK(s)
    OBVIOUS
  <2>. HIDE DEF b, c
  <2>. QED BY <1>1, <1>2, <2>1, EvidenceKept
<1>. QED BY <1>3 DEF Keeps

\* What a collection is read from and to.
LEMMA TheCollection ==
  ASSUME HotelInv, NEW i \in DOMAIN bundles
  PROVE  /\ \A e \in DOMAIN bundles[i].related : rule = ClosedRoom /\ e = "occupancy"
         /\ rule = ClosedRoom =>
              \A s \in bundles[i].related["occupancy"] \union bundles[i].unplaced["occupancy"] :
                SegmentOK(s)
BY DEF HotelInv, EvidenceOK

\* A segment read better is still one.
LEMMA RereadSegment ==
  ASSUME NEW r, SegmentOK(r), NEW s \in Reread(r)
  PROVE  SegmentOK(s)
<1>1. PICK f \in DOMAIN r : \E v \in Readings[f] : s = [r EXCEPT ![f] = v]
  BY DEF Reread
<1>2. PICK v \in Readings[f] : s = [r EXCEPT ![f] = v]
  BY <1>1
<1>3. IsReading(f, v)
  BY ReadingsAssumption DEF SegmentOK
<1>. QED BY <1>2, <1>3 DEF SegmentOK, RecordOK

LEMMA FetchKeeps ==
  ASSUME EvidenceInv, HotelInv, NEW i \in DOMAIN bundles, NEW e \in DOMAIN bundles[i].joins,
         Fetch(i, e)
  PROVE  Keeps(i)
<1>. DEFINE b == bundles[i]
            c == bundles'[i]
<1>1. BundleOK(b) /\ e \in DOMAIN b.related /\ rule' = rule
  BY DEF EvidenceInv, Fetch, IsCollection
<1>2. PICK found \in Answers : bundles' = [bundles EXCEPT ![i].related[e] = found,
                                                         ![i].joins[e] = Ruling(found # {})]
  BY DEF Fetch
<1>3. /\ DOMAIN bundles' = DOMAIN bundles
      /\ \A k \in DOMAIN bundles \ {i} : bundles'[k] = bundles[k]
      /\ c = [b EXCEPT !.related = [b.related EXCEPT ![e] = found],
                       !.joins = [b.joins EXCEPT ![e] = Ruling(found # {})]]
  BY <1>1, <1>2 DEF BundleOK
<1>4. /\ c.joins = [b.joins EXCEPT ![e] = Ruling(found # {})]
      /\ c.related = [b.related EXCEPT ![e] = found]
      /\ c.fields = b.fields /\ c.unplaced = b.unplaced /\ c.window = b.window
  BY <1>1, <1>3 DEF BundleOK
<1>5. e = "occupancy" /\ \A s \in b.unplaced["occupancy"] : SegmentOK(s)
  BY <1>1, TheCollection
<1>6. \A s \in found : SegmentOK(s)
  BY ReadingsAssumption
<1>. HIDE DEF b, c
<1>7. /\ DOMAIN c.joins = DOMAIN b.joins /\ DOMAIN c.related = DOMAIN b.related
      /\ \A s \in c.related["occupancy"] \union c.unplaced["occupancy"] : SegmentOK(s)
  BY <1>1, <1>4, <1>5, <1>6
<1>. QED BY <1>1, <1>3, <1>4, <1>7, CollectionKeeps DEF b, c

LEMMA LearnRelatedKeeps ==
  ASSUME EvidenceInv, HotelInv, NEW i \in DOMAIN bundles, NEW e \in DOMAIN bundles[i].joins,
         LearnRelated(i, e)
  PROVE  Keeps(i)
<1>. DEFINE b == bundles[i]
            c == bundles'[i]
<1>1. BundleOK(b) /\ e \in DOMAIN b.related /\ rule' = rule
  BY DEF EvidenceInv, LearnRelated, IsCollection
<1>2. PICK r \in b.related[e] : \E s \in Reread(r) :
        bundles' = [bundles EXCEPT ![i].related[e] = (@ \ {r}) \union {s}]
  BY DEF LearnRelated
<1>3. PICK s \in Reread(r) : bundles' = [bundles EXCEPT ![i].related[e] = (@ \ {r}) \union {s}]
  BY <1>2
<1>4. /\ DOMAIN bundles' = DOMAIN bundles
      /\ \A k \in DOMAIN bundles \ {i} : bundles'[k] = bundles[k]
      /\ c = [b EXCEPT !.related = [b.related EXCEPT ![e] = (b.related[e] \ {r}) \union {s}]]
  BY <1>3
<1>5. /\ c.related = [b.related EXCEPT ![e] = (b.related[e] \ {r}) \union {s}]
      /\ c.joins = b.joins /\ c.fields = b.fields /\ c.unplaced = b.unplaced /\ c.window = b.window
  BY <1>1, <1>4 DEF BundleOK
<1>6. e = "occupancy" /\ \A x \in b.related["occupancy"] \union b.unplaced["occupancy"] : SegmentOK(x)
  BY <1>1, TheCollection
<1>7. SegmentOK(s)
  BY <1>2, <1>3, <1>6, RereadSegment
<1>. HIDE DEF b, c
<1>8. /\ DOMAIN c.related = DOMAIN b.related
      /\ \A x \in c.related["occupancy"] \union c.unplaced["occupancy"] : SegmentOK(x)
  BY <1>1, <1>5, <1>6, <1>7
<1>. QED BY <1>1, <1>4, <1>5, <1>8, CollectionKeeps DEF b, c

LEMMA LearnUnplacedKeeps ==
  ASSUME EvidenceInv, HotelInv, NEW i \in DOMAIN bundles, NEW e \in DOMAIN bundles[i].joins,
         LearnUnplaced(i, e)
  PROVE  Keeps(i)
<1>. DEFINE b == bundles[i]
            c == bundles'[i]
<1>1. BundleOK(b) /\ e \in DOMAIN b.related /\ rule' = rule
  BY DEF EvidenceInv, LearnUnplaced, IsCollection
<1>2. PICK r \in b.unplaced[e] : \E s \in Reread(r) :
        bundles' = [bundles EXCEPT ![i].unplaced[e] = (@ \ {r}) \union {s}]
  BY DEF LearnUnplaced
<1>3. PICK s \in Reread(r) : bundles' = [bundles EXCEPT ![i].unplaced[e] = (@ \ {r}) \union {s}]
  BY <1>2
<1>4. /\ DOMAIN bundles' = DOMAIN bundles
      /\ \A k \in DOMAIN bundles \ {i} : bundles'[k] = bundles[k]
      /\ c = [b EXCEPT !.unplaced = [b.unplaced EXCEPT ![e] = (b.unplaced[e] \ {r}) \union {s}]]
  BY <1>3
<1>5. /\ c.unplaced = [b.unplaced EXCEPT ![e] = (b.unplaced[e] \ {r}) \union {s}]
      /\ c.joins = b.joins /\ c.fields = b.fields /\ c.related = b.related /\ c.window = b.window
  BY <1>1, <1>4 DEF BundleOK
<1>6. e = "occupancy" /\ \A x \in b.related["occupancy"] \union b.unplaced["occupancy"] : SegmentOK(x)
  BY <1>1, TheCollection
<1>7. SegmentOK(s)
  BY <1>2, <1>3, <1>6, RereadSegment
<1>8. e \in DOMAIN b.unplaced
  BY <1>1 DEF BundleOK
<1>. HIDE DEF b, c
<1>9. \A x \in c.related["occupancy"] \union c.unplaced["occupancy"] : SegmentOK(x)
  BY <1>5, <1>6, <1>7, <1>8
<1>. QED BY <1>1, <1>4, <1>5, <1>9, CollectionKeeps DEF b, c

LEMMA PlaceKeeps ==
  ASSUME EvidenceInv, HotelInv, NEW i \in DOMAIN bundles, NEW e \in DOMAIN bundles[i].joins,
         Place(i, e)
  PROVE  Keeps(i)
<1>. DEFINE b == bundles[i]
            c == bundles'[i]
<1>1. BundleOK(b) /\ e \in DOMAIN b.related /\ rule' = rule
  BY DEF EvidenceInv, Place, IsCollection
<1>2. PICK r \in b.unplaced[e] :
        \/ bundles' = [bundles EXCEPT ![i].unplaced[e] = @ \ {r}]
        \/ bundles' = [bundles EXCEPT ![i].unplaced[e] = @ \ {r},
                                     ![i].related[e] = @ \union {r}, ![i].joins[e] = HOLDS]
  BY DEF Place
<1>3. /\ DOMAIN bundles' = DOMAIN bundles
      /\ \A k \in DOMAIN bundles \ {i} : bundles'[k] = bundles[k]
      /\ \/ c = [b EXCEPT !.unplaced = [b.unplaced EXCEPT ![e] = b.unplaced[e] \ {r}]]
         \/ c = [b EXCEPT !.unplaced = [b.unplaced EXCEPT ![e] = b.unplaced[e] \ {r}],
                          !.related = [b.related EXCEPT ![e] = b.related[e] \union {r}],
                          !.joins = [b.joins EXCEPT ![e] = HOLDS]]
  BY <1>1, <1>2 DEF BundleOK
<1>4. /\ c.unplaced = [b.unplaced EXCEPT ![e] = b.unplaced[e] \ {r}]
      /\ c.fields = b.fields /\ c.window = b.window
      /\ \/ c.related = b.related /\ c.joins = b.joins
         \/ /\ c.related = [b.related EXCEPT ![e] = b.related[e] \union {r}]
            /\ c.joins = [b.joins EXCEPT ![e] = HOLDS]
  BY <1>1, <1>3 DEF BundleOK
<1>5. e = "occupancy" /\ \A x \in b.related["occupancy"] \union b.unplaced["occupancy"] : SegmentOK(x)
  BY <1>1, TheCollection
<1>6. e \in DOMAIN b.unplaced /\ r \in b.unplaced[e]
  BY <1>1 DEF BundleOK
<1>. HIDE DEF b, c
<1>7. /\ DOMAIN c.joins = DOMAIN b.joins /\ DOMAIN c.related = DOMAIN b.related
      /\ \A x \in c.related["occupancy"] \union c.unplaced["occupancy"] : SegmentOK(x)
  BY <1>1, <1>4, <1>5, <1>6
<1>. QED BY <1>1, <1>3, <1>4, <1>7, CollectionKeeps DEF b, c

\* So every step keeps the invariant, from the hotels the rules are run on.
LEMMA NextKeeps ==
  ASSUME EvidenceInv, HotelInv, Next
  PROVE  \E i \in DOMAIN bundles : Keeps(i)
<1>1. PICK i \in DOMAIN bundles :
        \/ \E f \in DOMAIN bundles[i].fields : Learn(i, f)
        \/ \E e \in DOMAIN bundles[i].joins :
             Match(i, e) \/ Fetch(i, e) \/ LearnRelated(i, e) \/ LearnUnplaced(i, e) \/ Place(i, e)
  BY DEF Next
<1>. QED BY <1>1, LearnKeeps, MatchKeeps, FetchKeeps, LearnRelatedKeeps, LearnUnplacedKeeps,
            PlaceKeeps

LEMMA KeptByStep ==
  ASSUME HotelInv, NEW i \in DOMAIN bundles, Keeps(i)
  PROVE  HotelInv'
<1>1. rule' = rule /\ DOMAIN bundles' = DOMAIN bundles
  BY DEF Keeps
<1>2. PICK c \in Cases :
        /\ rule = c.rule /\ DOMAIN bundles = DOMAIN c.bundles
        /\ \A k \in DOMAIN bundles :
             /\ DOMAIN bundles[k].fields = DOMAIN c.bundles[k].fields
             /\ \A f \in DOMAIN bundles[k].fields :
                  f \in DOMAIN Readings /\ bundles[k].fields[f] \in Readings[f] \union {Unknown}
  BY DEF HotelInv
<1>3. \A k \in DOMAIN bundles :
        /\ DOMAIN bundles'[k].fields = DOMAIN c.bundles[k].fields
        /\ \A f \in DOMAIN bundles'[k].fields :
             f \in DOMAIN Readings /\ bundles'[k].fields[f] \in Readings[f] \union {Unknown}
  BY <1>2 DEF Keeps
<1>4. \A k \in DOMAIN bundles : EvidenceOK(rule, bundles'[k])
  BY DEF Keeps, HotelInv
<1>5. \E d \in Cases :
        /\ rule' = d.rule /\ DOMAIN bundles' = DOMAIN d.bundles
        /\ \A k \in DOMAIN bundles' :
             /\ DOMAIN bundles'[k].fields = DOMAIN d.bundles[k].fields
             /\ \A f \in DOMAIN bundles'[k].fields :
                  f \in DOMAIN Readings /\ bundles'[k].fields[f] \in Readings[f] \union {Unknown}
  BY <1>1, <1>2, <1>3
<1>. QED BY <1>1, <1>4, <1>5 DEF HotelInv

LEMMA HotelInvHolds == Spec => []HotelInv
<1>1. Init => HotelInv
  BY ReadingsAssumption DEF Init, HotelInv
<1>2. EvidenceInv /\ HotelInv /\ [Next]_vars => HotelInv'
  <2>1. CASE EvidenceInv /\ HotelInv /\ Next
    BY <2>1, NextKeeps, KeptByStep
  <2>2. CASE HotelInv /\ UNCHANGED vars
    BY <2>2 DEF vars, HotelInv
  <2>. QED BY <2>1, <2>2
<1>. QED BY <1>1, <1>2, EvidenceInvHolds, PTL DEF Spec

\* The rule is one of the seven.
LEMMA RuleIsShipped ==
  ASSUME HotelInv
  PROVE  \/ rule = MoneyOwed \/ rule = Capacity \/ rule = InactiveRoom \/ rule = TypeValidity
         \/ rule = Duplicates \/ rule = Occupancy \/ rule = ClosedRoom
<1>1. rule \in SHIPPED
  BY ReadingsAssumption DEF HotelInv
<1>. QED BY <1>1 DEF SHIPPED

\* What each of the rules says, together.
LEMMA EveryRuleSays ==
  ASSUME EvidenceInv, HotelInv, NEW i \in DOMAIN bundles
  PROVE  /\ Verdict[i] = FAIL => Wrong(i)
         /\ rule # ClosedRoom /\ (\A j \in DOMAIN bundles : Whole(bundles[j])) =>
              Verdict[i] = IF ~Concerns(i) THEN EXCLUDED ELSE IF Wrong(i) THEN FAIL ELSE PASS
<1>1. BundleOK(bundles[i]) /\ \A j \in DOMAIN bundles : EvidenceOK(rule, bundles[j])
  BY DEF EvidenceInv, HotelInv
<1>. DEFINE says == Verdict[i] = IF ~Concerns(i) THEN EXCLUDED ELSE IF Wrong(i) THEN FAIL ELSE PASS
            accuses == Verdict[i] = FAIL => Wrong(i)
            whole(j) == Whole(bundles[j])
<1>2. CASE rule = MoneyOwed
  <2>1. accuses /\ (whole(i) => says)
    BY <1>1, <1>2, MoneyOwedSays
  <2>. QED BY <2>1
<1>3. CASE rule = Capacity
  <2>1. accuses /\ (whole(i) => says)
    BY <1>1, <1>3, CapacitySays
  <2>. QED BY <2>1
<1>4. CASE rule = InactiveRoom
  <2>1. accuses /\ (whole(i) => says)
    BY <1>1, <1>4, InactiveRoomSays
  <2>. QED BY <2>1
<1>5. CASE rule = TypeValidity
  <2>1. accuses /\ (whole(i) => says)
    BY <1>1, <1>5, TypeValiditySays
  <2>. QED BY <2>1
<1>6. CASE rule = Duplicates
  <2>1. accuses /\ ((\A j \in DOMAIN bundles : whole(j)) => says)
    BY <1>1, <1>6, DuplicatesSays
  <2>. QED BY <2>1
<1>7. CASE rule = Occupancy
  <2>1. accuses /\ ((\A j \in DOMAIN bundles : whole(j)) => says)
    BY <1>1, <1>7, OccupancySays
  <2>. QED BY <2>1
<1>8. CASE rule = ClosedRoom
  <2>1. accuses
    BY <1>1, <1>8, ClosedRoomSays
  <2>. QED BY <1>8, <2>1
<1>. QED BY <1>2, <1>3, <1>4, <1>5, <1>6, <1>7, <1>8, RuleIsShipped

\* The rule about closed rooms is known by its name.
LEMMA ClosedRoomByName ==
  ASSUME HotelInv
  PROVE  rule.control = ClosedRoom.control <=> rule = ClosedRoom
<1>1. \A r \in {MoneyOwed, Capacity, InactiveRoom, TypeValidity, Duplicates, Occupancy} :
        r.control # ClosedRoom.control
  BY DEF MoneyOwed, Capacity, InactiveRoom, TypeValidity, Duplicates, Occupancy, ClosedRoom, Rule, Grouped
<1>. QED BY <1>1, RuleIsShipped

\* On such evidence every accusation is earned, and every clearance.
LEMMA Earned ==
  ASSUME EvidenceInv, HotelInv
  PROVE  VerdictsAreEarned
<1>1. AccusationsAreEarned
  BY EveryRuleSays DEF AccusationsAreEarned
<1>2. ClearIsClear
  <2>1. SUFFICES ASSUME rule = ClosedRoom, NEW i \in DOMAIN bundles, Verdict[i] = PASS,
                        NEW w \in bundles[i].window["occupancy"]
                 PROVE  LET closed == {d \in Closure(i) : d >= w.asked_on}
                        IN  /\ closed # {}
                            /\ \A r \in bundles[i].related["occupancy"]
                                         \union bundles[i].unplaced["occupancy"] :
                                 Occupied(r) \cap closed = {}
                            /\ \A from \in Days, to \in Days :
                                 from <= to /\ (from .. to) \cap (w.start .. w.end) = {} =>
                                   (from .. to) \cap closed = {}
    BY ClosedRoomByName DEF ClearIsClear
  <2>2. EvidenceOK(rule, bundles[i]) /\ BundleOK(bundles[i])
    BY DEF EvidenceInv, HotelInv
  <2>. QED BY <2>1, <2>2, ClosedRoomClear
<1>. QED BY <1>1, <1>2 DEF VerdictsAreEarned

\* With nothing missing, nothing a rule reads is unknown.
LEMMA NothingMissing ==
  ASSUME EvidenceInv, HotelInv, Established, NEW i \in DOMAIN bundles
  PROVE  /\ rule # ClosedRoom => Whole(bundles[i])
         /\ rule = ClosedRoom =>
              /\ Reading(i, CLOSEDFROM) # Unknown /\ Reading(i, CLOSEDTO) # Unknown
              /\ bundles[i].joins["occupancy"] # UNSURE
              /\ bundles[i].unplaced["occupancy"] = {}
              /\ \A r \in bundles[i].related["occupancy"] : \A f \in DOMAIN r : r[f] # Unknown
<1>. DEFINE b == bundles[i]
<1>1. EvidenceOK(rule, b)
  BY DEF HotelInv
<1>2. /\ \A f \in DOMAIN b.fields : EntityOf(f) \in DOMAIN b.related \/ b.fields[f] # Unknown
      /\ \A e \in DOMAIN b.joins : b.joins[e] # UNSURE
      /\ \A e \in DOMAIN b.related :
           /\ b.unplaced[e] = {}
           /\ \A r \in b.related[e] : \A f \in DOMAIN r : r[f] # Unknown
  BY DEF Established, IsCollection
<1>3. CASE rule # ClosedRoom
  <2>1. DOMAIN b.related = {}
    BY <1>1, <1>3 DEF EvidenceOK
  <2>. QED BY <1>2, <1>3, <2>1 DEF Whole
<1>4. CASE rule = ClosedRoom
  <2>1. /\ {CLOSEDFROM, CLOSEDTO} \subseteq DOMAIN b.fields
        /\ DOMAIN b.related = {"occupancy"} /\ "occupancy" \in DOMAIN b.joins
    BY <1>1, <1>4, ClosedRoomRead
  <2>2. EntityOf(CLOSEDFROM) # "occupancy" /\ EntityOf(CLOSEDTO) # "occupancy"
    BY FieldsAre
  <2>. QED BY <1>2, <1>4, <2>1, <2>2 DEF Reading
<1>. QED BY <1>3, <1>4

\* And where nothing is missing, every verdict is the one the rule's terms give.
LEMMA Decided ==
  ASSUME EvidenceInv, HotelInv
  PROVE  EstablishedIsDecided
<1>1. SUFFICES ASSUME Established
               PROVE  Verdict = [i \in DOMAIN bundles |->
                                   CASE ~Concerns(i) -> EXCLUDED
                                     [] Wrong(i)     -> FAIL
                                     [] OTHER        -> IF rule.control = ClosedRoom.control /\ ~AskedFor(i)
                                                        THEN UNKNOWN ELSE PASS]
  BY DEF EstablishedIsDecided
<1>2. ASSUME NEW i \in DOMAIN bundles PROVE Wrong(i) => Concerns(i)
  BY DEF Wrong
<1>3. ASSUME NEW i \in DOMAIN bundles
      PROVE  Verdict[i] = CASE ~Concerns(i) -> EXCLUDED
                            [] Wrong(i)     -> FAIL
                            [] OTHER        -> IF rule.control = ClosedRoom.control /\ ~AskedFor(i)
                                               THEN UNKNOWN ELSE PASS
  <2>1. CASE rule # ClosedRoom
    <3>1. rule.control # ClosedRoom.control
      BY <2>1, ClosedRoomByName
    <3>2. \A j \in DOMAIN bundles : Whole(bundles[j])
      BY <1>1, <2>1, NothingMissing
    <3>3. Verdict[i] = IF ~Concerns(i) THEN EXCLUDED ELSE IF Wrong(i) THEN FAIL ELSE PASS
      BY <2>1, <3>2, EveryRuleSays
    <3>. QED BY <1>2, <3>1, <3>3
  <2>2. CASE rule = ClosedRoom
    <3>. DEFINE covered == Covered(rule.predicates, "occupancy", bundles[i])
    <3>1. rule.control = ClosedRoom.control
      BY <2>2
    <3>2. EvidenceOK(rule, bundles[i]) /\ BundleOK(bundles[i])
      BY DEF EvidenceInv, HotelInv
    <3>3. Verdict[i] = IF ~Concerns(i) THEN EXCLUDED ELSE IF Wrong(i) THEN FAIL
                       ELSE IF covered THEN PASS ELSE UNKNOWN
      BY <1>1, <2>2, <3>2, NothingMissing, ClosedRoomSays
    <3>4. Concerns(i) => (covered <=> AskedFor(i))
      BY <2>2, <3>2, CoveredIsAskedFor
    <3>. HIDE DEF covered
    <3>. QED BY <1>2, <3>1, <3>3, <3>4
  <2>. QED BY <2>1, <2>2
<1>. QED BY <1>3 DEF Verdict, Verdicts

\* Nobody is accused on what could not be read, and no closed room is cleared for the
\* days that were asked about while a guest may be in it, on any evidence of any hotel
\* (hotelcontrols/evaluator, src/spec/ir).
THEOREM VerdictsAreAlwaysEarned == Spec => []VerdictsAreEarned
BY Earned, EvidenceInvHolds, HotelInvHolds, PTL

\* With nothing missing each rule decides every record, and decides as its own terms
\* say, however many records there are (hotelcontrols/evaluator, src/spec/ir).
THEOREM TheEstablishedIsDecided == Spec => []EstablishedIsDecided
BY Decided, EvidenceInvHolds, HotelInvHolds, PTL
==============================================================================
