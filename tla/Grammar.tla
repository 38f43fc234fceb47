------------------------------- MODULE Grammar -------------------------------
(***************************************************************************)
(* Restricted English in, a rule out (compiler/grammar.py).                *)
(*                                                                         *)
(* A sentence is the record of its clauses, in the one order the parser    *)
(* takes them: [quantifier, subject, joins, population, where, keyword,    *)
(* unless, modal, claim, showing, rest].  `population` and `rest` are      *)
(* words left over before `where` and at the end.  A condition is [field,  *)
(* is, not, phrase, operand, interval, absence], a join [word, entity,     *)
(* hotel, local, remote, set], a claim [conditions, limit, field,          *)
(* interval, per, also].  What is not said is Nothing.                     *)
(***************************************************************************)
EXTENDS Integers, SequencesExt

CONSTANTS
  Nothing,
  Dotted,             \* words with a dot: the names of fields
  EntityOf,           \* [Dotted -> what stands before the first dot]
  SubjectEntities,    \* what a record may be
  ReferenceEntities,  \* what may be joined
  Registry            \* [declared fields -> [type, absent_means, resolvable]]

QUANTIFIERS == {"every", "each", "all", "no"}

\* Phrase -> operator, its negation, and what it compares with.
OPERATOR_PHRASES ==
  LET p(positive, negative, kind) == [positive |-> positive, negative |-> negative, kind |-> kind]
  IN [oneOf      |-> p("in", "not_in", "one"),
      within     |-> p("within", "not_within", "interval"),
      atMost     |-> p("lte", Nothing, "one"),
      atLeast    |-> p("gte", Nothing, "one"),
      lessThan   |-> p("lt", Nothing, "one"),
      moreThan   |-> p("gt", Nothing, "one"),
      greaterThan |-> p("gt", Nothing, "one"),
      exists     |-> p("exists", "not_exists", "none"),
      present    |-> p("exists", "not_exists", "none"),
      missing    |-> p("not_exists", Nothing, "none"),
      resolved   |-> p("reference_exists", "reference_missing", "none"),
      unresolved |-> p("reference_missing", Nothing, "none"),
      matching   |-> p("matches_ignore_case", Nothing, "one"),
      matches    |-> p("matches_ignore_case", Nothing, "one")]

\* With no phrase a condition says that its field is, or is not, something.
PhraseOf(c) ==
  IF c.phrase = Nothing THEN [positive |-> "equals", negative |-> "not_equals", kind |-> "one"]
  ELSE OPERATOR_PHRASES[c.phrase]

Operator(c) == IF c.not THEN PhraseOf(c).negative ELSE PhraseOf(c).positive

------------------------------------------------------------------------------
(* What the tokens of a sentence can be parsed into.                       *)

\* A phrase takes the operand it wants and no other.
IsCondition(c) ==
  /\ c.phrase \in DOMAIN OPERATOR_PHRASES \cup {Nothing}
  /\ c.not \in BOOLEAN
  /\ PhraseOf(c).kind # "one" => c.operand = [kind |-> "none", of |-> Nothing]
  /\ PhraseOf(c).kind = "interval" <=> c.interval # Nothing

IsJoin(j) ==
  /\ j.word \in {"joining", "collecting"} /\ j.hotel \in BOOLEAN
  /\ j.set # Nothing => j.local = Nothing /\ j.remote = Nothing

\* A claim is conditions, or a limit, or that intervals do not overlap.
IsClaim(claim) ==
  /\ DOMAIN claim = {"conditions", "limit", "field", "interval", "per", "also"}
  /\ claim.also \in BOOLEAN
  /\ claim.interval # Nothing => claim.limit = Nothing
  /\ claim.conditions # <<>> =>
       /\ claim.limit = Nothing /\ claim.field = Nothing /\ claim.interval = Nothing
       /\ claim.per = Nothing /\ ~claim.also

IsSentence(s) ==
  /\ \A conditions \in {s.where, s.unless, s.claim.conditions} :
       /\ conditions \in Seq(ToSet(conditions))
       /\ \A c \in ToSet(conditions) : IsCondition(c)
  /\ s.joins \in Seq(ToSet(s.joins)) /\ \A j \in ToSet(s.joins) : IsJoin(j)
  /\ IsClaim(s.claim)

\* Nothing is not a word of the engine's, nor a field.
ASSUME NothingAssumption ==
  /\ Nothing \notin DOMAIN OPERATOR_PHRASES \cup Dotted \cup {"parse", "ambiguous"}
  /\ \A phrase \in DOMAIN OPERATOR_PHRASES : OPERATOR_PHRASES[phrase].positive # Nothing

------------------------------------------------------------------------------
(* Refusals: the first one met from left to right, or Nothing.             *)

FirstOf(refusals) ==
  LET said == {i \in DOMAIN refusals : refusals[i] # Nothing}
  IN IF said = {} THEN Nothing ELSE refusals[CHOOSE i \in said : \A j \in said : i <= j]

ParseError(condition) == IF condition THEN "parse" ELSE Nothing

FieldRefusal(word) == ParseError(word \notin Dotted)

\* An undotted, unquoted word is a text or a field, and is not chosen between.
\* A list has no literal: `one of` names a field or a setting.
OperandRefusal(c) ==
  CASE c.operand.kind = "none" -> "parse"
    [] c.operand.kind = "bare" -> "ambiguous"
    [] OTHER -> ParseError(Operator(c) \in {"in", "not_in"} /\ c.operand.kind = "value")

AbsenceRefusal(c) == ParseError(c.absence \notin {Nothing, "or absent", "if present"})

ConditionRefusal(c) ==
  FirstOf(<<FieldRefusal(c.field),
            ParseError(c.phrase = Nothing /\ ~c.is),
            ParseError(c.not /\ PhraseOf(c).negative = Nothing),
            CASE PhraseOf(c).kind = "one" -> FirstOf(<<OperandRefusal(c), AbsenceRefusal(c)>>)
              [] PhraseOf(c).kind = "interval" ->
                   FirstOf(<<FieldRefusal(c.interval.start), FieldRefusal(c.interval.end),
                             ParseError(c.absence # Nothing)>>)
              [] OTHER -> ParseError(c.absence # Nothing)>>)

ConditionsRefusal(conditions) ==
  FirstOf([i \in DOMAIN conditions |-> ConditionRefusal(conditions[i])])

JoinRefusal(j) ==
  IF j.set # Nothing THEN FieldRefusal(j.set)
  ELSE FirstOf(<<ParseError(j.entity \notin ReferenceEntities),
                 FieldRefusal(j.local), FieldRefusal(j.remote)>>)

IsAggregate(s) == s.claim.conditions = <<>>

\* `may` is a prohibition and wants `no`; `must` wants no quantifier of its own.
ModalRefusal(s) ==
  ParseError(\/ s.modal \notin {"must have", "must not have", "must satisfy", "may have"}
             \/ s.modal = "may have" /\ s.quantifier # "no")

\* An aggregate is a limit already, asks one question, and says what it groups by.
AggregateRefusal(s) ==
  FirstOf(<<ParseError(s.modal \in {"must not have", "may have"}),
            FieldRefusal(s.claim.field),
            IF s.claim.interval = Nothing THEN Nothing
            ELSE FirstOf(<<FieldRefusal(s.claim.interval.start),
                           FieldRefusal(s.claim.interval.end)>>),
            FieldRefusal(s.claim.per),
            ParseError(s.claim.also)>>)

AssertionRefusal(s) ==
  IF IsAggregate(s) THEN AggregateRefusal(s) ELSE ConditionsRefusal(s.claim.conditions)

Refusal(s) ==
  FirstOf(<<ParseError(s.quantifier \notin QUANTIFIERS),
            ParseError(s.subject \notin SubjectEntities),
            FirstOf([i \in DOMAIN s.joins |-> JoinRefusal(s.joins[i])]),
            ParseError(s.population),
            ConditionsRefusal(s.where),
            ConditionsRefusal(s.unless),
            ModalRefusal(s),
            AssertionRefusal(s),
            FirstOf([i \in DOMAIN s.showing |-> FieldRefusal(s.showing[i])]),
            ParseError(s.rest)>>)

------------------------------------------------------------------------------
(* What an accepted sentence says.                                         *)

Predicate(c) ==
  LET kind == PhraseOf(c).kind IN
  [field |-> c.field,
   operator |-> Operator(c),
   sides |-> IF kind = "one" THEN {c.operand} ELSE {},
   interval |-> IF kind = "interval" THEN c.interval ELSE Nothing,
   absent |-> IF kind = "one" THEN c.absence ELSE Nothing]

Predicates(conditions) == [i \in DOMAIN conditions |-> Predicate(conditions[i])]

Reference(j) ==
  IF j.set # Nothing
  THEN [entity |-> EntityOf[j.set], kind |-> "set", local |-> Nothing, remote |-> Nothing,
        field |-> j.set, source |-> "pms"]
  ELSE [entity |-> j.entity, kind |-> IF j.word = "collecting" THEN "collection" ELSE "lookup",
        local |-> j.local, remote |-> j.remote, field |-> Nothing,
        source |-> IF j.hotel THEN "tenant" ELSE "pms"]

\* A negated assertion kept as a conjunction of what must hold.
Mode_NegationLost(s) == IF s.modal = "must satisfy" THEN "any" ELSE "all"

\* _modal(): the quantifier is only looked at for `may`.
Mode(s) ==
  CASE s.modal = "must have"    -> "all"
    [] s.modal = "must satisfy" -> "any"
    [] OTHER                    -> "none"

AggregatePredicate(claim) ==
  [field |-> claim.field,
   operator |-> IF claim.interval = Nothing THEN "count_lte" ELSE "no_overlap",
   sides |-> IF claim.interval = Nothing THEN {[kind |-> "value", of |-> claim.limit]} ELSE {},
   interval |-> claim.interval,
   absent |-> Nothing]

Assertion(s) ==
  IF IsAggregate(s)
  THEN [mode |-> "aggregate", group_by |-> s.claim.per,
        predicates |-> <<AggregatePredicate(s.claim)>>]
  ELSE [mode |-> Mode(s), group_by |-> Nothing, predicates |-> Predicates(s.claim.conditions)]

Named(words) == words \ {Nothing}

FieldsOfPredicate(p) ==
  {p.field} \cup {side.of : side \in {x \in p.sides : x.kind = "compare_to"}}
    \cup (IF p.interval = Nothing THEN {} ELSE {p.interval.start, p.interval.end})

FieldsOfPredicates(ps) == UNION {FieldsOfPredicate(ps[i]) : i \in DOMAIN ps}

\* referenced_fields(): every field the rule itself mentions.
FieldsOfRule(rule) ==
  (UNION {Named({r.local, r.remote, r.field}) : r \in ToSet(rule.references)})
    \cup FieldsOfPredicates(rule.scope \o rule.exceptions \o rule.assertion.predicates)
    \cup Named({rule.assertion.group_by})

\* _evidence(): whatever the rule reads or shows is declared, the hotel's own apart.
Evidence(rule, showing) ==
  LET hotels == {r.entity : r \in {x \in ToSet(rule.references) : x.source = "tenant"}}
  IN {[field |-> f, source |-> IF EntityOf[f] \in hotels THEN "tenant" ELSE "pms",
       resolvable |-> f \in DOMAIN Registry /\ Registry[f].resolvable] :
        f \in FieldsOfRule(rule) \cup showing}

\* compile(): the logic of a sentence that is not refused.
Logic(s) ==
  LET rule == [entity |-> s.subject,
               references |-> [i \in DOMAIN s.joins |-> Reference(s.joins[i])],
               scope |-> Predicates(s.where),
               exceptions |-> Predicates(s.unless),
               assertion |-> Assertion(s),
               required_evidence |-> {}]
  IN [rule EXCEPT !.required_evidence = Evidence(rule, ToSet(s.showing))]
==============================================================================
