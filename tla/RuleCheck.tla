------------------------------ MODULE RuleCheck ------------------------------
(***************************************************************************)
(* Whether a rule is safe to run (spec/ir.py, validate): the eleven checks *)
(* behind the schema, each as the set of what it finds wrong.  A rule is   *)
(* what Grammar's Logic makes, with the windows of its population: a       *)
(* function from entities to [from, to], in days from today.  Settings is  *)
(* Nothing, or what the property supplies: "list", "text" or "undecided".  *)
(***************************************************************************)
EXTENDS Grammar

CONSTANTS
  RelativeDates,    \* tokens the property clock can resolve
  MalformedDates    \* tokens that begin with "today" and are none

UNARY_OPERATORS     == {"exists", "not_exists", "reference_exists", "reference_missing"}
DATE_OPERATORS      == {"within", "not_within"}
INTERVAL_OPERATORS  == DATE_OPERATORS \cup {"no_overlap"}
AGGREGATE_OPERATORS == {"count_lte", "no_overlap"}
ORDERING_OPERATORS  == {"lt", "lte", "gt", "gte"}
DATE_TYPES          == {"date", "datetime"}

Declared(field) == field \in DOMAIN Registry

\* Every predicate, with the clause it is in.
Clauses(rule) ==
  {<<"scope", p>> : p \in ToSet(rule.scope)}
    \cup {<<"exceptions", p>> : p \in ToSet(rule.exceptions)}
    \cup {<<"assertion", p>> : p \in ToSet(rule.assertion.predicates)}

IsAggregateRule(rule) == rule.assertion.mode = "aggregate"

\* Check 1: every field is declared vocabulary.
CheckVocabulary(rule) ==
  {<<"vocabulary", f>> : f \in {x \in FieldsOfRule(rule) : ~Declared(x)}}

\* Check 2: whatever the rule reads, it declares that it needs.
CheckEvidenceDeclared(rule) ==
  {<<"evidence", f>> : f \in FieldsOfRule(rule) \ {e.field : e \in rule.required_evidence}}

\* Check 3: what records are grouped by is said exactly where they are.
CheckAssertionShape(rule) ==
  IF IsAggregateRule(rule) = (rule.assertion.group_by # Nothing) THEN {}
  ELSE {<<"group_by", rule.assertion.group_by>>}

\* Checks 4 and 5: one right-hand side, and operators where they mean something.
WrongSides(p) ==
  IF p.operator \in UNARY_OPERATORS \cup INTERVAL_OPERATORS THEN p.sides # {}
  ELSE \A side \in p.sides : p.sides # {side}

CheckPredicates(rule) ==
  {<<"predicate", c[2].field>> :
     c \in {d \in Clauses(rule) :
              LET p == d[2] IN
              \/ WrongSides(p)
              \/ (p.operator \in INTERVAL_OPERATORS) # (p.interval # Nothing)
              \/ p.operator \in AGGREGATE_OPERATORS
                   /\ (d[1] # "assertion" \/ ~IsAggregateRule(rule))
              \/ d[1] = "assertion" /\ IsAggregateRule(rule)
                   /\ p.operator \notin AGGREGATE_OPERATORS}}

\* Check 6: a reference carries what its kind needs, and one per entity.
ReferenceProblem(rule, i) ==
  LET r == rule.references[i] IN
  \/ \E j \in 1 .. i - 1 : rule.references[j].entity = r.entity
  \/ r.kind = "set" /\ (r.field = Nothing \/ r.local # Nothing \/ r.remote # Nothing)
  \/ r.kind # "set" /\ (r.local = Nothing \/ r.remote = Nothing \/ r.field # Nothing)
  \/ r.kind # "set" /\ r.remote # Nothing /\ Declared(r.remote) /\ EntityOf[r.remote] # r.entity

CheckReferences(rule) ==
  {<<"reference", rule.references[i].entity>> :
     i \in {j \in DOMAIN rule.references : ReferenceProblem(rule, j)}}

\* Check 7: `within` asks where a date lies.
CheckIntervalOperands(rule) ==
  {<<"not a date", c[2].field>> :
     c \in {d \in Clauses(rule) :
              /\ d[2].operator \in DATE_OPERATORS /\ Declared(d[2].field)
              /\ Registry[d[2].field].type \notin DATE_TYPES}}

\* Check 8: a collection is judged record by record, where that has one meaning.
CheckCollections(rule) ==
  LET collections == {r.entity : r \in {x \in ToSet(rule.references) : x.kind = "collection"}}
  IN {<<"collection", c[2].field>> :
        c \in {d \in Clauses(rule) :
                 /\ ~(d[1] = "assertion" /\ rule.assertion.mode = "none")
                 /\ \E f \in FieldsOfPredicate(d[2]) : EntityOf[f] \in collections}}

\* Check 9: `absent` says what an ordering answers for an absence that is a fact.
CheckAbsent(rule) ==
  {<<"absent", c[2].field>> :
     c \in {d \in Clauses(rule) :
              /\ d[2].absent # Nothing
              /\ \/ d[2].operator \notin ORDERING_OPERATORS
                 \/ Declared(d[2].field) /\ Registry[d[2].field].absent_means = "unknown"}}

\* Check 10: a window bounds a reference the rule declares, and is not empty.
CheckReferenceWindows(rule) ==
  LET declared == {r.entity : r \in {x \in ToSet(rule.references) : x.source = "pms"}}
  IN {<<"window", e>> :
        e \in {x \in DOMAIN rule.windows :
                 x \notin declared \/ rule.windows[x].from > rule.windows[x].to}}

\* Check 11: a day named in a predicate is one the clock knows, and so is the field.
CheckRelativeValues(rule) ==
  {<<"relative date", c[2].field>> :
     c \in {d \in Clauses(rule) :
              \E side \in d[2].sides :
                /\ side.kind = "value"
                /\ \/ side.of \in MalformedDates
                   \/ side.of \in RelativeDates /\ Declared(d[2].field)
                        /\ Registry[d[2].field].type \notin DATE_TYPES}}

\* A setting is declared, and a collection where it is asked for membership.
CheckTenantSettings(rule, settings) ==
  {<<"setting", c[2].field>> :
     c \in {d \in Clauses(rule) :
              \E side \in d[2].sides :
                /\ side.kind = "tenant_setting"
                /\ \/ side.of \notin DOMAIN settings
                   \/ d[2].operator \in {"in", "not_in"} /\ settings[side.of] = "text"}}

\* What is wrong with a rule wherever it runs.
RuleProblems(rule) ==
  CheckVocabulary(rule) \cup CheckEvidenceDeclared(rule) \cup CheckAssertionShape(rule)
    \cup CheckPredicates(rule) \cup CheckReferences(rule) \cup CheckIntervalOperands(rule)
    \cup CheckCollections(rule) \cup CheckAbsent(rule) \cup CheckReferenceWindows(rule)
    \cup CheckRelativeValues(rule)

Problems(rule, settings) ==
  RuleProblems(rule)
    \cup (IF settings = Nothing THEN {} ELSE CheckTenantSettings(rule, settings))

------------------------------------------------------------------------------
(* finish(): the deployment's half, the sentence's half, and one gate.     *)

LOGIC_KEYS    == {"entity", "references", "scope", "exceptions", "assertion",
                  "required_evidence"}
SENTENCE_KEYS == {"natural_language", "restricted_language"}
OPTIONAL_KEYS == {"caveats"}
DEPLOYMENT_KEYS ==
  {"control_id", "version", "name", "source_control", "population", "execution",
   "freshness_requirement", "unknown_conditions", "action", "caveats"}

\* What a deployment may not carry, and what it must.
DeploymentProblems(keys) ==
  {<<"not its half", k>> : k \in keys \ DEPLOYMENT_KEYS}
    \cup {<<"missing", k>> : k \in DEPLOYMENT_KEYS \ (OPTIONAL_KEYS \cup keys)}

Merged(s, windows) ==
  LET logic == Logic(s)
  IN [key \in DOMAIN logic \cup {"windows"} |-> IF key = "windows" THEN windows ELSE logic[key]]

\* compile(): every reason there is no rule; none of them, and it is one.
Compilation(s, keys, windows, settings) ==
  IF Refusal(s) # Nothing THEN {<<Refusal(s), s.subject>>}
  ELSE IF DeploymentProblems(keys) # {} THEN DeploymentProblems(keys)
  ELSE Problems(Merged(s, windows), settings)
==============================================================================
