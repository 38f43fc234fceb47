----------------------------- MODULE Predicates ------------------------------
(***************************************************************************)
(* One clause of a rule applied to one record's evidence                   *)
(* (hotelcontrols/evaluator/predicates.py and intervals.py), over the      *)
(* values the provider layer hands upwards (kernel/value.py, money.py).    *)
(*                                                                         *)
(* The answer is one of three.  A clause is a record with the keys of the  *)
(* rule's JSON; a field is <<entity, name>>.                               *)
(***************************************************************************)
EXTENDS Integers

HOLDS  == "holds"
FAILS  == "fails"
UNSURE == "unsure"

Ruling(b) == IF b THEN HOLDS ELSE FAILS

Opposite(r) == IF r = UNSURE THEN UNSURE ELSE Ruling(r = FAILS)

------------------------------------------------------------------------------
(* Values.  An amount or a tally carries its unit; a bare number can only   *)
(* come from a clause.  An absence the registry calls a fact is known.  A   *)
(* setting the property has not supplied is Unknown.                        *)

Known(payload, unit) == [is |-> "known", payload |-> payload, unit |-> unit, members |-> {}]

\* The values a set reference answered with, as one value.
SetOf(members) == [is |-> "known", payload |-> 0, unit |-> "set", members |-> members]

BARE    == "bare"
DATE    == "date"
Absent  == [is |-> "absent", payload |-> 0, unit |-> "none", members |-> {}]
Unknown == [is |-> "unknown", payload |-> 0, unit |-> "none", members |-> {}]

IsZero(v) == v.unit = BARE /\ v.payload = 0

\* Two known values may be compared: measured in the same thing, or one is a
\* clause's zero, which means the same under any unit.
Comparable(v, w) == v.unit = w.unit \/ IsZero(v) \/ IsZero(w)

\* A collection answers for many records: a clause reading one is refused unless
\* it is being judged record by record, which takes the collection out of `related`.
EntityOf(field) == field[1]

Operands(p) ==
  {p.field}
    \union (IF "compare_to" \in DOMAIN p THEN {p.compare_to} ELSE {})
    \union (IF "start" \in DOMAIN p THEN {p.start, p.end} ELSE {})

Entities(p) == {EntityOf(f) : f \in Operands(p)}

ReadsCollection(p, bundle) == Entities(p) \cap DOMAIN bundle.related # {}

\* What is not among a record's evidence is as good as unread.
Field(bundle, f) == IF f \in DOMAIN bundle.fields THEN bundle.fields[f] ELSE Unknown
Joined(bundle, e) == IF e \in DOMAIN bundle.joins THEN bundle.joins[e] ELSE UNSURE

------------------------------------------------------------------------------
(* Operators.                                                               *)

Exists(v) == IF v = Unknown THEN UNSURE ELSE Ruling(v # Absent)

\* An unknown refuses to compare, and so do two units.
Equals(v, w) ==
  IF Unknown \in {v, w} THEN UNSURE
  ELSE IF Absent \in {v, w} THEN Ruling(v = w)
  ELSE IF ~Comparable(v, w) THEN UNSURE
  ELSE Ruling(v.payload = w.payload)

\* An ordering has no answer of its own for an absence: the rule's, or none.
Ordered(operator, v, w, absent) ==
  IF v = Absent THEN absent
  ELSE IF Unknown \in {v, w} \/ ~Comparable(v, w) THEN UNSURE
  ELSE Ruling(CASE operator = "lt"  -> v.payload < w.payload
                [] operator = "lte" -> v.payload <= w.payload
                [] operator = "gt"  -> v.payload > w.payload
                [] operator = "gte" -> v.payload >= w.payload)

\* Membership in a set that could not be fetched, or was not supplied, is not
\* known to be false.
Among(v, set) ==
  IF Unknown \in {v, set} THEN UNSURE
  ELSE Ruling(v # Absent /\ v.payload \in set.members)

\* Both ends inclusive, an absent end open, no window at all a definite no; a
\* value that is no date falls nowhere.
Within_Exclusive(v, start, end) ==
  IF Unknown \in {v, start, end} \/ v.unit # DATE THEN UNSURE
  ELSE Ruling(/\ start # Absent \/ end # Absent
              /\ start = Absent \/ v.payload > start.payload
              /\ end = Absent \/ v.payload <= end.payload)

Within(v, start, end) ==
  IF Unknown \in {v, start, end} \/ v.unit # DATE THEN UNSURE
  ELSE Ruling(/\ start # Absent \/ end # Absent
              /\ start = Absent \/ v.payload >= start.payload
              /\ end = Absent \/ v.payload <= end.payload)

\* Two stays share a night: half-open, so a room re-let on the day it is vacated
\* is no conflict.
Overlaps_Inclusive(from1, to1, from2, to2) == from1 <= to2 /\ from2 <= to1

Overlaps(from1, to1, from2, to2) == from1 < to2 /\ from2 < to1

ORDERINGS == {"lt", "lte", "gt", "gte"}

\* A clause whose right-hand side this property has not supplied.
Unsupplied(p) == "value" \in DOMAIN p /\ p.value = Unknown

\* One clause, one record: it holds, it does not, or it cannot be established, as
\* when what it reads is not among the evidence or no operator is called that.
Evaluate(p, bundle) ==
  LET left  == Field(bundle, p.field)
      right == IF "compare_to" \in DOMAIN p THEN Field(bundle, p.compare_to) ELSE p.value
      joined == Joined(bundle, EntityOf(p.field))
  IN
  IF ReadsCollection(p, bundle) \/ ~(Operands(p) \subseteq DOMAIN bundle.fields) THEN UNSURE
  ELSE IF Unsupplied(p) THEN UNSURE
  ELSE CASE p.operator = "exists"            -> Exists(left)
         [] p.operator = "not_exists"        -> Opposite(Exists(left))
         [] p.operator = "equals"            -> Equals(left, right)
         [] p.operator = "not_equals"        -> Opposite(Equals(left, right))
         [] p.operator = "matches_ignore_case" -> Equals(left, right)  \* codes arrive folded
         [] p.operator = "in"                -> Among(left, right)
         [] p.operator = "not_in"            -> Opposite(Among(left, right))
         [] p.operator \in ORDERINGS         -> Ordered(p.operator, left, right, p.absent)
         [] p.operator = "reference_exists"  -> joined
         [] p.operator = "reference_missing" -> Opposite(joined)
         [] p.operator = "within"     -> Within(left, Field(bundle, p.start), Field(bundle, p.end))
         [] p.operator = "not_within" ->
              Opposite(Within(left, Field(bundle, p.start), Field(bundle, p.end)))
         [] OTHER -> UNSURE
==============================================================================
