---------------------------- MODULE ShippedRules -----------------------------
(***************************************************************************)
(* Seven of the rules the repository ships (src/spec/ir), each as the        *)
(* evaluator reads it, and what each of them says of a hotel in plain      *)
(* terms.  Between them they use every way a verdict is reached: a         *)
(* comparison with a literal and with another field, a lookup, a set, a    *)
(* count, an overlap and a collection.                                     *)
(***************************************************************************)
EXTENDS Evaluator

CONSTANTS
  Today,    \* the day `today` resolves to
  LastDay   \* the days are 1..LastDay

STATUS     == <<"reservation", "status">>
BALANCE    == <<"folio", "balance_due">>
ADULTS     == <<"reservation", "adults">>
ASSIGNED   == <<"stay", "room_number">>
MAXADULTS  == <<"room", "max_adults">>
ROOMNUMBER == <<"room", "number">>
ROOMTYPE   == <<"room", "type">>
BOOKEDTYPE == <<"stay", "room_type">>
ROOMTYPES  == <<"room_type", "code">>
CLOSEDFROM == <<"room", "closed_from">>
CLOSEDTO   == <<"room", "closed_to">>
CHANNELID  == <<"reservation", "channel_confirmation_id">>
ID         == <<"reservation", "id">>
SEGROOM    == <<"occupancy", "room_number">>
SEGID      == <<"occupancy", "reservation_id">>
SEGFROM    == <<"occupancy", "from">>
SEGTO      == <<"occupancy", "to">>
SEGSTATUS  == <<"occupancy", "status">>

Text(n)    == Known(n, "text")
CHECKEDOUT == Text(1)
CANCELLED  == Text(2)

Clause(field, operator) == [field |-> field, operator |-> operator]
Against(field, operator, literal) ==
  [field |-> field, operator |-> operator, value |-> literal, absent |-> UNSURE]
Beside(field, operator, other) ==
  [field |-> field, operator |-> operator, compare_to |-> other, absent |-> UNSURE]
Inside(field, start, end) ==
  [field |-> field, operator |-> "within", start |-> start, end |-> end]

Rule(control, scope, exceptions, mode, predicates) ==
  [control |-> control, scope |-> scope, exceptions |-> exceptions, mode |-> mode,
   predicates |-> predicates]
Grouped(control, scope, exceptions, group_by, predicate) ==
  [control |-> control, scope |-> scope, exceptions |-> exceptions, mode |-> "aggregate",
   group_by |-> group_by, predicates |-> <<predicate>>]

MoneyOwed ==
  Rule("checkout_money_owed", <<Against(STATUS, "equals", CHECKEDOUT)>>, <<>>, "all",
       <<Against(BALANCE, "lte", Known(0, BARE))>>)

\* Of the three kinds of guest the rule counts, one.
Capacity ==
  Rule("room_capacity_compliance",
       <<Against(STATUS, "not_equals", CANCELLED), Clause(ASSIGNED, "exists")>>, <<>>, "all",
       <<Beside(ADULTS, "lte", MAXADULTS)>>)

InactiveRoom ==
  Rule("inactive_room_future_stay",
       <<Against(STATUS, "not_equals", CANCELLED), Clause(ASSIGNED, "exists")>>, <<>>, "all",
       <<Clause(ROOMNUMBER, "reference_exists"), Clause(CLOSEDFROM, "not_exists")>>)

TypeValidity ==
  Rule("room_assignment_type_validity",
       <<Against(STATUS, "not_equals", CANCELLED), Clause(ASSIGNED, "exists")>>, <<>>, "all",
       <<Clause(ROOMNUMBER, "reference_exists"), Beside(ROOMTYPE, "in", ROOMTYPES),
         Beside(BOOKEDTYPE, "matches_ignore_case", ROOMTYPE)>>)

Duplicates ==
  Grouped("duplicate_channel_reservation",
          <<Against(STATUS, "not_equals", CANCELLED), Clause(CHANNELID, "exists")>>,
          <<Clause(CHANNELID, "not_exists")>>, CHANNELID,
          [field |-> ID, operator |-> "count_lte", value |-> 1])

Occupancy ==
  Grouped("resource_occupancy_consistency",
          <<Against(SEGSTATUS, "not_equals", CANCELLED)>>, <<>>, SEGROOM,
          [field |-> SEGID, operator |-> "no_overlap", start |-> SEGFROM, end |-> SEGTO])

ClosedRoom ==
  Rule("ooo_room_protection",
       <<Clause(CLOSEDFROM, "exists"),
         [field |-> CLOSEDTO, operator |-> "gte", value |-> Known(Today, DATE), absent |-> HOLDS]>>,
       <<>>, "none",
       <<Inside(SEGFROM, CLOSEDFROM, CLOSEDTO), Inside(CLOSEDFROM, SEGFROM, SEGTO)>>)

SHIPPED == {MoneyOwed, Capacity, InactiveRoom, TypeValidity, Duplicates, Occupancy, ClosedRoom}

------------------------------------------------------------------------------
(* The evidence of a hotel: what the registry says a reading of a field is,  *)
(* and what of a record a rule is given.                                    *)

Days == 1 .. LastDay

Read(v)  == v \notin {Unknown, Absent}

DATES    == {CLOSEDFROM, CLOSEDTO, SEGFROM, SEGTO}
COUNTS   == {ADULTS, MAXADULTS}
NULLABLE == {ASSIGNED, CHANNELID, CLOSEDFROM, CLOSEDTO}   \* where nothing said is a fact
TEXTS    == {STATUS, ASSIGNED, ROOMNUMBER, ROOMTYPE, BOOKEDTYPE, CHANNELID, ID, SEGROOM, SEGID,
             SEGSTATUS}

IsReading(f, v) ==
  \/ v = Absent /\ f \in NULLABLE
  \/ v = SetOf(v.members) /\ f = ROOMTYPES
  \/ /\ v = Known(v.payload, v.unit) /\ v.payload \in Int
     /\ \/ f \in DATES /\ v.unit = DATE /\ v.payload \in Days
        \/ f \in COUNTS /\ v.unit = "count"
        \/ f \in TEXTS /\ v.unit = "text"
        \/ f = BALANCE /\ v.unit # BARE

RecordOK(fields) == \A f \in DOMAIN fields : fields[f] = Unknown \/ IsReading(f, fields[f])

\* A stay has a night, and a closure does not end before it starts.
InOrder(fields, start, end, least) ==
  {start, end} \subseteq DOMAIN fields /\ Read(fields[start]) /\ Read(fields[end]) =>
    fields[start].payload + least <= fields[end].payload

Sensible(fields) == InOrder(fields, SEGFROM, SEGTO, 1) /\ InOrder(fields, CLOSEDFROM, CLOSEDTO, 0)

\* A segment as the occupancy collection gives it, beside its room.
SegmentOK(r) == DOMAIN r = {SEGFROM, SEGTO} /\ RecordOK(r)

\* What a rule reads is among the evidence, read or not; the one window its collection
\* was fetched for is asked on no later day than the rule is run.
EvidenceOK(r, b) ==
  /\ \A p \in ToSet(r.scope) \union ToSet(r.exceptions) \union ToSet(r.predicates) :
       Operands(p) \subseteq DOMAIN b.fields
  /\ r.mode = "aggregate" => r.group_by \in DOMAIN b.fields
  /\ RecordOK(b.fields) /\ Sensible(b.fields)
  /\ DOMAIN b.related = IF r = ClosedRoom THEN {"occupancy"} ELSE {}
  /\ r \in {InactiveRoom, TypeValidity} => "room" \in DOMAIN b.joins
  /\ r = ClosedRoom =>
       /\ "occupancy" \in DOMAIN b.joins
       /\ \A s \in b.related["occupancy"] \union b.unplaced["occupancy"] : SegmentOK(s)
       /\ \A w \in b.window["occupancy"] :
            /\ b.window["occupancy"] = {w}
            /\ w.start \in Int /\ w.end \in Int /\ w.asked_on \in Int /\ w.asked_on <= Today

\* The hotels the rules are run on: every field is read as its type, and a record that
\* can be is in order.
ASSUME ReadingsAssumption ==
  /\ LastDay \in Nat /\ Today \in Days
  /\ \A f \in DOMAIN Readings : \A v \in Readings[f] : IsReading(f, v)
  /\ {SEGFROM, SEGTO} \subseteq DOMAIN Readings
  /\ \A found \in Answers : \A s \in found : SegmentOK(s)
  /\ \A c \in Cases :
       /\ c.rule \in SHIPPED
       /\ \A i \in DOMAIN c.bundles :
            /\ EvidenceOK(c.rule, c.bundles[i])
            /\ \A f \in DOMAIN c.bundles[i].fields :
                 f \in DOMAIN Readings /\ c.bundles[i].fields[f] \in Readings[f] \union {Unknown}

ASSUME PlausibleAssumption ==
  \A c \in Cases : \A i \in DOMAIN c.bundles :
    LET names    == DOMAIN c.bundles[i].fields
        possible == {Unknown} \union UNION {Readings[f] : f \in names}
    IN  {SEGFROM, CLOSEDFROM} \cap names # {} =>
          \A fields \in [names -> possible] : Plausible(fields) => Sensible(fields)

------------------------------------------------------------------------------
(* What the rules say, without clauses, modes or unknowns.                  *)

Reading(i, f) == bundles[i].fields[f]

Active(i, f) == Read(Reading(i, f)) /\ Reading(i, f) # CANCELLED

\* The closure of room i, and the days a segment is known to occupy.
Closure(i) ==
  {d \in Days : /\ Read(Reading(i, CLOSEDFROM)) /\ d >= Reading(i, CLOSEDFROM).payload
                /\ \/ Reading(i, CLOSEDTO) = Absent
                   \/ Read(Reading(i, CLOSEDTO)) /\ d <= Reading(i, CLOSEDTO).payload}

Occupied(r) ==
  {d \in Days : /\ Read(r[SEGFROM])
                /\ \/ d = r[SEGFROM].payload
                   \/ Read(r[SEGTO]) /\ d \in r[SEGFROM].payload .. r[SEGTO].payload}

Nights(i) == Reading(i, SEGFROM).payload .. (Reading(i, SEGTO).payload - 1)

\* Two records are of different things sharing one key.
Rivals(i, j, status, key, id) ==
  /\ Active(i, status) /\ Active(j, status)
  /\ Read(Reading(i, key)) /\ Reading(i, key) = Reading(j, key)
  /\ Read(Reading(i, id)) /\ Read(Reading(j, id)) /\ Reading(i, id) # Reading(j, id)

Concerns(i) ==
  CASE rule.control = MoneyOwed.control -> Reading(i, STATUS) = CHECKEDOUT
    [] rule.control \in {Capacity.control, InactiveRoom.control, TypeValidity.control} ->
         Active(i, STATUS) /\ Read(Reading(i, ASSIGNED))
    [] rule.control = Duplicates.control -> Active(i, STATUS) /\ Read(Reading(i, CHANNELID))
    [] rule.control = Occupancy.control  -> Active(i, SEGSTATUS)
    [] rule.control = ClosedRoom.control -> \E d \in Closure(i) : d >= Today

Wrong(i) ==
  /\ Concerns(i)
  /\ CASE rule.control = MoneyOwed.control ->
            Read(Reading(i, BALANCE)) /\ Reading(i, BALANCE).payload > 0
       [] rule.control = Capacity.control ->
            /\ Read(Reading(i, ADULTS)) /\ Read(Reading(i, MAXADULTS))
            /\ Reading(i, ADULTS).payload > Reading(i, MAXADULTS).payload
       [] rule.control = InactiveRoom.control ->
            bundles[i].joins["room"] = FAILS \/ Read(Reading(i, CLOSEDFROM))
       [] rule.control = TypeValidity.control ->
            \/ bundles[i].joins["room"] = FAILS
            \/ /\ Read(Reading(i, ROOMTYPE))
               /\ \/ Read(Reading(i, ROOMTYPES))
                       /\ Reading(i, ROOMTYPE).payload \notin Reading(i, ROOMTYPES).members
                  \/ Read(Reading(i, BOOKEDTYPE))
                       /\ Reading(i, ROOMTYPE).payload # Reading(i, BOOKEDTYPE).payload
       [] rule.control = Duplicates.control ->
            \E j \in DOMAIN bundles : Rivals(i, j, STATUS, CHANNELID, ID)
       [] rule.control = Occupancy.control ->
            \E j \in DOMAIN bundles :
              /\ Rivals(i, j, SEGSTATUS, SEGROOM, SEGID)
              /\ \A k \in {i, j} : Read(Reading(k, SEGFROM)) /\ Read(Reading(k, SEGTO))
              /\ Nights(i) \cap Nights(j) # {}
       [] rule.control = ClosedRoom.control ->
            \E r \in bundles[i].related["occupancy"] : Occupied(r) \cap Closure(i) # {}

\* The days of a closure, from the day its segments were asked on, were all asked for.
AskedFor(i) ==
  \E w \in bundles[i].window["occupancy"] :
    Reading(i, CLOSEDTO) # Absent /\ {d \in Closure(i) : d >= w.asked_on} \subseteq w.start .. w.end

------------------------------------------------------------------------------
(* Properties.                                                              *)

\* Nobody is accused on what could not be read: whatever is still missing, a FAIL
\* is a violation in the rule's own terms by what was read.
AccusationsAreEarned ==
  LET v == Verdict IN \A i \in DOMAIN bundles : v[i] = FAIL => Wrong(i)

\* With nothing missing the evaluator always answers, and rightly: not applicable, a
\* violation, or none.  Only a closure reaching past the dates asked for stays open.
EstablishedIsDecided ==
  Established =>
    Verdict = [i \in DOMAIN bundles |->
                 CASE ~Concerns(i) -> EXCLUDED
                   [] Wrong(i)     -> FAIL
                   [] OTHER        -> IF rule.control = ClosedRoom.control /\ ~AskedFor(i)
                                      THEN UNKNOWN ELSE PASS]

\* A closed room that PASSes has no guest while it is closed, from the day its
\* segments were asked on: none of those fetched, none that may be its own, and
\* none that could stay outside the dates that were fetched.
ClearIsClear ==
  rule.control = ClosedRoom.control => \A i \in DOMAIN bundles : Verdict[i] = PASS =>
    \A w \in bundles[i].window["occupancy"] :
      LET closed == {d \in Closure(i) : d >= w.asked_on} IN
      /\ closed # {}
      /\ \A r \in bundles[i].related["occupancy"] \union bundles[i].unplaced["occupancy"] :
           Occupied(r) \cap closed = {}
      /\ \A from \in Days, to \in Days :
           from <= to /\ (from .. to) \cap (w.start .. w.end) = {} => (from .. to) \cap closed = {}

\* Whatever is still missing, neither answer is given too early: an accusation by
\* what was read, a clearance whatever the unread turn out to be.
VerdictsAreEarned == AccusationsAreEarned /\ ClearIsClear
==============================================================================
