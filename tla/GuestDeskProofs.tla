--------------------------- MODULE GuestDeskProofs ---------------------------
(***************************************************************************)
(* Theorems about GuestDesk, for any number of processes, any look-ups and *)
(* policies: what a stored decision rests on, that it keeps its one task,  *)
(* and that everybody who asked is told the row that is stored.            *)
(*                                                                         *)
(* The inductive invariant says where rows come from: a row, stored or     *)
(* about to be, is the table's ruling under a policy that loads, and a     *)
(* stored row is the only one of its identity.                             *)
(***************************************************************************)
EXTENDS GuestDesk, TLAPS

\* A request as _guest_decide() holds it.
Asks == [reservation : Reservations, asked : AskedTimes, received_on : Days,
         policy : Policies]

\* The row the table makes of a request and what was looked up.
RowOf(ask, evidence) ==
  [id       |-> DecisionId(ask, evidence),
   evidence |-> evidence,
   ruling   |-> Decide(ask.asked, ask.policy, evidence, ask.received_on)]

\* A row is some request's, under a policy that loads.
Made(row) ==
  \E ask \in Asks, evidence \in Lookups : Loads(ask.policy) /\ row = RowOf(ask, evidence)

CallInv ==
  /\ pc \in [Procs -> {"idle", "asked", "answered"}]
  /\ request \in [Procs -> Asks \union {None}]
  /\ DOMAIN draft = Procs
  /\ \A p \in Procs : /\ pc[p] # "idle" => request[p] \in Asks /\ Loads(request[p].policy)
                      /\ pc[p] = "answered" => Made(draft[p])

StoreInv ==
  /\ \A row \in decisions : Made(row)
  /\ \A one, two \in decisions : one.id = two.id => one = two
  /\ DecisionHasItsTask
  /\ \A answer \in answers : answer.row \in decisions

GuestInv == policy \in Policies /\ CallInv /\ StoreInv

------------------------------------------------------------------------------
\* The table over an established stay and a decided policy, spelled out: what each
\* of its four answers rests on.
LEMMA TableIsEarned ==
  ASSUME NEW asked \in Nat, NEW parameters \in Policy, NEW evidence \in Evidence,
         NEW today \in Int, Loads(parameters)
  PROVE  LET ruling == Decide(asked, parameters, evidence, today) IN
         /\ ruling.decision # STAFF_REVIEW =>
              /\ ~evidence.absent /\ None \notin {evidence.status, evidence.departure}
              /\ \A name \in PARAMETERS : parameters[name] # None
         /\ ruling.decision = DENIED =>
              \/ evidence.status \in {"cancelled", "checked_out"}
              \/ evidence.departure < today
              \/ asked > parameters["maximum_time"]
         /\ ruling.decision \in {APPROVED, APPROVED_WITH_FEE} =>
              /\ evidence.status = "checked_in"
              /\ evidence.departure = today
              /\ asked <= parameters["approval_required_after"]
              /\ asked <= parameters["maximum_time"]
<1> DEFINE rule   == RuleFor(asked, parameters, evidence, today)
           ruling == Decide(asked, parameters, evidence, today)
<1>1. CASE Gaps(parameters, evidence) # {}
  <2>1. rule = "LC1_gaps"
    BY <1>1 DEF RuleFor
  <2>2. ruling.decision = STAFF_REVIEW
    BY <2>1 DEF Decide, RULES
  <2> QED
    BY <2>2 DEF STAFF_REVIEW, DENIED, APPROVED, APPROVED_WITH_FEE
<1>2. CASE Gaps(parameters, evidence) = {}
  <2>1. /\ ~evidence.absent /\ evidence.status # None /\ evidence.departure # None
        /\ \A name \in PARAMETERS : parameters[name] # None
    BY <1>2 DEF Gaps, EvidenceGaps, Undecided, Evidence
  <2>2. evidence.departure \in Int
    BY <2>1 DEF Evidence
  <2>3. CASE StayRule(evidence, today) # None
    <3>1. rule = StayRule(evidence, today)
      BY <1>2, <2>3 DEF RuleFor
    <3>2. \/ /\ rule = "LC2_cancelled" /\ evidence.status = "cancelled"
          \/ /\ rule = "LC3_checked_out" /\ evidence.status = "checked_out"
          \/ /\ rule = "LC4_stay_ended" /\ evidence.departure < today
          \/ rule \in {"LC5_overstay", "LC6_not_today", "LC7_not_checked_in"}
      BY <2>3, <3>1 DEF StayRule
    <3> HIDE DEF rule
    <3>3. ruling.decision = RULES[rule]
      BY <3>2 DEF Decide, rule
    <3>4. \/ /\ ruling.decision = DENIED
             /\ \/ evidence.status \in {"cancelled", "checked_out"}
                \/ evidence.departure < today
          \/ ruling.decision = STAFF_REVIEW
      BY <3>2, <3>3 DEF RULES
    <3> QED
      BY <2>1, <3>4 DEF STAFF_REVIEW, DENIED, APPROVED, APPROVED_WITH_FEE
  <2>4. CASE StayRule(evidence, today) = None
    <3>1. evidence.status = "checked_in" /\ evidence.departure = today
      BY <2>2, <2>4, NoRuleAssumption DEF StayRule, RULES
    <3>2. rule = TimeRule(asked, parameters)
      BY <1>2, <2>4 DEF RuleFor
    <3>3. /\ parameters["charge_from"] \in Nat /\ parameters["free_until"] \in Nat
          /\ parameters["approval_required_after"] \in Nat
          /\ parameters["maximum_time"] \in Nat
      BY <2>1 DEF PARAMETERS, Policy
    <3>4. /\ parameters["free_until"] <= parameters["approval_required_after"]
          /\ parameters["approval_required_after"] <= parameters["maximum_time"]
      BY <3>3, NoneAssumption DEF Loads, Order
    <3>5. \/ /\ rule = "LC8_free" /\ asked <= parameters["approval_required_after"]
             /\ asked <= parameters["maximum_time"]
          \/ /\ rule = "LC9_after_maximum" /\ asked > parameters["maximum_time"]
          \/ rule = "LC10_needs_approval"
          \/ /\ rule = "LC11_fee" /\ asked <= parameters["approval_required_after"]
             /\ asked <= parameters["maximum_time"]
      BY <3>2, <3>3, <3>4 DEF TimeRule
    <3> HIDE DEF rule
    <3>6. ruling.decision = RULES[rule]
          \/ (rule = "LC11_fee" /\ ruling.decision = APPROVED)
      BY DEF Decide, rule
    <3>7. /\ rule = "LC8_free" => ruling.decision = APPROVED
          /\ rule = "LC9_after_maximum" => ruling.decision = DENIED
          /\ rule = "LC10_needs_approval" => ruling.decision = STAFF_REVIEW
          /\ rule = "LC11_fee" => ruling.decision \in {APPROVED, APPROVED_WITH_FEE}
      BY <3>6 DEF RULES
    <3> QED
      BY <2>1, <3>1, <3>5, <3>7 DEF STAFF_REVIEW, DENIED, APPROVED, APPROVED_WITH_FEE
  <2> QED
    BY <2>3, <2>4
<1> QED
  BY <1>1, <1>2

\* The invariant's four theorems follow from what a row is made of.
LEMMA MadeRow ==
  ASSUME NEW row, Made(row)
  PROVE  /\ row.id \in [reservation : Reservations, departure : Int \union {None},
                        asked : AskedTimes, received_on : Days, parameters : Policies]
         /\ row.evidence \in Lookups
         /\ Loads(row.id.parameters)
         /\ row.ruling = Decide(row.id.asked, row.id.parameters, row.evidence,
                                row.id.received_on)
<1>1. PICK ask \in Asks, evidence \in Lookups :
        Loads(ask.policy) /\ row = RowOf(ask, evidence)
  BY DEF Made
<1>2. evidence \in Evidence
  BY <1>1, DeskAssumption
<1>3. DecisionId(ask, evidence) \in
        [reservation : Reservations, departure : Int \union {None},
         asked : AskedTimes, received_on : Days, parameters : Policies]
  BY <1>1, <1>2 DEF DecisionId, Asks, Evidence
<1>4. /\ row.id = DecisionId(ask, evidence) /\ row.evidence = evidence
      /\ row.ruling = Decide(ask.asked, ask.policy, evidence, ask.received_on)
  BY <1>1 DEF RowOf
<1>5. /\ row.id.asked = ask.asked /\ row.id.parameters = ask.policy
      /\ row.id.received_on = ask.received_on
  BY <1>4 DEF DecisionId
<1> QED
  BY <1>1, <1>3, <1>4, <1>5

\* Every ruling cites a rule of the table, and its fee is an amount or none.
LEMMA RulingType ==
  ASSUME NEW asked \in Nat, NEW parameters \in Policy, NEW evidence \in Evidence,
         NEW today \in Int
  PROVE  LET ruling == Decide(asked, parameters, evidence, today) IN
         ruling.rule \in DOMAIN RULES /\ ruling.fee \in Nat \union {None}
<1> DEFINE rule == RuleFor(asked, parameters, evidence, today)
<1>1. rule \in DOMAIN RULES
  BY NoRuleAssumption DEF RuleFor, StayRule, TimeRule, RULES
<1>2. CASE rule = "LC11_fee"
  <2>1. /\ parameters["charge_from"] \in Nat /\ parameters["fee_per_hour"] \in Nat
    <3>1. Undecided(parameters) = {}
      BY <1>2 DEF RuleFor, Gaps
    <3> QED
      BY <3>1 DEF Undecided, PARAMETERS, Policy
  <2>2. ChargedHours(parameters["charge_from"], asked, parameters["hour_rounding"]) \in Int
    BY <2>1, HourAssumption DEF ChargedHours
  <2>3. Fee(asked, parameters) \in Nat \union {None}
    BY <2>1, <2>2 DEF Fee, FeeFor
  <2> QED
    BY <1>1, <2>3 DEF Decide
<1>3. CASE rule # "LC11_fee"
  BY <1>1, <1>3 DEF Decide
<1> QED
  BY <1>2, <1>3

\* Integer division brackets its dividend, and shrinks it.
LEMMA Quotient ==
  ASSUME NEW a \in Int, NEW b \in Nat \ {0}
  PROVE  /\ a \div b \in Int
         /\ b * (a \div b) <= a /\ a < b * (a \div b) + b
  OBVIOUS

LEMMA Larger ==
  ASSUME NEW k \in Nat, NEW b \in Nat \ {0}
  PROVE  k <= b * k
<1>1. b - 1 \in Nat
  OBVIOUS
<1>2. (b - 1) * k \in Nat
  BY <1>1
<1>3. b * k = (b - 1) * k + k
  OBVIOUS
<1> QED
  BY <1>2, <1>3

\* The hours charged for a time after charging starts.
LEMMA HoursReachTheTime ==
  ASSUME NEW from \in Nat, NEW asked \in Nat, asked > from, NEW rounding
  PROVE  LET h == ChargedHours(from, asked, rounding) IN
         /\ h \in 0 .. asked
         /\ IF rounding = "started_hour"
            THEN from + h * Hour >= asked /\ from + (h - 1) * Hour < asked
            ELSE from + h * Hour <= asked /\ from + (h + 1) * Hour > asked
<1> DEFINE minutes == asked - from
           h == ChargedHours(from, asked, rounding)
<1> USE HourAssumption
<1>1. minutes \in Nat \ {0} /\ minutes <= asked
  OBVIOUS
<1>2. CASE rounding = "started_hour"
  <2> DEFINE q == (-minutes) \div Hour
  <2>1. h = -q
    BY <1>1, <1>2 DEF ChargedHours
  <2>2. q \in Int /\ Hour * q <= -minutes /\ -minutes < Hour * q + Hour
    BY <1>1, Quotient
  <2> HIDE DEF q, minutes, h
  <2>3. h \in Int /\ Hour * h = -(Hour * q)
    BY <2>1, <2>2
  <2>4. Hour * h >= minutes /\ Hour * h < minutes + Hour
    BY <1>1, <2>2, <2>3
  <2>5. h > 0
    <3>1. SUFFICES ASSUME h <= 0 PROVE FALSE
      BY <2>3
    <3>2. -h \in Nat /\ Hour * (-h) = -(Hour * h)
      BY <2>3, <3>1
    <3>3. -h <= Hour * (-h)
      BY <3>2, Larger
    <3> QED
      BY <1>1, <2>3, <2>4, <3>1, <3>2, <3>3
  <2>6. h - 1 \in Nat /\ Hour * (h - 1) = Hour * h - Hour
    BY <2>3, <2>5
  <2>7. h - 1 <= Hour * (h - 1)
    BY <2>6, Larger
  <2>8. h <= asked
    BY <1>1, <2>3, <2>4, <2>6, <2>7
  <2>9. h * Hour = Hour * h /\ (h - 1) * Hour = Hour * (h - 1)
    BY <2>3
  <2>10. minutes = asked - from
    BY DEF minutes
  <2>11. from + h * Hour >= asked /\ from + (h - 1) * Hour < asked
    BY <1>1, <2>3, <2>4, <2>6, <2>9, <2>10
  <2>12. h \in 0 .. asked
    BY <2>3, <2>5, <2>8
  <2> QED
    BY <1>2, <2>11, <2>12 DEF h
<1>3. CASE rounding # "started_hour"
  <2>1. h = minutes \div Hour
    BY <1>1, <1>3 DEF ChargedHours
  <2>2. h \in Int /\ Hour * h <= minutes /\ minutes < Hour * h + Hour
    BY <1>1, <2>1, Quotient
  <2>10. minutes = asked - from
    OBVIOUS
  <2> HIDE DEF minutes, h
  <2>3. h >= 0
    <3>1. SUFFICES ASSUME h + 1 <= 0 PROVE FALSE
      BY <2>2
    <3>2. -(h + 1) \in Nat /\ Hour * (-(h + 1)) = -(Hour * h + Hour)
      BY <2>2, <3>1
    <3>3. -(h + 1) <= Hour * (-(h + 1))
      BY <3>2, Larger
    <3> QED
      BY <1>1, <2>2, <3>1, <3>2, <3>3
  <2>4. h <= Hour * h
    BY <2>2, <2>3, Larger
  <2>5. h \in 0 .. asked
    BY <1>1, <2>2, <2>3, <2>4
  <2>6. h * Hour = Hour * h /\ (h + 1) * Hour = Hour * h + Hour
    BY <2>2
  <2>7. from + h * Hour <= asked /\ from + (h + 1) * Hour > asked
    BY <1>1, <2>2, <2>6, <2>10
  <2> QED
    BY <1>3, <2>5, <2>7 DEF h
<1> QED
  BY <1>2, <1>3

\* A larger dividend has no smaller quotient, nor a longer charge a smaller fee.
LEMMA QuotientGrows ==
  ASSUME NEW a \in Int, NEW c \in Int, a <= c, NEW b \in Nat \ {0}
  PROVE  a \div b <= c \div b
<1> DEFINE q == a \div b
           r == c \div b
<1>1. q \in Int /\ b * q <= a /\ r \in Int /\ c < b * r + b
  BY Quotient
<1> HIDE DEF q, r
<1>2. SUFFICES ASSUME r + 1 <= q PROVE FALSE
  BY <1>1 DEF q, r
<1>3. q - r - 1 \in Nat
  BY <1>1, <1>2
<1>4. b * (q - r - 1) \in Nat /\ b * (q - r - 1) = b * q - b * r - b
  BY <1>1, <1>3
<1>5. b * q \in Int /\ b * r \in Int
  BY <1>1
<1> QED
  BY <1>1, <1>4, <1>5

LEMMA ProductGrows ==
  ASSUME NEW rate \in Nat, NEW h \in Nat, NEW k \in Nat, h <= k
  PROVE  rate * h \in Nat /\ rate * k \in Nat /\ rate * h <= rate * k
<1>1. k - h \in Nat
  OBVIOUS
<1>2. rate * (k - h) \in Nat
  BY <1>1
<1>3. rate * (k - h) = rate * k - rate * h
  OBVIOUS
<1>4. rate * h \in Nat /\ rate * k \in Nat
  OBVIOUS
<1> QED
  BY <1>2, <1>3, <1>4

\* A later time is charged for no fewer hours, whichever way they are rounded.
LEMMA HoursGrow ==
  ASSUME NEW from \in Nat, NEW asked \in Nat, NEW later \in Nat, asked <= later, NEW rounding
  PROVE  /\ ChargedHours(from, asked, rounding) \in Nat
         /\ ChargedHours(from, later, rounding) \in Nat
         /\ ChargedHours(from, asked, rounding) <= ChargedHours(from, later, rounding)
<1> USE HourAssumption
<1>1. ASSUME NEW t \in Nat
      PROVE  ChargedHours(from, t, rounding) \in Nat
  <2>1. CASE t > from
    <3>1. ChargedHours(from, t, rounding) \in 0 .. t
      BY <2>1, HoursReachTheTime
    <3> QED
      BY <3>1
  <2>2. CASE ~(t > from)
    BY <2>2 DEF ChargedHours
  <2> QED
    BY <2>1, <2>2
<1>2. CASE asked - from <= 0
  <2>1. ChargedHours(from, asked, rounding) = 0
    BY <1>2 DEF ChargedHours
  <2> QED
    BY <1>1, <2>1
<1>3. CASE asked - from > 0
  <2>1. later - from > 0
    BY <1>3
  <2>2. CASE rounding = "started_hour"
    <3>1. /\ ChargedHours(from, asked, rounding) = -((-(asked - from)) \div Hour)
          /\ ChargedHours(from, later, rounding) = -((-(later - from)) \div Hour)
      BY <1>3, <2>1, <2>2 DEF ChargedHours
    <3>2. (-(later - from)) \div Hour <= (-(asked - from)) \div Hour
      <4>1. -(later - from) \in Int /\ -(asked - from) \in Int
            /\ -(later - from) <= -(asked - from)
        OBVIOUS
      <4> QED
        BY <4>1, QuotientGrows
    <3>3. (-(later - from)) \div Hour \in Int /\ (-(asked - from)) \div Hour \in Int
      BY Quotient
    <3> QED
      BY <1>1, <3>1, <3>2, <3>3
  <2>3. CASE rounding # "started_hour"
    <3>1. /\ ChargedHours(from, asked, rounding) = (asked - from) \div Hour
          /\ ChargedHours(from, later, rounding) = (later - from) \div Hour
      BY <1>3, <2>1, <2>3 DEF ChargedHours
    <3>2. (asked - from) \div Hour <= (later - from) \div Hour
      BY QuotientGrows
    <3> QED
      BY <1>1, <3>1, <3>2
  <2> QED
    BY <2>2, <2>3
<1> QED
  BY <1>2, <1>3

\* The fee of the later of two times is no smaller.
LEMMA FeeGrows ==
  ASSUME NEW asked \in Nat, NEW later \in Nat, asked <= later, NEW parameters,
         parameters["charge_from"] \in Nat, parameters["fee_per_hour"] \in Nat
  PROVE  LET less == Fee(asked, parameters)
             more == Fee(later, parameters)
         IN  /\ less \in Nat \union {None} /\ more \in Nat \union {None}
             /\ less # None => more # None /\ less <= more
<1> DEFINE rate == parameters["fee_per_hour"]
           h == ChargedHours(parameters["charge_from"], asked, parameters["hour_rounding"])
           k == ChargedHours(parameters["charge_from"], later, parameters["hour_rounding"])
<1>1. h \in Nat /\ k \in Nat /\ h <= k
  BY HoursGrow
<1>2. /\ Fee(asked, parameters) = IF h <= 0 THEN None ELSE rate * h
      /\ Fee(later, parameters) = IF k <= 0 THEN None ELSE rate * k
  BY DEF Fee, FeeFor
<1>3. rate \in Nat
  OBVIOUS
<1> HIDE DEF h, k, rate
<1>4. rate * h \in Nat /\ rate * k \in Nat /\ rate * h <= rate * k
  BY <1>1, <1>3, ProductGrows
<1>5. rate * h # None /\ rate * k # None
  BY <1>4, NoneAssumption
<1> QED
  BY <1>1, <1>2, <1>4, <1>5

\* Over one stay and one policy the table answers the later of two times no more
\* favourably: the gaps and the stay do not read the time, and the bands ascend.
LEMMA TableIsMonotone ==
  ASSUME NEW asked \in Nat, NEW later \in Nat, asked <= later,
         NEW parameters \in Policy, NEW evidence \in Evidence, NEW today \in Int
  PROVE  LET one == Decide(asked, parameters, evidence, today)
             two == Decide(later, parameters, evidence, today)
         IN  /\ Burden[one.decision] <= Burden[two.decision]
             /\ two.decision = APPROVED_WITH_FEE => Amount(one) <= Amount(two)
<1> DEFINE one == Decide(asked, parameters, evidence, today)
           two == Decide(later, parameters, evidence, today)
           first  == RuleFor(asked, parameters, evidence, today)
           second == RuleFor(later, parameters, evidence, today)
<1> USE DEF APPROVED, APPROVED_WITH_FEE, STAFF_REVIEW, DENIED
<1>1. /\ one.rule = first /\ two.rule = second
      /\ one.fee = IF first = "LC11_fee" THEN Fee(asked, parameters) ELSE None
      /\ two.fee = IF second = "LC11_fee" THEN Fee(later, parameters) ELSE None
      /\ one.decision = IF first = "LC11_fee" /\ one.fee = None THEN APPROVED ELSE RULES[first]
      /\ two.decision = IF second = "LC11_fee" /\ two.fee = None THEN APPROVED ELSE RULES[second]
  BY DEF Decide
<1>2. CASE Gaps(parameters, evidence) # {} \/ StayRule(evidence, today) # None
  <2>1. first = second /\ first # "LC11_fee" /\ first \in DOMAIN RULES
    BY <1>2 DEF RuleFor, StayRule, RULES
  <2> HIDE DEF one, two, first, second
  <2>2. one.decision = RULES[first] /\ two.decision = RULES[first]
        /\ one.fee = None /\ two.fee = None
    BY <1>1, <2>1
  <2>3. Burden[RULES[first]] \in Int
    BY <2>1 DEF Burden, RULES
  <2> QED
    BY <2>2, <2>3 DEF Amount, one, two
<1>3. CASE Gaps(parameters, evidence) = {} /\ StayRule(evidence, today) = None
  <2>1. first = TimeRule(asked, parameters) /\ second = TimeRule(later, parameters)
    BY <1>3 DEF RuleFor
  <2>2. \A name \in PARAMETERS : parameters[name] # None
    BY <1>3 DEF Gaps, Undecided
  <2>3. /\ parameters["charge_from"] \in Nat /\ parameters["free_until"] \in Nat
        /\ parameters["approval_required_after"] \in Nat
        /\ parameters["maximum_time"] \in Nat /\ parameters["fee_per_hour"] \in Nat
    BY <2>2 DEF PARAMETERS, Policy
  <2>4. \/ first = "LC8_free" /\ second \in {"LC8_free", "LC9_after_maximum", "LC10_needs_approval", "LC11_fee"}
        \/ first = "LC9_after_maximum" /\ second = "LC9_after_maximum"
        \/ first = "LC10_needs_approval" /\ second \in {"LC9_after_maximum", "LC10_needs_approval"}
        \/ first = "LC11_fee" /\ second \in {"LC9_after_maximum", "LC10_needs_approval", "LC11_fee"}
    BY <2>1, <2>3 DEF TimeRule
  <2>5. LET less == Fee(asked, parameters)
            more == Fee(later, parameters)
        IN  /\ less \in Nat \union {None} /\ more \in Nat \union {None}
            /\ less # None => more # None /\ less <= more
    BY <2>3, FeeGrows
  <2> HIDE DEF one, two, first, second
  <2>6. /\ RULES["LC8_free"] = "APPROVED" /\ RULES["LC9_after_maximum"] = "DENIED"
        /\ RULES["LC10_needs_approval"] = "STAFF_REVIEW" /\ RULES["LC11_fee"] = "APPROVED_WITH_FEE"
    BY DEF RULES
  <2>7. /\ Burden["APPROVED"] = 0 /\ Burden["APPROVED_WITH_FEE"] = 1
        /\ Burden["STAFF_REVIEW"] = 2 /\ Burden["DENIED"] = 3
    BY DEF Burden
  <2>8. Burden[one.decision] <= Burden[two.decision]
    BY <1>1, <2>4, <2>5, <2>6, <2>7
  <2>9. ASSUME two.decision = "APPROVED_WITH_FEE"
        PROVE  Amount(one) <= Amount(two)
    <3>1. second = "LC11_fee" /\ two.fee # None /\ two.fee \in Nat
      BY <1>1, <2>4, <2>5, <2>6, <2>9
    <3>2. one.fee # None => one.fee \in Nat /\ one.fee <= two.fee
      BY <1>1, <2>5, <3>1
    <3> QED
      BY <3>1, <3>2 DEF Amount
  <2> QED
    BY <2>8, <2>9 DEF one, two
<1> QED
  BY <1>2, <1>3

LEMMA InitGuest == Init => GuestInv
<1> SUFFICES ASSUME Init PROVE GuestInv
  OBVIOUS
<1> USE DEF Init
<1>1. CallInv
  BY DEF CallInv
<1>2. DOMAIN tasks = {}
  OBVIOUS
<1>3. StoreInv
  BY <1>2 DEF StoreInv, DecisionHasItsTask
<1> QED
  BY <1>1, <1>3 DEF GuestInv

\* A row that comes to the store of new rows, with the task it raises.
LEMMA RaisedWithItsRow ==
  ASSUME NEW row, RaiseTask(row), DecisionHasItsTask, decisions' = decisions \union {row}
  PROVE  DecisionHasItsTask'
<1>1. CASE row.ruling.decision = DENIED
  BY <1>1 DEF RaiseTask, DecisionHasItsTask
<1>2. CASE row.ruling.decision # DENIED
  <2>1. DOMAIN tasks' = DOMAIN tasks \union {row.id}
    BY <1>2 DEF RaiseTask
  <2> QED
    BY <1>2, <2>1 DEF DecisionHasItsTask
<1> QED
  BY <1>1, <1>2

LEMMA NextGuest == GuestInv /\ [Next]_vars => GuestInv'
<1> SUFFICES ASSUME GuestInv, [Next]_vars PROVE GuestInv'
  OBVIOUS
<1> USE DEF GuestInv
<1>1. ASSUME NEW p \in Procs, NEW r \in Reservations, NEW t \in AskedTimes, NEW d \in Days,
             Ask(p, r, t, d)
      PROVE  GuestInv'
  <2>1. [reservation |-> r, asked |-> t, received_on |-> d, policy |-> policy] \in Asks
    BY DEF Asks
  <2>2. CallInv'
    BY <1>1, <2>1 DEF Ask, CallInv
  <2>3. StoreInv'
    BY <1>1 DEF Ask, StoreInv, DecisionHasItsTask
  <2> QED
    BY <1>1, <2>2, <2>3 DEF Ask
<1>2. ASSUME NEW p \in Procs, NEW evidence \in Lookups, Answer(p, evidence)
      PROVE  GuestInv'
  <2>1. request[p] \in Asks /\ Loads(request[p].policy)
    BY <1>2 DEF Answer, CallInv
  <2>2. Made(RowOf(request[p], evidence))
    BY <2>1 DEF Made
  <2>3. draft' = [draft EXCEPT ![p] = RowOf(request[p], evidence)]
    BY <1>2 DEF Answer, RowOf
  <2>4. CallInv'
    BY <1>2, <2>2, <2>3 DEF Answer, CallInv
  <2>5. StoreInv'
    BY <1>2 DEF Answer, StoreInv, DecisionHasItsTask
  <2> QED
    BY <1>2, <2>4, <2>5 DEF Answer
<1>3. ASSUME NEW p \in Procs, Save(p)
      PROVE  GuestInv'
  <2>1. Made(draft[p])
    BY <1>3 DEF Save, CallInv
  <2>2. PICK row : /\ Respond(p, row)
                   /\ \/ row \in Stored(draft[p].id) /\ UNCHANGED <<decisions, tasks>>
                      \/ /\ Stored(draft[p].id) = {} /\ row = draft[p]
                         /\ decisions' = decisions \union {row} /\ RaiseTask(row)
    BY <1>3 DEF Save
  <2>3. CallInv'
    BY <2>2 DEF Respond, CallInv
  <2>4. StoreInv'
    <3>1. CASE row \in Stored(draft[p].id) /\ UNCHANGED <<decisions, tasks>>
      BY <2>2, <3>1 DEF StoreInv, Respond, Stored, DecisionHasItsTask
    <3>2. CASE /\ Stored(draft[p].id) = {} /\ row = draft[p]
               /\ decisions' = decisions \union {row} /\ RaiseTask(row)
      <4>1. DecisionHasItsTask'
        BY <3>2, RaisedWithItsRow DEF StoreInv
      <4>2. \A other \in decisions : other.id # row.id
        BY <3>2 DEF Stored
      <4> QED
        BY <2>1, <2>2, <3>2, <4>1, <4>2 DEF StoreInv, Respond
    <3> QED
      BY <2>2, <3>1, <3>2
  <2> QED
    BY <1>3, <2>3, <2>4 DEF Save
<1>4. ASSUME NEW p \in Procs, NEW id \in DOMAIN tasks, NEW state \in {"done", "dismissed"},
             MoveTask(p, id, state)
      PROVE  GuestInv'
  BY <1>4 DEF MoveTask, CallInv, StoreInv, DecisionHasItsTask
<1>5. ASSUME NEW p \in Procs, Abandon(p)
      PROVE  GuestInv'
  BY <1>5 DEF Abandon, CallInv, StoreInv, DecisionHasItsTask
<1>6. ASSUME NEW edited \in Policies, EditPolicy(edited)
      PROVE  GuestInv'
  BY <1>6 DEF EditPolicy, CallInv, StoreInv, DecisionHasItsTask
<1>7. CASE UNCHANGED vars
  BY <1>7 DEF vars, CallInv, StoreInv, DecisionHasItsTask
<1> QED
  BY <1>1, <1>2, <1>3, <1>4, <1>5, <1>6, <1>7 DEF Next

\* What every behaviour of the desk keeps.
LEMMA GuestInvariant == Spec => []GuestInv
  BY InitGuest, NextGuest, PTL DEF Spec

\* The types of the variables and of the rows, stored or drafted.
THEOREM TypeCorrect == Spec => []TypeOK
<1>1. GuestInv => TypeOK
  <2> SUFFICES ASSUME GuestInv PROVE TypeOK
    OBVIOUS
  <2>1. ASSUME NEW row, Made(row)
        PROVE  /\ row.id \in Ids /\ row.evidence \in Lookups
               /\ row.ruling.rule \in DOMAIN RULES /\ row.ruling.fee \in Nat \union {None}
    <3>1. /\ row.id \in Ids /\ row.evidence \in Lookups
          /\ row.ruling = Decide(row.id.asked, row.id.parameters, row.evidence,
                                 row.id.received_on)
      BY <2>1, MadeRow DEF Ids
    <3>2. /\ row.id.asked \in Nat /\ row.id.parameters \in Policy
          /\ row.evidence \in Evidence /\ row.id.received_on \in Int
      BY <3>1, DeskAssumption DEF Ids
    <3> QED
      BY <3>1, <3>2, RulingType
  <2>2. \A row \in decisions \union {draft[p] : p \in {q \in Procs : pc[q] = "answered"}} :
          Made(row)
    BY DEF GuestInv, CallInv, StoreInv
  <2>3. DOMAIN tasks \subseteq {row.id : row \in decisions}
    BY DEF GuestInv, StoreInv, DecisionHasItsTask
  <2> QED
    BY <2>1, <2>2, <2>3 DEF TypeOK, GuestInv, CallInv
<1> QED
  BY <1>1, GuestInvariant, PTL

\* Whatever processes race, die or see, a stored decision has its one task exactly
\* when it is not a denial (save_decision() writes both in one transaction).
THEOREM DecisionsHaveTheirTasks == Spec => []DecisionHasItsTask
<1>1. GuestInv => DecisionHasItsTask
  BY DEF GuestInv, StoreInv
<1> QED
  BY <1>1, GuestInvariant, PTL

\* Everybody who was answered was told the one stored row of that identity, and
\* it is still there (save_decision() answers a conflict with the first row).
THEOREM AnswersAreTheStoredRow == Spec => []AnswersAgree
<1>1. GuestInv => AnswersAgree
  BY DEF GuestInv, StoreInv, AnswersAgree
<1> QED
  BY <1>1, GuestInvariant, PTL

\* No step rewrites or removes a stored decision.
THEOREM DecisionsAreNeverRewritten == Spec => FirstAnswerStands
<1>1. [Next]_vars => decisions \subseteq decisions'
  BY DEF Next, vars, Ask, Answer, Save, MoveTask, Abandon, EditPolicy
<1>2. [Next]_vars => [decisions \subseteq decisions']_vars
  BY <1>1
<1> QED
  BY <1>2, PTL DEF Spec, FirstAnswerStands

\* No decision is reached over a gap (V10), no guest is denied but for the stay or
\* the stated maximum, and none approved without being shown checked in, leaving
\* today, inside every band of a policy that loads - for every hotel's policy,
\* look-up and time, not the few TLC tries.
THEOREM DecisionsFollowFromEvidence == Spec => []DecisionsAreEarned
<1>1. GuestInv => DecisionsAreEarned
  <2> SUFFICES ASSUME GuestInv, NEW row \in decisions
               PROVE  LET parameters == row.id.parameters
                          established == ~row.evidence.absent /\ None \notin {row.evidence.status, row.evidence.departure}
                          decided == \A name \in PARAMETERS : parameters[name] # None
                      IN
                      /\ row.ruling.decision # STAFF_REVIEW => established /\ decided
                      /\ row.ruling.decision = DENIED =>
                           \/ row.evidence.status \in {"cancelled", "checked_out"}
                           \/ row.evidence.departure < row.id.received_on
                           \/ row.id.asked > parameters["maximum_time"]
                      /\ row.ruling.decision \in {APPROVED, APPROVED_WITH_FEE} =>
                           /\ row.evidence.status = "checked_in"
                           /\ row.evidence.departure = row.id.received_on
                           /\ row.id.asked <= parameters["approval_required_after"]
                           /\ row.id.asked <= parameters["maximum_time"]
    BY DEF DecisionsAreEarned
  <2>1. Made(row)
    BY DEF GuestInv, StoreInv
  <2>2. /\ row.id.asked \in Nat /\ row.id.parameters \in Policy
        /\ row.evidence \in Evidence /\ row.id.received_on \in Int
        /\ Loads(row.id.parameters)
        /\ row.ruling = Decide(row.id.asked, row.id.parameters, row.evidence,
                               row.id.received_on)
    BY <2>1, MadeRow, DeskAssumption
  <2> QED
    BY <2>2, TableIsEarned
<1> QED
  BY <1>1, GuestInvariant, PTL

\* A fee is charged for exactly the hours that reach the time asked for, rounded as
\* the hotel states, in hours of any length and for any rate.
THEOREM FeesAreByTheHour == Spec => []FeeIsByTheHour
<1>1. GuestInv => FeeIsByTheHour
  <2> SUFFICES ASSUME GuestInv, NEW row \in decisions, row.ruling.rule = "LC11_fee"
               PROVE  LET from     == row.id.parameters["charge_from"]
                          rate     == row.id.parameters["fee_per_hour"]
                          started  == row.id.parameters["hour_rounding"] = "started_hour"
                          Reaches(h) == IF started
                                        THEN /\ from + h * Hour >= row.id.asked
                                             /\ from + (h - 1) * Hour < row.id.asked
                                        ELSE /\ from + h * Hour <= row.id.asked
                                             /\ from + (h + 1) * Hour > row.id.asked
                      IN \E h \in 0 .. row.id.asked :
                           /\ Reaches(h)
                           /\ row.ruling.fee = IF h = 0 THEN None ELSE h * rate
                           /\ row.ruling.decision = IF h = 0 THEN APPROVED ELSE APPROVED_WITH_FEE
    BY DEF FeeIsByTheHour
  <2> DEFINE parameters == row.id.parameters
             from == parameters["charge_from"]
             h    == ChargedHours(from, row.id.asked, parameters["hour_rounding"])
  <2>1. Made(row)
    BY DEF GuestInv, StoreInv
  <2>2. /\ row.id.asked \in Nat /\ parameters \in Policy /\ Loads(parameters)
        /\ row.ruling = Decide(row.id.asked, parameters, row.evidence, row.id.received_on)
    BY <2>1, MadeRow, DeskAssumption
  <2>3. RuleFor(row.id.asked, parameters, row.evidence, row.id.received_on) = "LC11_fee"
    BY <2>2 DEF Decide
  <2>4. Undecided(parameters) = {}
    BY <2>3 DEF RuleFor, Gaps
  <2>5. /\ from \in Nat /\ parameters["free_until"] \in Nat
        /\ parameters["fee_per_hour"] \in Nat
    BY <2>2, <2>4 DEF Undecided, PARAMETERS, Policy
  <2>6. from <= parameters["free_until"]
    BY <2>2, <2>5, NoneAssumption DEF Loads, Order
  <2>7. TimeRule(row.id.asked, parameters) = "LC11_fee"
    BY <2>3 DEF RuleFor, StayRule
  <2>8. row.id.asked > parameters["free_until"]
    BY <2>2, <2>5, <2>7 DEF TimeRule
  <2>9. row.id.asked > from
    BY <2>2, <2>5, <2>6, <2>8
  <2>10. /\ h \in 0 .. row.id.asked
         /\ IF parameters["hour_rounding"] = "started_hour"
            THEN from + h * Hour >= row.id.asked /\ from + (h - 1) * Hour < row.id.asked
            ELSE from + h * Hour <= row.id.asked /\ from + (h + 1) * Hour > row.id.asked
    BY <2>2, <2>5, <2>9, HoursReachTheTime
  <2>11. /\ row.ruling.fee = Fee(row.id.asked, parameters)
         /\ row.ruling.decision = IF row.ruling.fee = None THEN APPROVED
                                  ELSE APPROVED_WITH_FEE
    BY <2>2, <2>3 DEF Decide, RULES
  <2>12. row.ruling.fee = IF h = 0 THEN None ELSE h * parameters["fee_per_hour"]
    <3>1. h \in Nat
      BY <2>2, <2>10
    <3>2. row.ruling.fee = IF h <= 0 THEN None ELSE parameters["fee_per_hour"] * h
      BY <2>11 DEF Fee, FeeFor
    <3> HIDE DEF h
    <3> QED
      BY <2>5, <3>1, <3>2
  <2>13. row.ruling.fee = None <=> h = 0
    <3>1. h \in Nat
      BY <2>2, <2>10
    <3> HIDE DEF h
    <3>2. h * parameters["fee_per_hour"] \in Int
      BY <2>5, <3>1
    <3> QED
      BY <2>12, <3>2, NoneAssumption
  <2> HIDE DEF h
  <2> QED
    BY <2>10, <2>11, <2>12, <2>13
<1> QED
  BY <1>1, GuestInvariant, PTL

\* Asking for more never gets an easier answer: of two stored decisions alike in
\* policy, evidence and day, the one for the later time is decided no more
\* favourably, nor for a smaller fee - under any policy, however it rounds.
THEOREM LaterIsHarder == Spec => []LaterIsNeverEasier
<1>1. GuestInv => LaterIsNeverEasier
  <2> SUFFICES ASSUME GuestInv, NEW one \in decisions, NEW two \in decisions,
                      one.id.parameters = two.id.parameters, one.evidence = two.evidence,
                      one.id.received_on = two.id.received_on, one.id.asked <= two.id.asked
               PROVE  /\ Burden[one.ruling.decision] <= Burden[two.ruling.decision]
                      /\ two.ruling.decision = APPROVED_WITH_FEE =>
                           Amount(one.ruling) <= Amount(two.ruling)
    BY DEF LaterIsNeverEasier
  <2>1. Made(one) /\ Made(two)
    BY DEF GuestInv, StoreInv
  <2>2. /\ one.id.asked \in Nat /\ one.id.parameters \in Policy
        /\ one.evidence \in Evidence /\ one.id.received_on \in Int
        /\ one.ruling = Decide(one.id.asked, one.id.parameters, one.evidence,
                               one.id.received_on)
    BY <2>1, MadeRow, DeskAssumption
  <2>3. /\ two.id.asked \in Nat
        /\ two.ruling = Decide(two.id.asked, one.id.parameters, one.evidence,
                               one.id.received_on)
    BY <2>1, MadeRow, DeskAssumption
  <2> QED
    BY <2>2, <2>3, TableIsMonotone
<1> QED
  BY <1>1, GuestInvariant, PTL
==============================================================================
