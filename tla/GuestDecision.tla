---------------------------- MODULE GuestDecision ----------------------------
(***************************************************************************)
(* The approved LATE_CHECKOUT table as the engine implements it            *)
(* (hotelcontrols/guest/decision.py), the fee it names (guest/fee.py), the *)
(* gaps it may not decide over (guest/evidence.py, guest/policy.py) and    *)
(* the check a policy passes when it is loaded.  Constant-level: GuestDesk *)
(* asks it questions.                                                      *)
(*                                                                         *)
(* A time is a number of minutes after midnight, a day a number, an amount *)
(* of money a number of the smallest unit of the policy's own currency.    *)
(***************************************************************************)
EXTENDS Integers

CONSTANTS
  Hour,      \* minutes in an hour (60; TLC runs take fewer)
  None       \* not decided, not known, no fee

ASSUME HourAssumption == Hour \in Nat \ {0}
ASSUME NoneAssumption == None \notin Int

APPROVED          == "APPROVED"
APPROVED_WITH_FEE == "APPROVED_WITH_FEE"
DENIED            == "DENIED"
STAFF_REVIEW      == "STAFF_REVIEW"

\* LC11 decides APPROVED instead when there is nothing to charge.
RULES == [LC1_gaps           |-> STAFF_REVIEW,
          LC2_cancelled      |-> DENIED,
          LC3_checked_out    |-> DENIED,
          LC4_stay_ended     |-> DENIED,
          LC5_overstay       |-> STAFF_REVIEW,
          LC6_not_today      |-> STAFF_REVIEW,
          LC7_not_checked_in |-> STAFF_REVIEW,
          LC8_free           |-> APPROVED,
          LC9_after_maximum  |-> DENIED,
          LC10_needs_approval |-> STAFF_REVIEW,
          LC11_fee           |-> APPROVED_WITH_FEE]

ASSUME NoRuleAssumption == None \notin DOMAIN RULES

STATUSES  == {"confirmed", "checked_in", "checked_out", "cancelled", "waitlist", "no_show"}
ROUNDINGS == {"started_hour", "completed_hour"}
PARAMETERS == {"charge_from", "free_until", "approval_required_after", "maximum_time",
               "fee_per_hour", "hour_rounding"}

\* What look_up() establishes.  None is a status that is unknown or has no name
\* here, a departure date that is unknown; absent, that no one record was found.
Evidence == [absent : BOOLEAN, status : STATUSES \union {None}, departure : Int \union {None}]

Policy == [charge_from             : Nat \union {None},
           free_until              : Nat \union {None},
           approval_required_after : Nat \union {None},
           maximum_time            : Nat \union {None},
           fee_per_hour            : Nat \union {None},
           hour_rounding           : ROUNDINGS \union {None}]

\* The pairs of parameter_order: the first may not be later than the second.
Order == {<<"charge_from", "free_until">>,
          <<"free_until", "approval_required_after">>,
          <<"approval_required_after", "maximum_time">>}

\* policy_from_block(): decided times must be in order; undecided are not read.
Loads(policy) ==
  \A pair \in Order :
    None \notin {policy[pair[1]], policy[pair[2]]} => policy[pair[1]] <= policy[pair[2]]

------------------------------------------------------------------------------
\* Started hours by truncation and one.
ChargedHours_PlusOne(charge_from, requested, rounding) ==
  LET minutes == requested - charge_from IN
  IF minutes <= 0 THEN 0
  ELSE IF rounding = "started_hour" THEN minutes \div Hour + 1
  ELSE minutes \div Hour

\* The minute of the hour taken for the minutes of the day.
ChargedHours_MinuteOnly(charge_from, requested, rounding) ==
  LET minutes == (requested % Hour) - (charge_from % Hour) IN
  IF minutes <= 0 THEN 0
  ELSE IF rounding = "started_hour" THEN -((-minutes) \div Hour)
  ELSE minutes \div Hour

\* Whole hours between two times, rounded as the hotel states.
ChargedHours(charge_from, requested, rounding) ==
  LET minutes == requested - charge_from IN
  IF minutes <= 0 THEN 0
  ELSE IF rounding = "started_hour" THEN -((-minutes) \div Hour)
  ELSE minutes \div Hour

\* The rate added to itself once per charged hour: a fee of nothing is no fee.
FeeFor(fee_per_hour, hours) == IF hours <= 0 THEN None ELSE fee_per_hour * hours

EvidenceGaps(evidence) ==
  IF evidence.absent THEN {"reservation"}
  ELSE {name \in {"status", "departure"} : evidence[name] = None}

Undecided(policy) == {name \in PARAMETERS : policy[name] = None}

Gaps(policy, evidence) == EvidenceGaps(evidence) \union Undecided(policy)

------------------------------------------------------------------------------
\* Catching `confirmed` alone, as the draft table did.
StayRule_ConfirmedOnly(evidence, today) ==
  IF evidence.status = "cancelled" THEN "LC2_cancelled"
  ELSE IF evidence.status = "checked_out" THEN "LC3_checked_out"
  ELSE IF evidence.departure < today
       THEN IF evidence.status = "checked_in" THEN "LC5_overstay" ELSE "LC4_stay_ended"
  ELSE IF evidence.departure > today THEN "LC6_not_today"
  ELSE IF evidence.status = "confirmed" THEN "LC7_not_checked_in"
  ELSE None

\* The first rule about the stay that matches, or None: checked in, leaving today.
StayRule(evidence, today) ==
  IF evidence.status = "cancelled" THEN "LC2_cancelled"
  ELSE IF evidence.status = "checked_out" THEN "LC3_checked_out"
  ELSE IF evidence.departure < today
       THEN IF evidence.status = "checked_in" THEN "LC5_overstay" ELSE "LC4_stay_ended"
  ELSE IF evidence.departure > today THEN "LC6_not_today"
  ELSE IF evidence.status # "checked_in" THEN "LC7_not_checked_in"
  ELSE None

\* The first rule about the time that matches.
TimeRule(asked, policy) ==
  IF asked <= policy["free_until"] THEN "LC8_free"
  ELSE IF asked > policy["maximum_time"] THEN "LC9_after_maximum"
  ELSE IF asked > policy["approval_required_after"] THEN "LC10_needs_approval"
  ELSE "LC11_fee"

Fee(asked, policy) ==
  FeeFor(policy["fee_per_hour"],
         ChargedHours(policy["charge_from"], asked, policy["hour_rounding"]))

\* decide(): every gap first, then the stay, then the time.
RuleFor(asked, policy, evidence, today) ==
  IF Gaps(policy, evidence) # {} THEN "LC1_gaps"
  ELSE IF StayRule(evidence, today) # None THEN StayRule(evidence, today)
  ELSE TimeRule(asked, policy)

Decide(asked, policy, evidence, today) ==
  LET rule == RuleFor(asked, policy, evidence, today)
      fee  == IF rule = "LC11_fee" THEN Fee(asked, policy) ELSE None
  IN  [rule     |-> rule,
       fee      |-> fee,
       decision |-> IF rule = "LC11_fee" /\ fee = None THEN APPROVED ELSE RULES[rule]]
==============================================================================
