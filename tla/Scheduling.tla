------------------------------ MODULE Scheduling -----------------------------
(***************************************************************************)
(* When a control runs next and whether what it ran on was recent          *)
(* (runner/scheduling.py): pure decisions over instants, read on a clock   *)
(* on the hotel's wall.                                                    *)
(*                                                                         *)
(* A hotel is [change, shift, kept]: its clock is moved by `shift` at      *)
(* `change`, and `kept` says how instants are kept.  Two datetimes of one  *)
(* zone are compared and subtracted on the wall; those read back from the  *)
(* store carry offsets, and are compared as instants.                      *)
(*                                                                         *)
(* An execution block with its fallbacks is a sequence of blocks, the      *)
(* declared one first.                                                     *)
(***************************************************************************)
EXTENDS Integers, Sequences

CONSTANTS
  DayLength,    \* a day, in the unit of instants
  Unreadable,   \* a duration, mode or instant nobody can read
  None          \* what is not there

ASSUME SchedulingAssumption == DayLength \in Nat \ {0}

MODES == {"event", "scheduled", "periodic", "daily"}
MAX_FALLBACK_DEPTH == 2

------------------------------------------------------------------------------
(* Clocks (kernel/clock.py).                                               *)

Wall(hotel, t) == IF t < hotel.change THEN t ELSE t + hotel.shift

\* PropertyClock.today()
Date(hotel, t) == Wall(hotel, t) \div DayLength

\* The instant at which the wall first shows w, or would have.
InstantOf(hotel, w) ==
  IF w < hotel.change \/ w < hotel.change + hotel.shift THEN w ELSE w - hotel.shift

Midnight(hotel, date) == InstantOf(hotel, date * DayLength)

\* What arithmetic on a datetime works with.
Reading(hotel, t) == IF hotel.kept = "zone" THEN Wall(hotel, t) ELSE t

\* datetime.combine(date, 00:00): an hour of that zone, also where the wall skips it.
MidnightReading(hotel, date) ==
  IF hotel.kept = "zone" THEN date * DayLength ELSE Midnight(hotel, date)

\* By how much a difference on the wall may fall short of the time that passed.
SetBack(hotel) == IF hotel.shift < 0 THEN -hotel.shift ELSE 0

------------------------------------------------------------------------------
(* next_evaluation(): the first block whose trigger this provider has.     *)

Unpublished(block, published) ==
  IF block.mode = "event" THEN block.events \ published ELSE {}

\* A partly published set of events counted as published.
Blocked_All(block, published) ==
  block.mode = "event" /\ block.events # {} /\ block.events \cap published = {}

Blocked(block, published) == Unpublished(block, published) # {}

\* The blocks that are looked at: each before was blocked, none is too deep.
Reached(execution, published) ==
  {i \in DOMAIN execution :
     /\ i <= MAX_FALLBACK_DEPTH + 1
     /\ \A j \in 1 .. i - 1 : Blocked(execution[j], published)}

Deepest(execution, published) ==
  CHOOSE i \in Reached(execution, published) :
    \A j \in Reached(execution, published) : j <= i

Missing(execution, published) ==
  UNION {Unpublished(execution[i], published) : i \in Reached(execution, published)}

\* What next_evaluation() refuses to plan.  `event_at` is the record's event for a
\* scheduled control, None in general.
ScheduleError(block, event_at) ==
  \/ block.mode \notin MODES
  \/ block.mode = "periodic" /\ block.interval = Unreadable
  \/ block.mode = "scheduled" /\ (block.before = None \/ block.interval = Unreadable)
  \/ block.mode = "scheduled" /\ event_at = Unreadable

\* A day after the last run instead of the next of the hotel's days.
NextDaily_Elapsed(hotel, now, last) ==
  IF last = None THEN Reading(hotel, now) ELSE Reading(hotel, last) + DayLength

\* _next_daily(): its own day, or now when today's run has not happened.
NextDaily(hotel, now, last) ==
  IF last = None \/ Date(hotel, last) < Date(hotel, now)
  THEN Reading(hotel, now)
  ELSE MidnightReading(hotel, Date(hotel, now) + 1)

NextRun(hotel, block, now, last, event_at) ==
  CASE block.mode = "periodic"  -> IF last = None THEN Reading(hotel, now)
                                   ELSE Reading(hotel, last) + block.interval
    [] block.mode = "daily"     -> NextDaily(hotel, now, last)
    [] block.mode = "scheduled" -> IF event_at = None THEN None
                                   ELSE Reading(hotel, event_at) - block.interval
    [] OTHER                    -> None

Plan(hotel, execution, published, now, last, event_at) ==
  LET at == Deepest(execution, published)
      block == execution[at]
      dead == Blocked(block, published) \/ (block.mode = "event" /\ block.events = {})
      refused == ScheduleError(block, event_at)
  IN [mode |-> IF dead THEN "unschedulable" ELSE IF refused THEN "refused" ELSE block.mode,
      declared |-> execution[1].mode,
      events |-> IF dead \/ block.mode # "event" THEN {} ELSE block.events,
      interval |-> IF block.mode = "daily" THEN DayLength
                   ELSE IF block.mode = "event" \/ refused THEN None ELSE block.interval,
      next |-> IF dead \/ refused THEN None ELSE NextRun(hotel, block, now, last, event_at),
      fell_back |-> at > 1,
      missing |-> Missing(execution, published)]

IsSubscription(plan) == plan.mode = "event"
IsDue(hotel, plan, now) == plan.next # None /\ plan.next <= Reading(hotel, now)

------------------------------------------------------------------------------
(* Freshness: what was obtained on a day is as old as that day's beginning.*)

\* Anchored at the end of the day.
Age_FromEvening(hotel, observed, created) ==
  Reading(hotel, created) - MidnightReading(hotel, observed + 1)

Age(hotel, observed, created) ==
  Reading(hotel, created) - MidnightReading(hotel, observed)

\* An age nobody can establish is not a fresh one.
IsStale(hotel, maximum, observed, created) ==
  \/ observed = None
  \/ maximum = Unreadable
  \/ Age(hotel, observed, created) > maximum
==============================================================================
