---------------------------- MODULE RoundsProofs -----------------------------
(***************************************************************************)
(* What Rounds guarantees for any hotel whose calendar runs forward, any   *)
(* day length, any controls and providers and any order of changes: first  *)
(* what the two ways of reading a clock have in common, then the invariant *)
(* and its three consequences.                                             *)
(***************************************************************************)
EXTENDS Rounds, TLAPS

------------------------------------------------------------------------------
(* Clocks.                                                                 *)

\* The day a wall shows begins at or before what it shows, and ends after it.
LEMMA DateBrackets ==
  ASSUME NEW h \in Hotels, NEW t \in Int
  PROVE  /\ Wall(h, t) \in Int /\ Date(h, t) \in Int
         /\ DayLength * Date(h, t) <= Wall(h, t)
         /\ Wall(h, t) < DayLength * Date(h, t) + DayLength
<1>1. ASSUME NEW a \in Int, NEW b \in Nat \ {0}
      PROVE  a \div b \in Int /\ b * (a \div b) <= a /\ a < b * (a \div b) + b
  OBVIOUS
<1>2. Wall(h, t) \in Int
  BY HotelsAssumption DEF Wall
<1> QED
  BY <1>1, <1>2, SchedulingAssumption DEF Date

\* Days that begin no later are no later days.
LEMMA DaysAreOrdered ==
  ASSUME NEW d \in Int, NEW e \in Int, DayLength * d < DayLength * e + DayLength
  PROVE  d <= e
<1>1. SUFFICES ASSUME e + 1 <= d PROVE FALSE
  OBVIOUS
<1>2. d - e - 1 \in Nat
  BY <1>1
<1>3. DayLength * (d - e - 1) \in Nat
  BY <1>2, SchedulingAssumption
<1>4. DayLength * (d - e - 1) = DayLength * d - DayLength * e - DayLength
  BY SchedulingAssumption
<1>5. DayLength * d \in Int /\ DayLength * e \in Int /\ DayLength \in Int
  BY SchedulingAssumption
<1> QED
  BY <1>3, <1>4, <1>5

\* The wall reaches the beginning of a day exactly when that day has come.
LEMMA DayHasCome ==
  ASSUME NEW h \in Hotels, NEW t \in Int, NEW d \in Int
  PROVE  DayLength * d <= Wall(h, t) <=> d <= Date(h, t)
<1>1. /\ Wall(h, t) \in Int /\ Date(h, t) \in Int
      /\ DayLength * Date(h, t) <= Wall(h, t)
      /\ Wall(h, t) < DayLength * Date(h, t) + DayLength
  BY DateBrackets
<1>2. DayLength \in Nat \ {0}
  BY SchedulingAssumption
<1>3. DayLength * d \in Int /\ DayLength * Date(h, t) \in Int
  BY <1>1, <1>2
<1>4. ASSUME DayLength * d <= Wall(h, t) PROVE d <= Date(h, t)
  BY <1>1, <1>2, <1>3, <1>4, DaysAreOrdered
<1>5. ASSUME d <= Date(h, t) PROVE DayLength * d <= Wall(h, t)
  <2>1. Date(h, t) - d \in Nat
    BY <1>1, <1>5
  <2>2. DayLength * (Date(h, t) - d) \in Nat
    BY <1>2, <2>1
  <2>3. DayLength * (Date(h, t) - d) = DayLength * Date(h, t) - DayLength * d
    BY <1>1, <1>2
  <2> QED
    BY <1>1, <1>3, <2>2, <2>3
<1> QED
  BY <1>4, <1>5

\* When the clock is moved the wall shows a day no earlier than a unit before.
LEMMA ChangeKeepsTheDay ==
  ASSUME NEW h \in Hotels
  PROVE  /\ Date(h, h.change - 1) <= Date(h, h.change)
         /\ Wall(h, h.change - 1) = h.change - 1
         /\ Wall(h, h.change) = h.change + h.shift
BY HotelsAssumption DEF Wall

\* The first instant that is not before midnight on the wall is not before what
\* midnight is taken to be, and nor is that hour on the wall.
LEMMA MidnightIsPast ==
  ASSUME NEW h \in Hotels, NEW t \in Int, Date(h, t) \in Days
  PROVE  /\ Midnight(h, Date(h, t)) \in Int
         /\ Midnight(h, Date(h, t)) <= t
         /\ MidnightReading(h, Date(h, t)) \in Int
         /\ h.kept = "zone" => MidnightReading(h, Date(h, t)) <= Wall(h, t)
         /\ h.kept # "zone" => MidnightReading(h, Date(h, t)) = Midnight(h, Date(h, t))
<1> DEFINE d == Date(h, t)
           w == DayLength * d
           m == Midnight(h, d)
<1>1. h.change \in Int /\ h.shift \in Int
  BY HotelsAssumption
<1>2. Wall(h, t) \in Int /\ d \in Int
  BY DateBrackets
<1>3. w \in Int /\ w <= Wall(h, t)
  BY <1>2, DateBrackets, SchedulingAssumption
<1>4. m = IF w < h.change \/ w < h.change + h.shift THEN w ELSE w - h.shift
  <2>1. d * DayLength = w
    BY <1>2, SchedulingAssumption
  <2> QED
    BY <2>1 DEF Midnight, InstantOf
<1>5. m \in Int
  BY <1>1, <1>3, <1>4
<1>6. ~(DayLength * d <= Wall(h, m - 1))
  <2>1. Date(h, m - 1) < d
    BY HotelsAssumption
  <2>2. Date(h, m - 1) \in Int
    BY <1>5, DateBrackets
  <2> QED
    BY <1>2, <1>5, <2>1, <2>2, DayHasCome
<1>7. Wall(h, m - 1) < w /\ Wall(h, m - 1) \in Int
  <2>1. Wall(h, m - 1) \in Int
    BY <1>5, DateBrackets
  <2> QED
    BY <1>3, <1>6, <2>1
<1>8. MidnightReading(h, d) = IF h.kept = "zone" THEN w ELSE m
  BY <1>2, SchedulingAssumption DEF MidnightReading
<1> HIDE DEF w, m
<1>9. m <= t
  BY <1>1, <1>3, <1>4, <1>5, <1>7 DEF Wall
<1> QED
  BY <1>3, <1>5, <1>8, <1>9 DEF m

\* The midnight after the day of t is still ahead at t, however instants are read.
LEMMA MidnightIsAhead ==
  ASSUME NEW h \in Hotels, NEW t \in Int
  PROVE  /\ Reading(h, t) \in Int
         /\ MidnightReading(h, Date(h, t) + 1) \in Int
         /\ Reading(h, t) < MidnightReading(h, Date(h, t) + 1)
<1> DEFINE d == Date(h, t) + 1
           w == DayLength * d
           m == Midnight(h, d)
<1>1. h.change \in Int /\ h.shift \in Int
  BY HotelsAssumption
<1>2. Wall(h, t) \in Int /\ d \in Int
  BY DateBrackets
<1>3. w \in Int /\ Wall(h, t) < w
  <2>1. ~(d <= Date(h, t))
    BY DateBrackets
  <2> QED
    BY <1>2, <2>1, DayHasCome, SchedulingAssumption
<1>4. m = IF w < h.change \/ w < h.change + h.shift THEN w ELSE w - h.shift
  <2>1. d * DayLength = w
    BY <1>2, SchedulingAssumption
  <2> QED
    BY <2>1 DEF Midnight, InstantOf
<1>5. ASSUME w < h.change PROVE w <= h.change + h.shift
  <2>1. w <= h.change - 1
    BY <1>1, <1>3, <1>5
  <2>2. d <= Date(h, h.change - 1)
    BY <1>1, <1>2, <2>1, DayHasCome, ChangeKeepsTheDay
  <2>3. Date(h, h.change - 1) \in Int /\ Date(h, h.change) \in Int
    BY <1>1, DateBrackets
  <2>4. d <= Date(h, h.change)
    BY <1>2, <2>2, <2>3, ChangeKeepsTheDay
  <2> QED
    BY <1>1, <1>2, <2>4, DayHasCome, ChangeKeepsTheDay
<1>6. MidnightReading(h, d) = IF h.kept = "zone" THEN w ELSE m
  BY <1>2, SchedulingAssumption DEF MidnightReading
<1> HIDE DEF w, m, d
<1>7. m \in Int /\ t < m
  BY <1>1, <1>3, <1>4, <1>5 DEF Wall
<1> QED
  BY <1>2, <1>3, <1>6, <1>7 DEF Reading, d

\* One unit later it is the same day or the next.
LEMMA DayAfterDay ==
  ASSUME NEW h \in Hotels, NEW t \in Nat
  PROVE  /\ Date(h, t) \in Int /\ Date(h, t + 1) \in Int
         /\ Date(h, t) <= Date(h, t + 1) /\ Date(h, t + 1) <= Date(h, t) + 1
<1>1. h.change \in Int /\ h.shift \in Int /\ h.shift < DayLength /\ DayLength \in Nat \ {0}
  BY HotelsAssumption, SchedulingAssumption
<1>2. /\ Wall(h, t) \in Int /\ Date(h, t) \in Int
      /\ Wall(h, t + 1) \in Int /\ Date(h, t + 1) \in Int
      /\ Wall(h, t) < DayLength * Date(h, t) + DayLength
  BY DateBrackets
<1>3. Date(h, t) <= Date(h, t + 1)
  <2>1. CASE t + 1 = h.change
    BY <1>1, <2>1, ChangeKeepsTheDay
  <2>2. CASE t + 1 # h.change
    <3>1. Wall(h, t) <= Wall(h, t + 1)
      BY <1>1, <2>2 DEF Wall
    <3>2. DayLength * Date(h, t) <= Wall(h, t) /\ DayLength * Date(h, t) \in Int
      BY <1>1, <1>2, DateBrackets
    <3>3. DayLength * Date(h, t) <= Wall(h, t + 1)
      BY <1>2, <3>1, <3>2
    <3> QED
      BY <1>2, <3>3, DayHasCome
  <2> QED
    BY <2>1, <2>2
<1>4. Date(h, t + 1) <= Date(h, t) + 1
  <2>1. Wall(h, t + 1) <= Wall(h, t) + DayLength
    BY <1>1 DEF Wall
  <2>2. DayLength * (Date(h, t) + 2) = DayLength * Date(h, t) + DayLength + DayLength
    BY <1>1, <1>2
  <2>3. DayLength * Date(h, t) \in Int
    BY <1>1, <1>2
  <2>4. ~(DayLength * (Date(h, t) + 2) <= Wall(h, t + 1))
    BY <1>1, <1>2, <2>1, <2>2, <2>3
  <2>5. ~(Date(h, t) + 2 <= Date(h, t + 1))
    BY <1>2, <2>4, DayHasCome
  <2> QED
    BY <1>2, <2>5
<1> QED
  BY <1>2, <1>3, <1>4

\* The days of the horizon are among Days, and the first is day 0.
LEMMA DatesAreDays ==
  ASSUME NEW h \in Hotels
  PROVE  /\ Date(h, 0) = 0
         /\ \A t \in 0 .. Horizon : Date(h, t) \in Days
<1>1. /\ h.change \in Nat \ {0} /\ h.shift \in Int /\ h.shift < DayLength
      /\ DayLength \in Nat \ {0} /\ Horizon \in Nat
  BY HotelsAssumption, SchedulingAssumption, HorizonAssumption
<1>2. DayLength * 0 = 0 /\ DayLength * 1 = DayLength
  BY <1>1
<1>3. Date(h, 0) = 0
  <2>1. Wall(h, 0) = 0
    BY <1>1 DEF Wall
  <2>2. 0 <= Date(h, 0) /\ ~(1 <= Date(h, 0)) /\ Date(h, 0) \in Int
    BY <1>1, <1>2, <2>1, DayHasCome, DateBrackets
  <2> QED
    BY <2>2
<1>4. ASSUME NEW t \in 0 .. Horizon PROVE Date(h, t) \in Days
  <2>1. Wall(h, t) \in Int /\ Date(h, t) \in Int
    BY DateBrackets
  <2>2. 0 <= Wall(h, t)
    <3>1. 0 <= Wall(h, h.change)
      <4>1. 0 <= Date(h, h.change - 1)
        BY <1>1, <1>2, DayHasCome, ChangeKeepsTheDay
      <4>2. 0 <= Date(h, h.change)
        BY <1>1, <4>1, ChangeKeepsTheDay, DateBrackets
      <4> QED
        BY <1>1, <1>2, <4>2, DayHasCome
    <3> QED
      BY <1>1, <3>1 DEF Wall
  <2>3. 0 <= Date(h, t)
    BY <1>2, <2>2, DayHasCome
  <2> DEFINE q == Horizon \div DayLength
  <2>4. q \in Int /\ Horizon < DayLength * q + DayLength
    <3>1. ASSUME NEW a \in Int, NEW b \in Nat \ {0}
          PROVE  a \div b \in Int /\ a < b * (a \div b) + b
      OBVIOUS
    <3> QED
      BY <1>1, <3>1
  <2> HIDE DEF q
  <2>5. Wall(h, t) < Horizon + DayLength
    BY <1>1 DEF Wall
  <2>6. DayLength * (q + 2) = DayLength * q + DayLength + DayLength /\ DayLength * q \in Int
    BY <1>1, <2>4
  <2>7. ~(DayLength * (q + 2) <= Wall(h, t))
    BY <1>1, <2>1, <2>4, <2>5, <2>6
  <2>8. Date(h, t) <= q + 1
    BY <2>1, <2>4, <2>7, DayHasCome
  <2> QED
    BY <2>1, <2>3, <2>4, <2>8 DEF Days, q
<1> QED
  BY <1>3, <1>4

\* A difference of readings falls short of the time that passed by no more than
\* the clock was set back, and of a difference of offsets by nothing.
LEMMA ReadingsPass ==
  ASSUME NEW h \in Hotels, NEW s \in Int, NEW t \in Int, s <= t
  PROVE  /\ Reading(h, s) \in Int /\ Reading(h, t) \in Int /\ SetBack(h) \in Nat
         /\ Wall(h, s) \in Int /\ Wall(h, t) \in Int
         /\ t - s <= Wall(h, t) - Wall(h, s) + SetBack(h)
         /\ t - s <= Reading(h, t) - Reading(h, s) + SetBack(h)
         /\ h.kept # "zone" => Reading(h, t) - Reading(h, s) = t - s
<1>1. h.change \in Int /\ h.shift \in Int
  BY HotelsAssumption
<1> QED
  BY <1>1 DEF Reading, Wall, SetBack

------------------------------------------------------------------------------
(* The invariant.                                                          *)

RoundsTypeOK ==
  /\ hotel \in Hotels /\ published \in Providers /\ control \in Controls /\ evidence \in Sources
  /\ now \in 0 .. Horizon /\ asked \in BOOLEAN
  /\ last \in (0 .. now) \union {None}
  /\ since \in [Kinds -> (0 .. now) \union {None}]
  /\ daily \in [Days -> 0 .. 2]
  /\ captured \in 0 .. now /\ fresh \in BOOLEAN

\* A run sees everything, so what has not been seen is younger than the last run.
UnseenIsNewer ==
  \A kind \in Kinds : since[kind] # None /\ last # None => last <= since[kind]

\* A kind of change that is told to the control is never left unseen.
ToldIsSeen ==
  \A kind \in Kinds :
    since[kind] # None => CurrentPlan.events \cap TellsOf[kind] \cap published = {}

OnTimer == CurrentPlan.mode \in {"periodic", "daily"}

\* A control on a timer that has been asked has run, now or so that it is not due.
RanWhenDue ==
  asked /\ OnTimer =>
    /\ last # None
    /\ last = now \/ ~IsDue(hotel, CurrentPlan, now)

\* A daily control has run once on each day up to that of its last run, which is
\* today's, or yesterday's until it is asked today.
DailySoFar ==
  CurrentPlan.mode = "daily" =>
    /\ last = None => now = 0 /\ ~asked /\ \A d \in Days : daily[d] = 0
    /\ last # None =>
         /\ \A d \in Days : daily[d] = IF d <= Date(hotel, last) THEN 1 ELSE 0
         /\ Date(hotel, last) <= Date(hotel, now)
         /\ Date(hotel, now) <= Date(hotel, last) + IF asked THEN 0 ELSE 1

FreshSinceRun == FreshIsYoung /\ (fresh => last # None)

RoundsInv ==
  RoundsTypeOK /\ UnseenIsNewer /\ ToldIsSeen /\ RanWhenDue /\ DailySoFar /\ FreshSinceRun

------------------------------------------------------------------------------
(* Plans.                                                                  *)

\* The block a plan is made of is one of the control's.
LEMMA DeepestIsABlock ==
  ASSUME NEW c \in Controls, NEW events
  PROVE  Deepest(c.execution, events) \in DOMAIN c.execution
<1> DEFINE n == Len(c.execution)
           R == Reached(c.execution, events)
<1>1. n \in Nat \ {0} /\ DOMAIN c.execution = 1 .. n
  BY ControlsAssumption
<1>2. 1 \in R /\ R \subseteq 1 .. n /\ R \subseteq {1, 2, 3}
  BY <1>1 DEF Reached, MAX_FALLBACK_DEPTH
<1> HIDE DEF R
<1>3. \E i \in R : \A j \in R : j <= i
  <2>1. CASE 3 \in R
    BY <1>2, <2>1
  <2>2. CASE 3 \notin R /\ 2 \in R
    BY <1>2, <2>2
  <2>3. CASE 3 \notin R /\ 2 \notin R
    BY <1>2, <2>3
  <2> QED
    BY <2>1, <2>2, <2>3
<1>4. Deepest(c.execution, events) \in R
  BY <1>3 DEF Deepest, R
<1> QED
  BY <1>1, <1>2, <1>4

\* What a plan says but for the next run is said of the control, its provider and
\* its hotel alone.
LEMMA PlanIsTheControls ==
  ASSUME NEW h, NEW execution, NEW events, NEW t, NEW u, NEW l, NEW m, NEW e
  PROVE  LET one == Plan(h, execution, events, t, l, e)
             two == Plan(h, execution, events, u, m, e)
         IN  one.mode = two.mode /\ one.events = two.events /\ one.interval = two.interval
BY DEF Plan

LEMMA PlanKept ==
  ASSUME UNCHANGED <<hotel, published, control>>
  PROVE  /\ CurrentPlan'.mode = CurrentPlan.mode /\ CurrentPlan'.events = CurrentPlan.events
         /\ CurrentPlan'.interval = CurrentPlan.interval
         /\ UNCHANGED <<now, last>> => CurrentPlan' = CurrentPlan
<1>1. CurrentPlan' = Plan(hotel, control.execution, published, now', last', control.event_at)
  BY DEF CurrentPlan
<1>2. CurrentPlan = Plan(hotel, control.execution, published, now, last, control.event_at)
  BY DEF CurrentPlan
<1> QED
  BY <1>1, <1>2, PlanIsTheControls

\* What the plans of the two timers say.
LEMMA TimerPlans ==
  ASSUME RoundsTypeOK
  PROVE  /\ OnTimer => CurrentPlan.events = {}
         /\ CurrentPlan.mode = "daily" =>
              /\ CurrentPlan.interval = DayLength
              /\ CurrentPlan.next = NextDaily(hotel, now, last)
         /\ CurrentPlan.mode = "periodic" =>
              /\ CurrentPlan.interval \in Nat
              /\ CurrentPlan.next = IF last = None THEN Reading(hotel, now)
                                    ELSE Reading(hotel, last) + CurrentPlan.interval
         /\ CurrentPlan.mode = "event" => CurrentPlan.events \subseteq published
<1> DEFINE block == control.execution[Deepest(control.execution, published)]
<1>1. control \in Controls
  BY DEF RoundsTypeOK
<1>2. block.mode = "periodic" => block.interval \in Nat \/ ScheduleError(block, control.event_at)
  BY <1>1, DeepestIsABlock, ControlsAssumption DEF ScheduleError
<1>3. CurrentPlan.mode # "unschedulable" => ~Blocked(block, published)
  BY DEF CurrentPlan, Plan
<1>4. CurrentPlan.mode \in {"daily", "periodic", "event"} =>
        /\ CurrentPlan.mode = block.mode /\ ~ScheduleError(block, control.event_at)
        /\ CurrentPlan.next = NextRun(hotel, block, now, last, control.event_at)
        /\ CurrentPlan.interval = IF block.mode = "daily" THEN DayLength
                                  ELSE IF block.mode = "event" THEN None ELSE block.interval
        /\ CurrentPlan.events = IF block.mode # "event" THEN {} ELSE block.events
  BY DEF CurrentPlan, Plan
<1>5. block.mode = "event" /\ ~Blocked(block, published) => block.events \subseteq published
  BY DEF Blocked, Unpublished
<1> HIDE DEF block
<1> QED
  BY <1>2, <1>3, <1>4, <1>5 DEF OnTimer, NextRun

\* A control on a timer that has not run yet is due.
LEMMA FirstIsDue ==
  ASSUME RoundsTypeOK, OnTimer, last = None
  PROVE  IsDue(hotel, CurrentPlan, now)
<1>1. Reading(hotel, now) \in Int
  <2>1. hotel \in Hotels /\ now \in Int
    BY HorizonAssumption DEF RoundsTypeOK
  <2> QED
    BY <2>1, MidnightIsAhead
<1>2. CurrentPlan.next = Reading(hotel, now)
  BY TimerPlans DEF OnTimer, NextDaily
<1> QED
  BY <1>1, <1>2, ClockAssumption DEF IsDue

\* A daily control is due exactly when it has not run on the hotel's day.
LEMMA DailyIsDue ==
  ASSUME RoundsTypeOK, CurrentPlan.mode = "daily", last # None
  PROVE  IsDue(hotel, CurrentPlan, now) <=> Date(hotel, last) < Date(hotel, now)
<1>1. hotel \in Hotels /\ now \in Int
  BY HorizonAssumption DEF RoundsTypeOK
<1>2. CurrentPlan.next = NextDaily(hotel, now, last)
  BY TimerPlans
<1>3. /\ Reading(hotel, now) \in Int
      /\ MidnightReading(hotel, Date(hotel, now) + 1) \in Int
      /\ Reading(hotel, now) < MidnightReading(hotel, Date(hotel, now) + 1)
  BY <1>1, MidnightIsAhead
<1>4. CASE Date(hotel, last) < Date(hotel, now)
  BY <1>2, <1>3, <1>4, ClockAssumption DEF IsDue, NextDaily
<1>5. CASE ~(Date(hotel, last) < Date(hotel, now))
  BY <1>2, <1>3, <1>5 DEF IsDue, NextDaily
<1> QED
  BY <1>4, <1>5

------------------------------------------------------------------------------
(* The invariant is one.                                                   *)

LEMMA RoundsInvInit == RoundsInit => RoundsInv
<1> SUFFICES ASSUME RoundsInit PROVE RoundsInv
  OBVIOUS
<1> USE HorizonAssumption DEF RoundsInit
<1>1. RoundsTypeOK
  <2>1. 0 \in 0 .. Horizon /\ 0 \in 0 .. 0 /\ 0 \in 0 .. 2
    OBVIOUS
  <2>2. since \in [Kinds -> (0 .. now) \union {None}] /\ daily \in [Days -> 0 .. 2]
    BY <2>1
  <2>3. last \in (0 .. now) \union {None} /\ now \in 0 .. Horizon /\ captured \in 0 .. now
    BY <2>1
  <2> QED
    BY <2>2, <2>3 DEF RoundsTypeOK
<1>2. FreshSinceRun
  BY DEF FreshSinceRun, FreshIsYoung
<1> QED
  BY <1>1, <1>2 DEF RoundsInv, UnseenIsNewer, ToldIsSeen, RanWhenDue, DailySoFar

\* Evidence a run calls fresh is young: an instant is no older than its day.
LEMMA FreshWhenRun ==
  ASSUME RoundsTypeOK, ~IsStale(hotel, control.maximum, Observed, now)
  PROVE  /\ evidence # "undated" /\ control.maximum # Unreadable
         /\ evidence = "replayed" =>
              now - captured <= control.maximum
                + (IF hotel.kept = "zone" THEN SetBack(hotel) ELSE 0)
<1> DEFINE m == MidnightReading(hotel, Date(hotel, captured))
<1>1. /\ hotel \in Hotels /\ now \in Int /\ captured \in Int /\ captured <= now
      /\ captured \in 0 .. Horizon
  BY HorizonAssumption DEF RoundsTypeOK
<1>2. Observed # None /\ control.maximum # Unreadable /\ control.maximum \in Nat
  BY ControlsAssumption DEF IsStale, RoundsTypeOK
<1>3. evidence # "undated"
  BY <1>2 DEF Observed
<1>4. ASSUME evidence = "replayed"
      PROVE  now - captured <= control.maximum
               + (IF hotel.kept = "zone" THEN SetBack(hotel) ELSE 0)
  <2>1. ~(Reading(hotel, now) - m > control.maximum)
    BY <1>4 DEF IsStale, Age, Observed
  <2>2. Date(hotel, captured) \in Days
    BY <1>1, DatesAreDays
  <2>3. /\ m \in Int
        /\ hotel.kept # "zone" => m <= captured
        /\ hotel.kept = "zone" => m <= Wall(hotel, captured)
    BY <1>1, <2>2, MidnightIsPast
  <2> HIDE DEF m
  <2>4. /\ SetBack(hotel) \in Nat /\ Wall(hotel, captured) \in Int /\ Wall(hotel, now) \in Int
        /\ now - captured <= Wall(hotel, now) - Wall(hotel, captured) + SetBack(hotel)
    BY <1>1, ReadingsPass
  <2>5. CASE hotel.kept # "zone"
    BY <1>1, <1>2, <2>1, <2>3, <2>5 DEF Reading
  <2>6. CASE hotel.kept = "zone"
    BY <1>1, <1>2, <2>1, <2>3, <2>4, <2>6 DEF Reading
  <2> QED
    BY <2>5, <2>6
<1> QED
  BY <1>2, <1>3, <1>4

\* What a run leaves behind, whatever made it.
LEMMA RunKeepsTypes ==
  ASSUME RoundsTypeOK, RunControl, asked' \in BOOLEAN,
         UNCHANGED <<hotel, published, control, evidence, now, captured>>
  PROVE  RoundsTypeOK' /\ last' = now /\ last' # None /\ FreshSinceRun' /\ UnseenIsNewer'
         /\ ToldIsSeen'
<1>1. Date(hotel, now) \in Days
  BY DatesAreDays DEF RoundsTypeOK
<1>2. last' = now /\ now \in 0 .. Horizon /\ now \in 0 .. now' /\ last' # None
  BY HorizonAssumption, ClockAssumption DEF RoundsTypeOK, RunControl
<1>3. since' \in [Kinds -> (0 .. now') \union {None}]
  BY DEF RunControl
<1>4. daily' \in [Days -> 0 .. 2]
  BY <1>1 DEF RoundsTypeOK, RunControl
<1>5. fresh' = ~IsStale(hotel, control.maximum, Observed, now)
  BY DEF RunControl
<1>6. fresh' \in BOOLEAN
  BY <1>5 DEF IsStale
<1>7. RoundsTypeOK'
  BY <1>2, <1>3, <1>4, <1>6 DEF RoundsTypeOK
<1>8. FreshSinceRun'
  BY <1>2, <1>5, FreshWhenRun DEF FreshSinceRun, FreshIsYoung
<1>9. \A kind \in Kinds : since'[kind] = None
  BY DEF RunControl
<1> QED
  BY <1>2, <1>7, <1>8, <1>9 DEF UnseenIsNewer, ToldIsSeen

\* Asked, a control that is due runs, and after that it is not due.
LEMMA AskKeepsInv == RoundsInv /\ Ask => RoundsInv'
<1> SUFFICES ASSUME RoundsInv, Ask PROVE RoundsInv'
  OBVIOUS
<1>0. /\ asked' = TRUE /\ UNCHANGED <<hotel, published, control, evidence, now, captured>>
      /\ RoundsTypeOK
  BY DEF Ask, RoundsInv
<1>1. /\ CurrentPlan'.mode = CurrentPlan.mode /\ CurrentPlan'.events = CurrentPlan.events
      /\ UNCHANGED <<now, last>> => CurrentPlan' = CurrentPlan
  BY <1>0, PlanKept
<1>2. now \in Nat /\ hotel \in Hotels /\ Date(hotel, now) \in Days
  BY HorizonAssumption, DatesAreDays DEF RoundsInv, RoundsTypeOK
<1>3. CASE IsDue(hotel, CurrentPlan, now)
  <2>1. RunControl
    BY <1>3 DEF Ask
  <2>2. /\ RoundsTypeOK' /\ last' = now /\ last' # None /\ FreshSinceRun' /\ UnseenIsNewer'
        /\ ToldIsSeen'
    BY <1>0, <2>1, RunKeepsTypes
  <2>3. RanWhenDue'
    BY <1>0, <2>2 DEF RanWhenDue
  <2>4. DailySoFar'
    <3>1. SUFFICES ASSUME CurrentPlan.mode = "daily"
                   PROVE  /\ \A d \in Days : daily'[d] = IF d <= Date(hotel, now) THEN 1 ELSE 0
                          /\ Date(hotel, now) <= Date(hotel, now)
                          /\ Date(hotel, now) <= Date(hotel, now) + 0
      BY <1>0, <1>1, <2>2 DEF DailySoFar
    <3>2. daily' = [daily EXCEPT ![Date(hotel, now)] = IF @ < 2 THEN @ + 1 ELSE @]
      BY <2>1 DEF RunControl
    <3>3. daily \in [Days -> 0 .. 2] /\ Days \subseteq Int
      BY <1>0 DEF RoundsTypeOK, Days
    <3>4. \A d \in Days : daily[d] = IF d < Date(hotel, now) THEN 1 ELSE 0
      <4>1. CASE last = None
        <5>1. now = 0 /\ \A d \in Days : daily[d] = 0
          BY <3>1, <4>1 DEF RoundsInv, DailySoFar
        <5>2. Date(hotel, now) = 0
          BY <1>2, <5>1, DatesAreDays
        <5>3. \A d \in Days : ~(d < 0)
          BY DEF Days
        <5> QED
          BY <5>1, <5>2, <5>3
      <4>2. CASE last # None
        <5>1. Date(hotel, last) < Date(hotel, now)
          BY <1>0, <1>3, <3>1, <4>2, DailyIsDue
        <5>2. /\ \A d \in Days : daily[d] = IF d <= Date(hotel, last) THEN 1 ELSE 0
              /\ Date(hotel, now) <= Date(hotel, last) + 1
          <6>1. Date(hotel, last) \in Int
            <7>1. last \in Int
              BY <1>0, <1>2, <4>2 DEF RoundsTypeOK
            <7> QED
              BY <1>2, <7>1, DateBrackets
          <6>2. /\ \A d \in Days : daily[d] = IF d <= Date(hotel, last) THEN 1 ELSE 0
                /\ Date(hotel, now) <= Date(hotel, last) + IF asked THEN 0 ELSE 1
            BY <3>1, <4>2 DEF RoundsInv, DailySoFar
          <6>3. Date(hotel, now) \in Int
            BY <1>2, <3>3
          <6>4. Date(hotel, now) <= Date(hotel, last) + 1
            BY <6>1, <6>2, <6>3
          <6> QED
            BY <6>2, <6>4
        <5>3. Date(hotel, last) \in Int
          <6>1. last \in Int
            BY <1>0, <1>2, <4>2 DEF RoundsTypeOK
          <6> QED
            BY <1>2, <6>1, DateBrackets
        <5>4. \A d \in Days : d < Date(hotel, now) <=> d <= Date(hotel, last)
          <6>1. Date(hotel, now) \in Int
            BY <1>2, <3>3
          <6> QED
            BY <3>3, <5>1, <5>2, <5>3, <6>1
        <5> QED
          BY <5>2, <5>4
      <4> QED
        BY <4>1, <4>2
    <3> DEFINE today == Date(hotel, now)
    <3>5. today \in Days /\ today \in Int
      BY <1>2, <3>3
    <3> HIDE DEF today
    <3>6. \A d \in Days : daily'[d] = IF d = today THEN IF daily[d] < 2 THEN daily[d] + 1 ELSE daily[d]
                                      ELSE daily[d]
      BY <3>2, <3>3, <3>5 DEF today
    <3>7. \A d \in Days : daily[d] = IF d < today THEN 1 ELSE 0
      BY <3>4 DEF today
    <3>8. \A d \in Days : daily'[d] = IF d <= today THEN 1 ELSE 0
      BY <3>3, <3>5, <3>6, <3>7
    <3> QED
      BY <3>5, <3>8 DEF today
  <2> QED
    BY <2>2, <2>3, <2>4 DEF RoundsInv
<1>4. CASE ~IsDue(hotel, CurrentPlan, now)
  <2>1. UNCHANGED <<last, daily, fresh, since>>
    BY <1>4 DEF Ask
  <2>2. CurrentPlan' = CurrentPlan
    BY <1>0, <1>1, <2>1
  <2>3. RoundsTypeOK' /\ UnseenIsNewer' /\ ToldIsSeen' /\ FreshSinceRun'
    BY <1>0, <1>1, <2>1 DEF RoundsInv, RoundsTypeOK, UnseenIsNewer, ToldIsSeen, FreshSinceRun,
       FreshIsYoung
  <2>4. OnTimer => last # None
    BY <1>0, <1>4, FirstIsDue
  <2>5. RanWhenDue'
    BY <1>0, <1>4, <2>1, <2>2, <2>4 DEF RanWhenDue, OnTimer
  <2>6. DailySoFar'
    <3>1. SUFFICES ASSUME CurrentPlan.mode = "daily" PROVE DailySoFar'
      BY <2>2 DEF DailySoFar
    <3>2. last # None
      BY <2>4, <3>1 DEF OnTimer
    <3>3. ~(Date(hotel, last) < Date(hotel, now))
      BY <1>0, <1>4, <3>1, <3>2, DailyIsDue
    <3>4. Date(hotel, last) \in Int /\ Date(hotel, now) \in Int
      <4>1. last \in Int
        BY <1>0, <1>2, <3>2 DEF RoundsTypeOK
      <4> QED
        BY <1>2, <4>1, DateBrackets
    <3>5. /\ \A d \in Days : daily[d] = IF d <= Date(hotel, last) THEN 1 ELSE 0
          /\ Date(hotel, last) <= Date(hotel, now)
      BY <3>1, <3>2 DEF RoundsInv, DailySoFar
    <3>6. Date(hotel, now) <= Date(hotel, last) + 0
      BY <3>3, <3>4
    <3> QED
      BY <1>0, <2>1, <2>2, <3>2, <3>5, <3>6 DEF DailySoFar
  <2> QED
    BY <2>3, <2>5, <2>6 DEF RoundsInv
<1> QED
  BY <1>3, <1>4

\* A change runs the control it is told to, and is remembered by any other.
LEMMA ChangeKeepsInv == RoundsInv /\ (\E kind \in Kinds : Change(kind)) => RoundsInv'
<1> SUFFICES ASSUME RoundsInv, NEW kind \in Kinds, Change(kind) PROVE RoundsInv'
  OBVIOUS
<1>0. /\ asked /\ asked' = asked /\ RoundsTypeOK
      /\ UNCHANGED <<hotel, published, control, evidence, now, captured>>
  BY DEF Change, RoundsInv
<1>1. /\ CurrentPlan'.mode = CurrentPlan.mode /\ CurrentPlan'.events = CurrentPlan.events
      /\ UNCHANGED <<now, last>> => CurrentPlan' = CurrentPlan
  BY <1>0, PlanKept
<1>2. CASE CurrentPlan.events \cap TellsOf[kind] \cap published # {}
  <2>1. RunControl
    BY <1>2 DEF Change
  <2>2. asked' \in BOOLEAN
    BY <1>0
  <2>3. /\ RoundsTypeOK' /\ last' = now /\ last' # None /\ FreshSinceRun' /\ UnseenIsNewer'
        /\ ToldIsSeen'
    BY <1>0, <2>1, <2>2, RunKeepsTypes
  <2>4. ~OnTimer
    BY <1>0, <1>2, TimerPlans
  <2>5. RanWhenDue' /\ DailySoFar'
    BY <1>1, <2>4 DEF RanWhenDue, DailySoFar, OnTimer
  <2> QED
    BY <2>3, <2>5 DEF RoundsInv
<1>3. CASE CurrentPlan.events \cap TellsOf[kind] \cap published = {}
  <2>1. /\ since' = [since EXCEPT ![kind] = IF @ = None THEN now ELSE @]
        /\ UNCHANGED <<last, daily, fresh>>
    BY <1>3 DEF Change
  <2>2. CurrentPlan' = CurrentPlan
    BY <1>0, <1>1, <2>1
  <2>3. since \in [Kinds -> (0 .. now) \union {None}] /\ now \in 0 .. now
    BY <1>0, HorizonAssumption DEF RoundsTypeOK
  <2>4. \A k \in Kinds : since'[k] = IF k = kind /\ since[k] = None THEN now ELSE since[k]
    BY <2>1, <2>3
  <2>5. since' \in [Kinds -> (0 .. now) \union {None}]
    BY <2>1, <2>3
  <2>6. RoundsTypeOK'
    BY <1>0, <2>1, <2>5 DEF RoundsTypeOK
  <2>7. UnseenIsNewer'
    <3>1. last # None => last <= now
      BY <1>0 DEF RoundsTypeOK
    <3> QED
      BY <2>1, <2>4, <3>1 DEF RoundsInv, UnseenIsNewer
  <2>8. ToldIsSeen'
    BY <1>0, <1>3, <2>2, <2>4 DEF RoundsInv, ToldIsSeen
  <2>9. RanWhenDue' /\ DailySoFar' /\ FreshSinceRun'
    BY <1>0, <2>1, <2>2 DEF RoundsInv, RanWhenDue, OnTimer, DailySoFar, FreshSinceRun, FreshIsYoung
  <2> QED
    BY <2>6, <2>7, <2>8, <2>9 DEF RoundsInv
<1> QED
  BY <1>2, <1>3

\* A new capture is younger than the one the last run stood on.
LEMMA CaptureKeepsInv == RoundsInv /\ Capture => RoundsInv'
<1> SUFFICES ASSUME RoundsInv, Capture PROVE RoundsInv'
  OBVIOUS
<1>0. /\ UNCHANGED <<hotel, published, control, evidence, now, asked, last, since, daily, fresh>>
      /\ captured' = now /\ captured < now /\ RoundsTypeOK
  BY DEF Capture, RoundsInv
<1>1. CurrentPlan' = CurrentPlan
  BY <1>0, PlanKept
<1>2. RoundsTypeOK'
  BY <1>0, HorizonAssumption DEF RoundsTypeOK
<1>3. FreshSinceRun'
  <2>1. SUFFICES ASSUME fresh, evidence = "replayed"
                 PROVE  last - now <= control.maximum
                          + (IF hotel.kept = "zone" THEN SetBack(hotel) ELSE 0)
    BY <1>0 DEF RoundsInv, FreshSinceRun, FreshIsYoung
  <2>2. /\ last \in Int /\ captured \in Int /\ now \in Int /\ control.maximum \in Int
        /\ SetBack(hotel) \in Int
    <3>1. last # None /\ control.maximum # Unreadable
      BY <2>1 DEF RoundsInv, FreshSinceRun, FreshIsYoung
    <3>2. hotel \in Hotels /\ control \in Controls
      BY <1>0 DEF RoundsTypeOK
    <3> QED
      BY <1>0, <3>1, <3>2, HorizonAssumption, HotelsAssumption, ControlsAssumption
      DEF RoundsTypeOK, SetBack
  <2>3. last - captured <= control.maximum
          + (IF hotel.kept = "zone" THEN SetBack(hotel) ELSE 0)
    BY <2>1 DEF RoundsInv, FreshSinceRun, FreshIsYoung
  <2> QED
    BY <1>0, <2>2, <2>3
<1>4. UnseenIsNewer' /\ ToldIsSeen' /\ RanWhenDue' /\ DailySoFar'
  BY <1>0, <1>1 DEF RoundsInv, UnseenIsNewer, ToldIsSeen, RanWhenDue, OnTimer, DailySoFar
<1> QED
  BY <1>2, <1>3, <1>4 DEF RoundsInv

\* The next instant is of the same day of the hotel's, or of the next.
LEMMA InstantKeepsInv == RoundsInv /\ NextInstant => RoundsInv'
<1> SUFFICES ASSUME RoundsInv, NextInstant PROVE RoundsInv'
  OBVIOUS
<1>0. /\ UNCHANGED <<hotel, published, control, evidence, last, since, daily, captured, fresh>>
      /\ asked /\ ~asked' /\ asked' \in BOOLEAN /\ now' = now + 1 /\ now < Horizon /\ RoundsTypeOK
  BY DEF NextInstant, RoundsInv
<1>1. CurrentPlan'.mode = CurrentPlan.mode /\ CurrentPlan'.events = CurrentPlan.events
  BY <1>0, PlanKept
<1>2. now \in Nat /\ now' \in 0 .. Horizon /\ (0 .. now) \subseteq (0 .. now') /\ hotel \in Hotels
  BY <1>0, HorizonAssumption DEF RoundsTypeOK
<1>3. RoundsTypeOK'
  <2>1. since \in [Kinds -> (0 .. now') \union {None}]
    BY <1>0, <1>2 DEF RoundsTypeOK
  <2> QED
    BY <1>0, <1>2, <2>1 DEF RoundsTypeOK
<1>4. UnseenIsNewer' /\ ToldIsSeen' /\ RanWhenDue' /\ FreshSinceRun'
  BY <1>0, <1>1 DEF RoundsInv, UnseenIsNewer, ToldIsSeen, RanWhenDue, FreshSinceRun, FreshIsYoung
<1>5. DailySoFar'
  <2>1. SUFFICES ASSUME CurrentPlan.mode = "daily" PROVE DailySoFar'
    BY <1>1 DEF DailySoFar
  <2>2. last # None
    BY <1>0, <2>1 DEF RoundsInv, RanWhenDue, OnTimer
  <2>3. /\ \A d \in Days : daily[d] = IF d <= Date(hotel, last) THEN 1 ELSE 0
        /\ Date(hotel, last) <= Date(hotel, now)
        /\ Date(hotel, now) <= Date(hotel, last) + 0
    BY <1>0, <2>1, <2>2 DEF RoundsInv, DailySoFar
  <2>4. /\ Date(hotel, now) \in Int /\ Date(hotel, now') \in Int
        /\ Date(hotel, now) <= Date(hotel, now') /\ Date(hotel, now') <= Date(hotel, now) + 1
    BY <1>0, <1>2, DayAfterDay
  <2>5. Date(hotel, last) \in Int
    <3>1. last \in Int
      BY <1>0, <1>2, <2>2 DEF RoundsTypeOK
    <3> QED
      BY <1>2, <3>1, DateBrackets
  <2>6. Date(hotel, last) <= Date(hotel, now') /\ Date(hotel, now') <= Date(hotel, last) + 1
    BY <2>3, <2>4, <2>5
  <2> QED
    BY <1>0, <2>2, <2>3, <2>6 DEF DailySoFar
<1> QED
  BY <1>3, <1>4, <1>5 DEF RoundsInv

LEMMA RoundsInvStep == RoundsInv /\ [RoundsNext]_roundsVars => RoundsInv'
<1> SUFFICES ASSUME RoundsInv, [RoundsNext]_roundsVars PROVE RoundsInv'
  OBVIOUS
<1>1. CASE UNCHANGED roundsVars
  <2>1. UNCHANGED <<hotel, published, control, evidence, now, asked, last, since, daily,
                    captured, fresh>>
    BY <1>1 DEF roundsVars
  <2>2. CurrentPlan' = CurrentPlan
    BY <2>1, PlanKept
  <2> QED
    BY <2>1, <2>2 DEF RoundsInv, RoundsTypeOK, UnseenIsNewer, ToldIsSeen, RanWhenDue, OnTimer,
       DailySoFar, FreshSinceRun, FreshIsYoung
<1> QED
  BY <1>1, AskKeepsInv, ChangeKeepsInv, CaptureKeepsInv, InstantKeepsInv DEF RoundsNext

\* What every behaviour of the rounds keeps.
LEMMA RoundsInvariant == RoundsSpec => []RoundsInv
  BY RoundsInvInit, RoundsInvStep, PTL DEF RoundsSpec

------------------------------------------------------------------------------
\* A daily control that is asked at every instant runs exactly once on each of the
\* hotel's days, whenever and by however much its clock is moved (_next_daily()).
THEOREM DailyOnEachDay == RoundsSpec => []DailyIsOncePerDay
<1>1. RoundsInv => DailyIsOncePerDay
  <2> SUFFICES ASSUME RoundsInv, CurrentPlan.mode = "daily", last # None, NEW d \in Days
               PROVE  /\ daily[d] <= 1
                      /\ d < Date(hotel, now) \/ (d = Date(hotel, now) /\ asked) => daily[d] = 1
    BY DEF DailyIsOncePerDay
  <2>1. hotel \in Hotels /\ now \in Int /\ last \in Int
    BY HorizonAssumption DEF RoundsInv, RoundsTypeOK
  <2>2. Date(hotel, now) \in Int /\ Date(hotel, last) \in Int /\ d \in Int
    BY <2>1, DateBrackets DEF Days
  <2>3. /\ daily[d] = IF d <= Date(hotel, last) THEN 1 ELSE 0
        /\ Date(hotel, now) <= Date(hotel, last) + IF asked THEN 0 ELSE 1
    BY DEF RoundsInv, DailySoFar
  <2> QED
    BY <2>2, <2>3
<1> QED
  BY <1>1, RoundsInvariant, PTL

\* A change at the hotel is seen within the interval of the trigger the control fell
\* back to, plus what the clock was set back by, and at once when the provider
\* publishes it (next_evaluation() over any chain of fallbacks).
THEOREM ChangesAreSeenInTime == RoundsSpec => []ChangesAreSeen
<1>1. RoundsInv => ChangesAreSeen
  <2> SUFFICES ASSUME RoundsInv, asked, NEW kind \in control.watches
               PROVE  /\ LongestWait # None => Waited(kind) <= LongestWait
                      /\ IsSubscription(CurrentPlan) /\ TellsOf[kind] \cap CurrentPlan.events # {}
                           => Waited(kind) = 0
    BY DEF ChangesAreSeen
  <2>1. /\ kind \in Kinds /\ hotel \in Hotels /\ now \in Int /\ RoundsTypeOK
        /\ since[kind] \in (0 .. now) \union {None}
    BY HorizonAssumption, ControlsAssumption DEF RoundsInv, RoundsTypeOK
  <2>2. IsSubscription(CurrentPlan) /\ TellsOf[kind] \cap CurrentPlan.events # {}
          => Waited(kind) = 0
    BY <2>1, TimerPlans DEF RoundsInv, ToldIsSeen, IsSubscription, Waited
  <2>3. ASSUME LongestWait # None
        PROVE  Waited(kind) <= LongestWait
    <3>1. OnTimer /\ LongestWait = CurrentPlan.interval + SetBack(hotel)
      BY <2>3 DEF LongestWait, OnTimer
    <3>2. CurrentPlan.interval \in Nat
      BY <2>1, <3>1, TimerPlans, SchedulingAssumption DEF OnTimer
    <3>3. SetBack(hotel) \in Nat
      BY <2>1, ReadingsPass
    <3>4. CASE since[kind] = None
      BY <3>1, <3>2, <3>3, <3>4 DEF Waited
    <3>5. CASE since[kind] # None
      <4>1. last # None /\ (last = now \/ ~IsDue(hotel, CurrentPlan, now))
        BY <3>1 DEF RoundsInv, RanWhenDue
      <4>2. last \in Int /\ last <= now /\ last <= since[kind] /\ since[kind] \in Int
            /\ Waited(kind) = now - since[kind]
        BY <2>1, <3>5, <4>1 DEF RoundsInv, RoundsTypeOK, UnseenIsNewer, Waited
      <4>3. CASE last = now
        BY <2>1, <3>1, <3>2, <3>3, <4>2, <4>3
      <4>4. CASE CurrentPlan.mode = "periodic" /\ ~IsDue(hotel, CurrentPlan, now)
        <5>1. CurrentPlan.next = Reading(hotel, last) + CurrentPlan.interval
          BY <2>1, <4>1, <4>4, TimerPlans
        <5>2. /\ Reading(hotel, last) \in Int /\ Reading(hotel, now) \in Int
              /\ now - last <= Reading(hotel, now) - Reading(hotel, last) + SetBack(hotel)
          BY <2>1, <4>2, ReadingsPass
        <5>3. Reading(hotel, now) < Reading(hotel, last) + CurrentPlan.interval
          BY <3>2, <4>4, <5>1, <5>2, ClockAssumption DEF IsDue
        <5> QED
          BY <2>1, <3>1, <3>2, <3>3, <4>2, <5>2, <5>3
      <4>5. CASE CurrentPlan.mode = "daily"
        <5>1. CurrentPlan.interval = DayLength /\ DayLength \in Nat
          BY <2>1, <4>5, TimerPlans, SchedulingAssumption
        <5>2. Date(hotel, now) = Date(hotel, last) /\ Date(hotel, last) \in Int
          <6>1. Date(hotel, last) <= Date(hotel, now) /\ Date(hotel, now) <= Date(hotel, last) + 0
            BY <4>1, <4>5 DEF RoundsInv, DailySoFar
          <6> QED
            BY <2>1, <4>2, <6>1, DateBrackets
        <5>3. /\ Wall(hotel, now) < DayLength * Date(hotel, now) + DayLength
              /\ DayLength * Date(hotel, last) <= Wall(hotel, last)
          BY <2>1, <4>2, DateBrackets
        <5>4. DayLength * Date(hotel, last) \in Int
          BY <5>1, <5>2
        <5>5. /\ Wall(hotel, last) \in Int /\ Wall(hotel, now) \in Int
              /\ now - last <= Wall(hotel, now) - Wall(hotel, last) + SetBack(hotel)
          BY <2>1, <4>2, ReadingsPass
        <5> QED
          BY <2>1, <3>1, <3>3, <4>2, <5>1, <5>2, <5>3, <5>4, <5>5
      <4> QED
        BY <3>1, <4>1, <4>3, <4>4, <4>5 DEF OnTimer
    <3> QED
      BY <3>4, <3>5
  <2> QED
    BY <2>2, <2>3
<1> QED
  BY <1>1, RoundsInvariant, PTL

\* A run that calls its evidence fresh stands on records no older than its rule
\* allows, on any day, and by no more than the clock was set back; a source that
\* cannot say when it looked never makes a fresh run (freshness_of()).
THEOREM FreshRunsAreYoung == RoundsSpec => []FreshIsYoung
<1>1. RoundsInv => FreshIsYoung
  BY DEF RoundsInv, FreshSinceRun
<1> QED
  BY <1>1, RoundsInvariant, PTL
==============================================================================
