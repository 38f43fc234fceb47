-------------------------------- MODULE Rounds -------------------------------
(***************************************************************************)
(* One control over the days of one hotel.  The engine decides when it is  *)
(* due (Scheduling); the loop that asks it at every instant, "a while True *)
(* around it", is the user's, and so is the provider that publishes what   *)
(* changes.  A control names the kinds of change it watches, the maximum   *)
(* age of its evidence and, where its own rule states one, the interval of *)
(* a mandatory re-check.                                                   *)
(***************************************************************************)
EXTENDS Scheduling, FiniteSets

CONSTANTS
  Horizon,      \* the last instant
  Hotels,       \* the clocks and stores it may be at
  Providers,    \* sets of events that may be published
  Kinds,        \* what may change at a hotel
  TellsOf,      \* the events a change of a kind is published as
  Controls,     \* [execution, watches, event_at, maximum, mandatory]
  Sources      \* "live", "replayed" or "undated": where records come from

ASSUME HorizonAssumption == Horizon \in Nat
ASSUME ClockAssumption   == None \notin Int

Days == 0 .. Horizon \div DayLength + 1

\* What the zone database says of a hotel: its clock is moved by less than a day;
\* its calendar never goes back; and its midnights are where its days begin (one
\* that is skipped is skipped from its first instant on).
ASSUME HotelsAssumption ==
  \A h \in Hotels :
    /\ h.change \in Nat \ {0} /\ h.shift \in Int /\ h.shift < DayLength
    /\ Date(h, h.change - 1) <= Date(h, h.change)
    /\ \A d \in Days : Date(h, Midnight(h, d) - 1) < d

\* A control's own block comes first; a duration was read, or it cannot be.
ASSUME ControlsAssumption ==
  \A c \in Controls :
    /\ c.watches \subseteq Kinds /\ c.maximum \in Nat \union {Unreadable}
    /\ Len(c.execution) \in Nat \ {0}
    /\ DOMAIN c.execution = 1 .. Len(c.execution)
    /\ \A i \in DOMAIN c.execution :
         c.execution[i].mode = "periodic" => c.execution[i].interval \in Nat \union {Unreadable}

VARIABLES
  hotel, published, control, evidence,   \* what is being asked about
  now,
  asked,      \* next_evaluation() has been called at this instant
  last,       \* when the control ran last
  since,      \* [Kinds]: since when a change has not been seen
  daily,      \* how often it ran on each of the hotel's days: 0, 1 or 2 (more than once)
  captured,   \* when the evidence was obtained
  fresh       \* whether the last run calls its evidence fresh

roundsVars == <<hotel, published, control, evidence, now, asked, last, since, daily,
                captured, fresh>>

RoundsInit ==
  /\ hotel \in Hotels
  /\ published \in Providers
  /\ control \in Controls
  /\ evidence \in Sources
  /\ now = 0 /\ asked = FALSE
  /\ last = None
  /\ since = [k \in Kinds |-> None]
  /\ daily = [d \in Days |-> 0]
  /\ captured = 0
  /\ fresh = FALSE

CurrentPlan ==
  Plan(hotel, control.execution, published, now, last, control.event_at)

\* _observed(): the day a source says it was captured on, if it says one.
Observed ==
  IF evidence = "undated" THEN None
  ELSE Date(hotel, IF evidence = "live" THEN now ELSE captured)

\* run(): over what the source shows, stamped with the clock.
RunControl ==
  /\ last' = now
  /\ daily' = [daily EXCEPT ![Date(hotel, now)] = IF @ < 2 THEN @ + 1 ELSE @]
  /\ fresh' = ~IsStale(hotel, control.maximum, Observed, now)
  /\ since' = [k \in Kinds |-> None]

Ask ==
  /\ asked' = TRUE
  /\ IF IsDue(hotel, CurrentPlan, now) THEN RunControl
     ELSE UNCHANGED <<last, daily, fresh, since>>
  /\ UNCHANGED <<hotel, published, control, evidence, now, captured>>

\* Something the control watches changes; a subscription to it runs it at once.
\* (A replay shows nothing of what changes.)
Change(kind) ==
  /\ evidence = "live" /\ kind \in control.watches
  /\ asked
  /\ IF CurrentPlan.events \cap TellsOf[kind] \cap published # {}
     THEN RunControl
     ELSE /\ since' = [since EXCEPT ![kind] = IF @ = None THEN now ELSE @]
          /\ UNCHANGED <<last, daily, fresh>>
  /\ UNCHANGED <<hotel, published, control, evidence, now, asked, captured>>

Capture ==
  /\ evidence # "live"
  /\ captured < now
  /\ captured' = now
  /\ UNCHANGED <<hotel, published, control, evidence, now, asked, last, since, daily, fresh>>

NextInstant ==
  /\ asked
  /\ now < Horizon
  /\ now' = now + 1
  /\ asked' = FALSE
  /\ UNCHANGED <<hotel, published, control, evidence, last, since, daily, captured, fresh>>

RoundsNext == Ask \/ (\E kind \in Kinds : Change(kind)) \/ Capture \/ NextInstant

RoundsSpec == RoundsInit /\ [][RoundsNext]_roundsVars

------------------------------------------------------------------------------
\* "Once per property day is enough" and is also what happens: a daily control
\* that is asked at every instant runs exactly once on each of the hotel's days,
\* the day its clock is moved included.
DailyIsOncePerDay ==
  CurrentPlan.mode = "daily" /\ last # None =>
    \A d \in Days :
      /\ daily[d] <= 1
      /\ d < Date(hotel, now) \/ (d = Date(hotel, now) /\ asked) => daily[d] = 1

\* How long a change may go unseen: as long as the trigger the plan names, and
\* by the hour a clock is set back longer.  None: the plan does not say.
LongestWait ==
  LET plan == CurrentPlan IN
    IF plan.mode \in {"periodic", "daily"} THEN plan.interval + SetBack(hotel) ELSE None

Waited(kind) == IF since[kind] = None THEN 0 ELSE now - since[kind]

\* A change at the hotel is seen by the control that watches it within the
\* interval of the trigger it fell back to, and at once when the provider
\* publishes it: an hourly control does not run daily, and one whose events are
\* published in part only is not left waiting for the rest.
ChangesAreSeen ==
  evidence = "live" /\ asked =>
    \A kind \in control.watches :
      /\ LongestWait # None => Waited(kind) <= LongestWait
      /\ IsSubscription(CurrentPlan) /\ TellsOf[kind] \cap CurrentPlan.events # {}
           => Waited(kind) = 0

\* "Periodic re-checking is mandatory, not just a fallback": where a rule says so
\* of itself, what changes without an event is seen within its interval too.
SilentChangesAreSeen ==
  control.mandatory # None /\ evidence = "live" /\ asked =>
    \A kind \in control.watches : Waited(kind) <= control.mandatory + SetBack(hotel)

\* A run that calls its evidence fresh stands on records no older than its rule
\* allows, on any day; by an hour older at most when the clock was set back in
\* between.  A source that cannot say when it looked never makes a fresh run.
FreshIsYoung ==
  fresh => /\ evidence # "undated" /\ control.maximum # Unreadable
           /\ evidence = "replayed" =>
                last - captured <= control.maximum
                  + (IF hotel.kept = "zone" THEN SetBack(hotel) ELSE 0)
==============================================================================
