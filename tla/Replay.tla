------------------------------- MODULE Replay --------------------------------
(***************************************************************************)
(* How a recorded response answers a question asked later: FrozenSource in *)
(* providers/minihotel/fixtures.py, and DemoSource in providers/demopms,   *)
(* over the same hotel re-encoded (tools/transcode_demopms.py).  The       *)
(* recorded question must cover the one asked, and the recorded bookings   *)
(* are narrowed the way the server would have.                             *)
(*                                                                         *)
(* A question is [endpoint, filters]; filters is a function from their     *)
(* names, a window's value is [from, to] of days.  A vendor is the words   *)
(* it says these in.                                                       *)
(***************************************************************************)
EXTENDS Integers, TLC

CONSTANTS
  Unread,     \* a date nobody could read
  Open        \* a bound that was not given

\* Which field of a booking a date filter is about, and the other kinds of names.
MiniHotel ==
  [bookings |-> "GetReservationKey",
   dates    |-> [ArrivalDate |-> "arrival", DepartureDate |-> "departure",
                 CreateDate |-> "created"],
   windows  |-> {"ArrivalDate", "DepartureDate", "CreateDate", "DateRange"},
   status   |-> "BookingSearch",
   options  |-> {"IncludeRoomPrices"},
   keyed    |-> [GetReservationBalance |-> "ReservationNumber"]]

DemoPms ==
  [bookings |-> "bookings",
   dates    |-> [arrival |-> "arrival", departure |-> "departure", created |-> "created"],
   windows  |-> {"arrival", "departure", "created", "window"},
   status   |-> "state",
   options  |-> {"include_prices"},
   keyed    |-> [ledger |-> "booking_ref"]]

\* `(asked_from or "")` and `(asked_to or "9999")`.
From(window) == IF window.from = Open THEN 0 ELSE window.from
To(window) == IF window.to = Open THEN 9999 ELSE window.to

\* The recording never named the window, or its window is narrower.
OutOfReach(v, asked, recorded) ==
  \E name \in DOMAIN asked \intersect v.windows :
    \/ name \notin DOMAIN recorded
    \/ From(asked[name]) < From(recorded[name])
    \/ To(asked[name]) > To(recorded[name])

\* _uncovered() without its last loop: what else the recording was selected by.
Uncovered_WindowsOnly(v, asked, recorded) == OutOfReach(v, asked, recorded)

\* _uncovered(): out of reach, or narrowed by something that is not asked.
Uncovered(v, asked, recorded) ==
  \/ OutOfReach(v, asked, recorded)
  \/ \E name \in DOMAIN recorded \ DOMAIN asked : name \notin v.options

\* _entry_for(): may this recorded question answer the one asked?
Covers(v, recorded, asked) ==
  /\ recorded.endpoint = asked.endpoint
  /\ IF asked.endpoint \in DOMAIN v.keyed
       THEN recorded.filters = asked.filters
       ELSE ~Uncovered(v, asked.filters, recorded.filters)

InWindow(day, window) == day # Unread /\ From(window) <= day /\ day <= To(window)

\* _booking_matches(): a date nobody can read is outside every window.
Matches(v, booking, filters) ==
  \A name \in DOMAIN filters \ v.options :
    IF name \in DOMAIN v.dates THEN InWindow(booking[v.dates[name]], filters[name])
    ELSE name = v.status /\ booking.status = filters[name]

\* _replay(): only the bookings' endpoint is narrowed, and only by a filter.
Replayed(v, body, asked) ==
  IF asked.endpoint = v.bookings
  THEN {booking \in body : Matches(v, booking, asked.filters)}
  ELSE body

\* DemoSource.fetch() of one recorded response: refused, or the narrowed body.
DemoSource(recorded, body, asked, refusal) ==
  IF Covers(DemoPms, recorded, asked) THEN Replayed(DemoPms, body, asked) ELSE refusal
FrozenSource(recorded, body, asked, refusal) ==
  IF Covers(MiniHotel, recorded, asked) THEN Replayed(MiniHotel, body, asked) ELSE refusal

\* What the server itself answers: external, and as the captures show it.
Served(bookings, asked) ==
  {booking \in bookings : Matches(MiniHotel, booking, asked.filters)}

------------------------------------------------------------------------------
(* The demo hotel: the same responses in the other vocabulary.             *)

STATUS == [word \in {"OK", "IN", "OUT", "CL", "OK4", "WL", "LWP"} |->
             CASE word = "OK"  -> "BOOKED"   [] word = "IN"  -> "IN_HOUSE"
               [] word = "OUT" -> "DEPARTED" [] word = "CL"  -> "VOID"
               [] word = "OK4" -> "PROV4"    [] word = "WL"  -> "HOLD"
               [] word = "LWP" -> "NOPAY"]
ENDPOINTS == [GetReservationKey |-> "bookings", getRooms |-> "rooms",
              getRoomTypes |-> "room-types", GetReservationBalance |-> "ledger",
              RoomStatusInquiry |-> "occupancy"]
\* One filter under another's name.
FILTERS_Crossed == [ArrivalDate |-> "departure", DepartureDate |-> "arrival",
                    CreateDate |-> "created", DateRange |-> "window",
                    IncludeRoomPrices |-> "include_prices", ReservationNumber |-> "booking_ref",
                    BookingSearch |-> "state"]

FILTERS == [ArrivalDate |-> "arrival", DepartureDate |-> "departure",
            CreateDate |-> "created", DateRange |-> "window",
            IncludeRoomPrices |-> "include_prices", ReservationNumber |-> "booking_ref",
            BookingSearch |-> "state"]

\* _translate_request()
Translated(q) ==
  [endpoint |-> ENDPOINTS[q.endpoint],
   filters  |-> [word \in {FILTERS[name] : name \in DOMAIN q.filters} |->
                   LET name == CHOOSE name \in DOMAIN q.filters : FILTERS[name] = word
                   IN  IF name = "BookingSearch" THEN STATUS[q.filters[name]]
                                                 ELSE q.filters[name]]]

\* Transcoder._bookings(): each field re-encoded, and nothing filled in.
Transcoded(bookings) == {[booking EXCEPT !.status = STATUS[@]] : booking \in bookings}
==============================================================================
