------------------------------ MODULE WireForm -------------------------------
(* Which questions MiniHotel has a captured request form for: encode() and  *)
(* its builders (providers/minihotel/live.py).  A question outside of it is *)
(* a gap, never a call with the part left out that has no form.             *)
EXTENDS Replay

SETTINGS == {"getRoomTypes", "getRooms"}
PATHS == SETTINGS \union {"GetReservationKey", "GetReservationBalance", "RoomStatusInquiry"}

\* What each builder takes; the rest is refused, not dropped: a dropped filter is
\* a wider population.
Allowed(endpoint) ==
  CASE endpoint \in SETTINGS -> {}
    [] endpoint = "GetReservationKey" ->
         DOMAIN MiniHotel.dates \union MiniHotel.options \union {MiniHotel.status}
    [] endpoint = "GetReservationBalance" -> {"ReservationNumber"}
    [] endpoint = "RoomStatusInquiry" -> {"DateRange"}

\* An occupancy question names both ends of its window, a folio's one reservation.
IsBounded(q) ==
  CASE q.endpoint = "RoomStatusInquiry" ->
         /\ "DateRange" \in DOMAIN q.filters
         /\ q.filters.DateRange.from # Open /\ q.filters.DateRange.to # Open
    [] q.endpoint = "GetReservationBalance" -> "ReservationNumber" \in DOMAIN q.filters
    [] OTHER -> TRUE

Encodes(q) ==
  /\ q.endpoint \in PATHS
  /\ DOMAIN q.filters \subseteq Allowed(q.endpoint)
  /\ IsBounded(q)
==============================================================================
