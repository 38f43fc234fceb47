------------------------------ MODULE MCGather -------------------------------
(* An instance of Gather for TLC: a control with a lookup, a set and a      *)
(* reference the hotel would have to supply, over four records of which two *)
(* are of one reservation, one has a key and one an identity nobody can     *)
(* read; and probes of populations over a week.                             *)
EXTENDS Gather, WireForm

CONSTANTS a, b, c, d, sample, room1, room2, type1, type2, monday, tuesday

Window(from, to) == [from |-> from, to |-> to]
Bookings_(filters) == [endpoint |-> "GetReservationKey", filters |-> filters]

AllControls == {"money", "validity", "departures", "stays", "arrivals", "confirmed"}
Queries ==
  [money      |-> Bookings_([DepartureDate |-> Window(-1, 1), BookingSearch |-> "OUT"]),
   validity   |-> Bookings_([DepartureDate |-> Window(0, Open)]),
   departures |-> Bookings_([DepartureDate |-> Window(-1, 1)]),
   stays      |-> Bookings_([DepartureDate |-> Window(0, Open)]),
   arrivals   |-> Bookings_([ArrivalDate |-> Window(-1, 1)]),
   confirmed  |-> Bookings_([DepartureDate |-> Window(-1, 1), BookingSearch |-> "OK"])]

Ref(entity, kind, source, endpoint, window) ==
  [entity |-> entity, kind |-> kind, source |-> source, endpoint |-> endpoint,
   window |-> window]
AllReferences ==
  [money      |-> <<Ref("room", "lookup", "pms", "getRooms", None),
                    Ref("rate", "lookup", "tenant", None, None),
                    Ref("block", "collection", "pms", "RoomStatusInquiry", Window(0, 2))>>,
   validity   |-> <<Ref("room_type", "set", "pms", "getRoomTypes", None),
                    Ref("room", "lookup", "pms", "getRooms", None)>>,
   departures |-> <<>>,
   stays      |-> <<Ref("block", "collection", "pms", "RoomStatusInquiry", None)>>,
   arrivals   |-> <<Ref("rate", "lookup", "pms", None, None)>>,
   confirmed  |-> <<>>]
PerRecord == [control \in AllControls |-> control = "money"]

Order(controls, endpoint, additions, as_of) ==
  [controls |-> controls, endpoint |-> endpoint, additions |-> additions, as_of |-> as_of]
Prices == {"IncludeRoomPrices"}
AllOrders ==
  {Order(<<"money">>, None, {}, 3),
   Order(<<"money">>, "GetReservationKey", {}, 3),
   Order(<<"money">>, "getRooms", {}, 3),
   Order(<<"money">>, "getRooms", Prices, 3),
   Order(<<"stays", "arrivals">>, "GetReservationKey", {}, 3),
   Order(<<"stays">>, None, {}, 3),
   Order(<<"departures">>, None, {}, 3),
   Order(<<"departures">>, None, {}, 4),
   Order(<<"arrivals">>, None, Prices, 3),
   Order(<<>>, None, Prices, 3)}

Asked_ == {BuildRequest(control, today) : control \in AllControls, today \in {3, 4}}
AllRequests ==
  Asked_ \union {Add(q, Prices) : q \in Asked_}
         \union UNION {{Calls(control, 3)[i] : i \in DOMAIN Calls(control, 3)} :
                         control \in AllControls}
         \union {Balance(1), Balance(2)}
\* What was recorded and committed before: a population, and master data.
Fixtures == {BuildRequest("departures", 3), BuildRequest("stays", 4)} \union
              {q \in AllRequests : q.endpoint = "getRooms"}
Known == {q \in AllRequests : Encodes(q)}

FourRecords == <<a, b, c, d>>
Identities == a :> 1 @@ b :> 2 @@ c :> Unread @@ d :> 1
LocalKeys  == a :> 101 @@ b :> Unread @@ c :> Absent @@ d :> 999

RemoteRecords == [room |-> <<room1, room2>>, rate |-> <<>>, block |-> <<room1>>,
                  room_type |-> <<type1, type2>>]
RemoteKeys == room1 :> 101 @@ room2 :> Absent @@ type1 :> Absent @@ type2 :> Absent
RoomCodes == room1 :> "single" @@ room2 :> "double" @@ type1 :> "single" @@ type2 :> Unread
Balances == <<50, 0>>

Stay(arrival, departure, status) ==
  [arrival |-> arrival, departure |-> departure, created |-> arrival, status |-> status]
Week == {Stay(1, 2, "OUT"), Stay(1, 4, "OUT"), Stay(2, 3, "OK"), Stay(4, 6, "OK"),
         Stay(3, 5, "OUT"), Stay(2, Unread, "OK")}

Error(code, after) == [code |-> code, after |-> after]
AllErrors == {Error(None, None), Error(401, None), Error(404, None), Error(429, 2),
              Error(503, Huge), Error(Disabled, None)}

\* One field of each kind, and those whose absence is a fact.
Field(kind, absent) == [kind |-> kind, absent |-> absent]
AllFields ==
  {Field(kind, "unknown") : kind \in KINDS}
    \union {Field("date", "false"), Field("text", "not_applicable"),
            Field("truefalse", "false")}

Text(word, digits, date, count, number) ==
  [word |-> word, digits |-> digits, date |-> date, count |-> count, number |-> number]
Word(word) == Text(word, FALSE, Unread, Unread, Unread)
Number(word, count) == Text(word, TRUE, Unread, count, 100 * count)
AllTexts ==
  {Word(word) : word \in {"", "OK", "OK4", "?", "****", "RMS", "C", "R", "YES", "Y",
                           "TRUE", "FALSE", "ILS"}}
    \union {Number("1", 1), Number("0", 0), Number("-1", -1),
            Text("2.5", TRUE, Unread, Unread, 250),
            Text("28/08/2024", TRUE, 5, Unread, Unread)}

\* A room stay within its booking: a field of either, of neither, or of two.
AllLineages ==
  {<<<<t>>>> : t \in AllTexts} \union {<<<<>>, <<t>>>> : t \in AllTexts}
    \union {<<<<>>, <<>>>>, <<<<Word("OK"), Word("YES")>>, <<Word("****")>>>>}

Statuses == [OK |-> "confirmed", OUT |-> "checked_out", CL |-> "cancelled"]
              @@ "IN" :> "checked_in"
Sandbox == [status |-> Statuses, department |-> <<>>]
DemoHotel ==
  [status |-> [BOOKED |-> "confirmed", IN_HOUSE |-> "checked_in",
               DEPARTED |-> "checked_out", VOID |-> "cancelled"],
   department |-> <<>>]
==============================================================================
