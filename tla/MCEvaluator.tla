----------------------------- MODULE MCEvaluator -----------------------------
(* The shipped rules on small hotels where nothing is established yet.        *)
EXTENDS ShippedRules

Dates(ds) == {Known(d, DATE) : d \in ds}

MCReadings ==
  [f \in {STATUS, BALANCE, ADULTS, ASSIGNED, MAXADULTS, ROOMNUMBER, ROOMTYPE, BOOKEDTYPE, ROOMTYPES, CLOSEDFROM, CLOSEDTO,
          CHANNELID, ID, SEGROOM, SEGID, SEGFROM, SEGTO, SEGSTATUS} |->
    CASE f \in {STATUS, SEGSTATUS} -> {CHECKEDOUT, CANCELLED}
      [] f = BALANCE               -> {Known(n, "ILS") : n \in {0 - 5, 0, 5}}
      [] f = ADULTS                -> {Known(n, "count") : n \in 1 .. 3}
      [] f = MAXADULTS             -> {Known(2, "count")}
      [] f = ASSIGNED              -> {Text(1), Absent}
      [] f = ROOMNUMBER            -> {Text(1)}
      [] f = CHANNELID             -> {Text(1), Text(2), Absent}
      [] f = SEGROOM               -> {Text(1)}
      [] f \in {ROOMTYPE, BOOKEDTYPE} -> {Text(1), Text(2)}
      [] f = ROOMTYPES             -> {SetOf({1}), SetOf({1, 2})}
      [] f \in {ID, SEGID}         -> {Text(1), Text(2)}
      [] f = CLOSEDFROM            -> Dates({1, 3}) \union {Absent}
      [] f = CLOSEDTO              -> Dates({1, 3, 4, 6}) \union {Absent}
      [] f = SEGFROM               -> Dates({1, 3, 4})
      [] f = SEGTO                 -> Dates({3, 4, 6})]

MCPlausible(fields) == Sensible(fields)

Nothing(fs) == [f \in fs |-> Unknown]
NoJoins == [e \in {} |-> UNSURE]
Room    == [e \in {"room"} |-> UNSURE]
Segment == Nothing({SEGFROM, SEGTO})

\* A room and its segments: fetched or not, for which dates, with which unplaced.
OfRoom(unplaced, window) ==
  [Bundle(Nothing({CLOSEDFROM, CLOSEDTO, SEGFROM, SEGTO}), [e \in {"occupancy"} |-> UNSURE])
     EXCEPT !.related = [e \in {"occupancy"} |-> {}], !.unplaced = [e \in {"occupancy"} |-> unplaced],
             !.window = [e \in {"occupancy"} |-> window]]

Windows == {{}, {[start |-> 2, end |-> 4, asked_on |-> 2]}, {[start |-> 3, end |-> 6, asked_on |-> 2]}}

MCAnswers == {{}, {Segment}}

\* Records of one group, the last of them read but for what may settle the others.
Records(fields, known, last) ==
  LET base == [f \in fields |-> IF f \in DOMAIN known THEN known[f] ELSE Unknown]
  IN  [i \in 1 .. 3 |-> Bundle(IF i = 3 THEN [f \in fields |-> IF f \in DOMAIN last THEN last[f]
                                                              ELSE Unknown]
                               ELSE base, NoJoins)]

Bookings == Records({STATUS, CHANNELID, ID}, NoJoins, [f \in {CHANNELID} |-> Text(1)])

Stays ==
  Records({SEGSTATUS, SEGROOM, SEGID, SEGFROM, SEGTO},
          [f \in {SEGSTATUS} |-> CHECKEDOUT],
          [f \in {SEGROOM, SEGID, SEGFROM, SEGTO} |->
             CASE f = SEGROOM -> Text(1) [] f = SEGID -> Text(2) [] f = SEGFROM -> Known(3, DATE) [] f = SEGTO -> Known(4, DATE)])

One(r, fields, joins) == [rule |-> r, bundles |-> <<Bundle(fields, joins)>>]

MCCases ==
  {One(MoneyOwed, Nothing({STATUS, BALANCE}), NoJoins),
   One(Capacity, Nothing({STATUS, ASSIGNED, ADULTS, MAXADULTS}), Room),
   One(InactiveRoom, Nothing({STATUS, ASSIGNED, ROOMNUMBER, CLOSEDFROM}), Room),
   One(TypeValidity, Nothing({STATUS, ASSIGNED, ROOMNUMBER, ROOMTYPE, BOOKEDTYPE, ROOMTYPES}), Room),
   [rule |-> Duplicates, bundles |-> Bookings],
   [rule |-> Occupancy, bundles |-> Stays]}
  \union {[rule |-> ClosedRoom, bundles |-> <<OfRoom(u, w)>>] : u \in {{}, {Segment}}, w \in Windows}
==============================================================================
