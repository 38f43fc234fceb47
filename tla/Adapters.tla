------------------------------ MODULE Adapters -------------------------------
(***************************************************************************)
(* What one field of a record resolves to: resolve() and the transforms of *)
(* the two adapters (providers/minihotel, providers/demopms), and how the  *)
(* transcoder writes a captured field down in the demo hotel's words       *)
(* (tools/transcode_demopms.py).                                           *)
(*                                                                         *)
(* A text is what the parsers tell texts apart by: the word, as the field  *)
(* compares it, "" when it is blank; whether it has a digit; and what the  *)
(* field's date format, int() and Decimal() (in hundredths) read in it.  A *)
(* field is its kind, named for the transform of its mapping, and what the *)
(* registry says its absence means.  A lineage is what a record, and then  *)
(* each record around it, holds at the field's path.                       *)
(***************************************************************************)
EXTENDS Replay, Sequences

CONSTANTS
  Fields,               \* [kind, absent]
  Texts,                \* [word, digits, date, count, number]
  Lineages,             \* sequences of sequences of texts
  Tenant, DemoTenant    \* the two properties' own maps: [status, department]

FLAGS == {"yesno", "truefalse"}
CODED == {"status", "department", "housekeeping", "direction"} \union FLAGS
KINDS == {"date", "text", "count", "capacity", "money", "tariff", "card"} \union CODED

Fact(unit, payload) == <<unit, payload>>
Unresolved == <<"unknown">>

\* _absent(): what the registry says; present but empty is absent.
AbsentMeans(f) ==
  CASE f.absent = "false"          -> Fact("flag", "false")
    [] f.absent = "not_applicable" -> Fact("absence", "not applicable")
    [] OTHER                       -> Unresolved

\* The raws of the first record, from this one outwards, that holds the path.
Nearest(lineage) ==
  LET levels == {i \in DOMAIN lineage : lineage[i] # <<>>} IN
  IF levels = {} THEN <<>>
  ELSE lineage[CHOOSE i \in levels : \A j \in levels : i <= j]

IsFilled(raws) == raws # <<>> /\ raws[1].word # ""

------------------------------------------------------------------------------
(* MiniHotel.                                                               *)

Either(yes, no) ==
  [word \in yes \union no |-> IF word \in yes THEN "true" ELSE "false"]

\* The words of each kind of code: the provider's, and the property's own.
Codes(kind) ==
  CASE kind = "housekeeping" -> [C |-> "clean", D |-> "dirty"]
    [] kind = "direction"    -> [word \in {"1", "2"} |->
                                   IF word = "1" THEN "charge" ELSE "payment"]
    [] kind = "yesno"        -> Either({"YES", "Y"}, {"NO", "N"})
    [] kind = "truefalse"    -> Either({"TRUE", "1"}, {"FALSE", "0"})
    [] OTHER                 -> Tenant[kind]

Unit(kind) == IF kind \in FLAGS THEN "flag" ELSE "code"

Decoded(codes, kind, word) ==
  IF word \in DOMAIN codes THEN Fact(Unit(kind), codes[word]) ELSE Unresolved

ReadAs(unit, reading) == IF reading = Unread THEN Unresolved ELSE Fact(unit, reading)

\* int() of a Decimal: towards zero.
Whole(number) == IF number < 0 THEN -((-number) \div 100) ELSE number \div 100

\* An amount is no evidence without its currency, and 0 usually means that nobody
\* configured one.
FromMiniHotel(f, t, currency) ==
  CASE f.kind = "date"     -> ReadAs("date", t.date)
    [] f.kind = "count"    -> ReadAs("count", t.count)
    [] f.kind = "capacity" -> IF t.number \in {Unread, 0} THEN Unresolved
                              ELSE Fact("count", Whole(t.number))
    [] f.kind \in {"money", "tariff"} ->
         IF currency = "" \/ t.number = Unread \/ (f.kind = "tariff" /\ t.number = 0)
         THEN Unresolved ELSE Fact("money", <<t.number, currency>>)
    [] f.kind = "card"     -> IF t.digits THEN Fact("flag", "true") ELSE Unresolved
    [] f.kind = "text"     -> Fact("text", t.word)
    [] f.kind \in CODED    -> Decoded(Codes(f.kind), f.kind, t.word)

\* _currency_for(): found by itself, in another part of the response.
Currency(lineage) == IF IsFilled(Nearest(lineage)) THEN Nearest(lineage)[1].word ELSE ""

Captured(f, lineage, currency) ==
  IF IsFilled(Nearest(lineage)) THEN FromMiniHotel(f, Nearest(lineage)[1], currency)
  ELSE AbsentMeans(f)

------------------------------------------------------------------------------
(* DemoPMS.                                                                 *)

DemoCodes(kind) ==
  CASE kind = "housekeeping" -> [CLEAN |-> "clean", SOILED |-> "dirty"]
    [] kind = "direction"    -> [CHARGE |-> "charge", PAYMENT |-> "payment"]
    [] kind \in FLAGS        -> Either({"true"}, {"false"})
    [] OTHER                 -> DemoTenant[kind]

\* -1, and not 0, is what nobody configured; an amount nobody priced is null.
FromDemoPms(f, t, currency) ==
  CASE f.kind = "date"     -> ReadAs("date", t.date)
    [] f.kind = "count"    -> ReadAs("count", t.count)
    [] f.kind = "capacity" -> IF t.count = -1 THEN Unresolved ELSE ReadAs("count", t.count)
    [] f.kind \in {"money", "tariff"} ->
         IF currency = "" \/ t.number = Unread THEN Unresolved
         ELSE Fact("money", <<t.number, currency>>)
    [] f.kind = "card"     -> IF t.digits THEN Fact("flag", "true") ELSE Unresolved
    [] f.kind = "text"     -> Fact("text", t.word)
    [] f.kind \in CODED    -> Decoded(DemoCodes(f.kind), f.kind, t.word)

Demo(f, raws, currency) ==
  IF IsFilled(raws) THEN FromDemoPms(f, raws[1], currency) ELSE AbsentMeans(f)

------------------------------------------------------------------------------
(* The transcoder.  A JSON value is a text as well; null is a blank one.    *)

Translation(kind) ==
  CASE kind = "status"       -> STATUS
    [] kind = "department"   -> [RMS |-> "ROOM_REVENUE", CASH |-> "CASH_RECEIPT"]
    [] kind = "housekeeping" -> [C |-> "CLEAN", D |-> "SOILED", R |-> "R", A |-> "A"]
    [] kind = "direction"    -> [word \in {"1", "2"} |->
                                   IF word = "1" THEN "CHARGE" ELSE "PAYMENT"]
    [] kind \in FLAGS        -> Either({"YES", "TRUE", "1"}, {"NO", "FALSE", "0"})

\* Unencodable: "a code this tool has not been told how to translate stops it".
Stops(f, t) ==
  \/ f.kind \in CODED /\ t.word \notin DOMAIN Translation(f.kind)
  \/ f.kind \in {"count", "capacity"} /\ t.count = Unread

Encoded(f, t) ==
  CASE f.kind \in CODED -> [t EXCEPT !.word = Translation(f.kind)[t.word]]
    [] f.kind = "date" /\ t.date = Unread -> [t EXCEPT !.word = ""]
    [] f.kind = "capacity" /\ t.count = 0 -> [t EXCEPT !.count = -1]
    [] f.kind = "tariff" /\ t.number = 0  -> [t EXCEPT !.number = Unread]
    [] OTHER -> t

IsEncodable(f, lineage) == IsFilled(Nearest(lineage)) => ~Stops(f, Nearest(lineage)[1])

\* The slot of the demo record: absent stays absent, and empty empty.
Rewritten(f, lineage) ==
  IF IsFilled(Nearest(lineage)) THEN <<Encoded(f, Nearest(lineage)[1])>> ELSE Nearest(lineage)

------------------------------------------------------------------------------
\* Three spellings, which no capture holds, mean one thing in each hotel: a date
\* nobody can read, written as null, where an absence is a fact (a closure); a flag
\* in the words of another field's flags; and a capacity of -1.
ReadDifferently(f, t) ==
  \/ f.kind = "date" /\ t.date = Unread /\ f.absent # "unknown"
  \/ f.kind \in FLAGS /\ t.word \notin DOMAIN Codes(f.kind)
  \/ f.kind = "capacity" /\ t.count = -1

\* "The one thing this tool may never do is make the demo hotel answer a question
\* the captured one cannot": every field the transcoder writes resolves in the demo
\* hotel to just what it resolves to in the captured one, those spellings apart.
FieldsAreTheSame ==
  \A f \in Fields, lineage \in Lineages, payer \in Lineages :
    IsEncodable(f, lineage) =>
      (Demo(f, Rewritten(f, lineage), Currency(payer)) # Captured(f, lineage, Currency(payer))
         <=> IsFilled(Nearest(lineage)) /\ ReadDifferently(f, Nearest(lineage)[1]))

\* A property's own codes mean the same in either vocabulary; whole numbers are
\* numbers.
ASSUME FieldsAssumption ==
  /\ Fields \subseteq [kind : KINDS, absent : {"unknown", "false", "not_applicable"}]
  /\ Lineages \subseteq Seq(Seq(Texts))
  /\ Unread \notin Int
  /\ \A t \in Texts :
       /\ t = [word |-> t.word, digits |-> t.digits, date |-> t.date,
               count |-> t.count, number |-> t.number]
       /\ t.digits \in BOOLEAN
       /\ t.count \in Int \union {Unread} /\ t.number \in Int \union {Unread}
       /\ t.count # Unread => t.number = 100 * t.count

ASSUME TenantsAssumption ==
  \A kind \in {"status", "department"} :
    \A word \in DOMAIN Translation(kind) :
      LET other == Translation(kind)[word] IN
      /\ other # ""
      /\ word \in DOMAIN Tenant[kind] <=> other \in DOMAIN DemoTenant[kind]
      /\ word \in DOMAIN Tenant[kind] => Tenant[kind][word] = DemoTenant[kind][other]
==============================================================================
