----------------------------- MODULE GatherProofs -----------------------------
(***************************************************************************)
(* What a run or a probe may cost, what it never asks again, and what the  *)
(* directory it records into says, for any plan, budget, server, crash and *)
(* clock; and before that, the limiter's promise for any capacity, any     *)
(* interval, any pauses of its callers and any setting back of the clock.  *)
(***************************************************************************)
EXTENDS Gather, FiniteSetTheorems, SequenceTheorems, WellFoundedInduction, TLAPS

(* The bucket (TokenBucket).                                               *)

\* What is free, in ticks.
Most == (Capacity - 1) * Interval

\* The call that went out last.
Latest == gone[Len(gone)]

\* The bucket has not earned for longer than real time has passed since then.
EarnsInRealTime == gone # <<>> => Latest <= real /\ clock - bucket.at <= real - Latest

\* Every call so far, and the calls the banked ticks would pay for now, are within
\* what the calls since have cost.
CallsArePaid ==
  \A i \in 1 .. Len(gone) :
    (Len(gone) - i) * Interval + bucket.banked <= Most + (Latest - gone[i])

AllPaid ==
  \A i, j \in 1 .. Len(gone) : i < j => (j - i) * Interval <= Most + (gone[j] - gone[i])

BucketInv == BucketTypeOK /\ EarnsInRealTime /\ CallsArePaid /\ AllPaid

\* Products the arithmetic below takes apart.
LEMMA OneMore == \A n \in Int : (n + 1) * Interval = n * Interval + Interval
BY BucketAssumption

LEMMA FullIsMore ==
  /\ Full \in Nat /\ Full >= Interval
  /\ Most = Full - Interval
  /\ Most \in Nat
<1>1. Capacity - 1 \in Nat /\ (Capacity - 1) + 1 = Capacity
  BY BucketAssumption
<1>2. Capacity * Interval = (Capacity - 1) * Interval + Interval
  BY <1>1, OneMore
<1>3. (Capacity - 1) * Interval \in Nat
  BY <1>1, BucketAssumption
<1>. QED BY <1>2, <1>3, BucketAssumption DEF Full, Most

\* The arithmetic of the steps, over plain numbers.
LEMMA Lived ==
  \A l, c, c1, r, r1, a \in Int :
    l <= r /\ c - a <= r - l /\ c1 - c <= r1 - r /\ r <= r1
      => l <= r1 /\ c1 - a <= r1 - l
OBVIOUS

LEMMA Paid ==
  \A p, most, banked, full, i, w, left, l, g, r \in Int :
    p + banked <= most + (l - g) /\ full <= banked + (r - l) /\ left + i <= full + w
      => (p + i) + left <= most + ((r + w) - g)
OBVIOUS

LEMMA Spare ==
  \A p, most, left, t, g \in Int :
    0 <= left /\ p + left <= most + (t - g) => p <= most + (t - g)
OBVIOUS

LEMMA LastOrBefore == \A m \in Nat : \A j \in 1 .. m + 1 : j \in 1 .. m \/ j = m + 1
OBVIOUS

\* What take() works with: a bucket no fuller than it may be, that earned in real
\* time, and a wait that brings it to a token.
LEMMA TakeAccounts ==
  ASSUME BucketTypeOK, EarnsInRealTime
  PROVE  /\ Banked \in 0 .. Full /\ Wait \in Nat /\ Now \in Int
         /\ Wait = 0 => Interval <= Banked
         /\ Wait # 0 => Banked + Wait = Interval
         /\ clock <= Now
         /\ gone # <<>> => Banked <= bucket.banked + (real - Latest)
<1>1. /\ clock \in Int /\ bucket.at \in Int /\ bucket.banked \in 0 .. Full
      /\ Interval \in Nat \ {0} /\ Full \in Nat
  BY BucketAssumption, FullIsMore DEF BucketTypeOK
<1>2. /\ Now \in Int /\ clock <= Now /\ bucket.at <= Now
      /\ Now = clock \/ Now = bucket.at
  BY <1>1 DEF Now, Later
<1>3. Banked \in 0 .. Full /\ Banked <= bucket.banked + (Now - bucket.at)
  BY <1>1, <1>2 DEF Banked, Least
<1>4. /\ Wait \in Nat
      /\ Wait = 0 => Interval <= Banked
      /\ Wait # 0 => Banked + Wait = Interval
  BY <1>1, <1>3 DEF Wait
<1>5. ASSUME gone # <<>>
      PROVE  Banked <= bucket.banked + (real - Latest)
  <2>1. /\ Latest <= real
        /\ clock - bucket.at <= real - Latest
        /\ real \in Nat /\ Latest \in Nat
    BY <1>5 DEF EarnsInRealTime, BucketTypeOK, Latest
  <2>2. Now - bucket.at <= real - Latest
    BY <1>1, <1>2, <2>1
  <2>. QED BY <1>1, <1>2, <1>3, <2>1, <2>2
<1>. QED BY <1>2, <1>3, <1>4, <1>5

LEMMA BucketInvInit == BucketInit => BucketInv
<1>. SUFFICES ASSUME BucketInit PROVE BucketInv
  OBVIOUS
<1>1. BucketTypeOK
  BY FullIsMore DEF BucketInit, BucketTypeOK
<1>. QED BY <1>1 DEF BucketInit, BucketInv, EarnsInRealTime, CallsArePaid, AllPaid

LEMMA BucketInvTake == BucketInv /\ Take => BucketInv'
<1>. SUFFICES ASSUME BucketInv, Take PROVE BucketInv'
  OBVIOUS
<1>. DEFINE n == Len(gone)
            left == IF Wait = 0 THEN Banked - Interval ELSE 0
<1>1. /\ Banked \in 0 .. Full /\ Wait \in Nat /\ Now \in Int
      /\ Wait = 0 => Interval <= Banked
      /\ Wait # 0 => Banked + Wait = Interval
      /\ clock <= Now
      /\ gone # <<>> => Banked <= bucket.banked + (real - Latest)
  BY TakeAccounts DEF BucketInv
<1>2. /\ n \in Nat /\ gone \in Seq(Nat) /\ real \in Nat /\ clock \in Int
      /\ bucket.banked \in Int
      /\ \A i \in 1 .. n : gone[i] \in Nat
      /\ n > 0 <=> gone # <<>>
      /\ n > 0 => Latest \in Nat
  BY DEF BucketInv, BucketTypeOK, Latest
<1>3. Interval \in Nat \ {0} /\ Full \in Nat
  BY BucketAssumption, FullIsMore
<1>4. /\ bucket' = [banked |-> left, at |-> Now + Wait]
      /\ real' = real + Wait /\ clock' = clock + Wait
      /\ gone' = Append(gone, real + Wait)
  BY DEF Take
<1>5. /\ Len(gone') = n + 1
      /\ \A i \in 1 .. n : gone'[i] = gone[i]
      /\ gone'[n + 1] = real + Wait
      /\ gone' # <<>>
      /\ Latest' = real + Wait
  BY <1>1, <1>2, <1>4 DEF Latest
<1>6. /\ left \in 0 .. Full
      /\ left <= Full - Interval
      /\ left + Interval <= Banked + Wait
  BY <1>1, <1>3, FullIsMore
<1>7. BucketTypeOK'
  BY <1>1, <1>2, <1>4, <1>6 DEF BucketTypeOK
<1>8. EarnsInRealTime'
  BY <1>1, <1>2, <1>4, <1>5 DEF EarnsInRealTime
<1>9. ASSUME NEW i \in 1 .. n
      PROVE  ((n + 1) - i) * Interval + left <= Most + ((real + Wait) - gone[i])
  <2>. DEFINE p == (n - i) * Interval
  <2>1. p + bucket.banked <= Most + (Latest - gone[i])
    BY DEF BucketInv, CallsArePaid
  <2>2. Banked <= bucket.banked + (real - Latest) /\ Latest \in Nat /\ gone[i] \in Nat
    BY <1>1, <1>2
  <2>3. (n + 1) - i = (n - i) + 1 /\ n - i \in Int
    BY <1>2
  <2>4. ((n + 1) - i) * Interval = p + Interval
    BY <2>3, OneMore
  <2>5. p \in Int /\ Most \in Int
    BY <1>3, <2>3, FullIsMore
  <2>6. left \in Int /\ left + Interval <= Banked + Wait
    BY <1>6
  <2>7. /\ bucket.banked \in Int /\ Banked \in Int /\ Interval \in Int /\ Wait \in Int
        /\ Latest \in Int /\ gone[i] \in Int /\ real \in Int
    BY <1>1, <1>2, <1>3, <2>2
  <2>. HIDE DEF left, p
  <2>8. (p + Interval) + left <= Most + ((real + Wait) - gone[i])
    BY <2>1, <2>2, <2>5, <2>6, <2>7, Paid
  <2>. QED BY <2>4, <2>8
<1>10. CallsArePaid'
  <2>. SUFFICES ASSUME NEW i \in 1 .. n + 1
                PROVE  ((n + 1) - i) * Interval + left
                         <= Most + ((real + Wait) - gone'[i])
    BY <1>4, <1>5 DEF CallsArePaid
  <2>1. CASE i \in 1 .. n
    BY <1>5, <1>9, <2>1
  <2>2. CASE i = n + 1
    <3>1. (n + 1) - i = 0 /\ gone'[i] = real + Wait
      BY <1>2, <1>5, <2>2
    <3>2. ((n + 1) - i) * Interval = 0
      BY <1>3, <3>1
    <3>3. left <= Most
      BY <1>6, FullIsMore
    <3>. QED BY <1>1, <1>2, <1>6, <3>1, <3>2, <3>3, FullIsMore
  <2>. QED BY <1>2, <2>1, <2>2
<1>11. ASSUME NEW i \in 1 .. n
       PROVE  ((n + 1) - i) * Interval <= Most + ((real + Wait) - gone[i])
  <2>. DEFINE p == ((n + 1) - i) * Interval
  <2>1. /\ p \in Int /\ Most \in Int /\ gone[i] \in Int
        /\ real + Wait \in Int /\ left \in Int /\ 0 <= left
    BY <1>1, <1>2, <1>3, <1>6, FullIsMore
  <2>2. p + left <= Most + ((real + Wait) - gone[i])
    BY <1>9
  <2>. HIDE DEF left, p
  <2>3. p <= Most + ((real + Wait) - gone[i])
    BY <2>1, <2>2, Spare
  <2>. QED BY <2>3 DEF p
<1>12. AllPaid'
  <2>. SUFFICES ASSUME NEW i \in 1 .. n + 1, NEW j \in 1 .. n + 1, i < j
                PROVE  (j - i) * Interval <= Most + (gone'[j] - gone'[i])
    BY <1>4, <1>5 DEF AllPaid
  <2>0. i \in 1 .. n
    BY <1>2
  <2>1. CASE j \in 1 .. n
    BY <1>5, <2>0, <2>1 DEF BucketInv, AllPaid
  <2>2. CASE j = n + 1
    <3>1. gone'[i] = gone[i] /\ gone'[j] = real + Wait /\ j - i = (n + 1) - i
      BY <1>5, <2>0, <2>2
    <3>2. ((n + 1) - i) * Interval <= Most + ((real + Wait) - gone[i])
      BY <1>11, <2>0
    <3>. QED BY <3>1, <3>2, Zenon
  <2>3. n \in Nat
    BY <1>2
  <2>4. j \in 1 .. n \/ j = n + 1
    BY <2>3, LastOrBefore, Zenon
  <2>. QED BY <2>1, <2>2, <2>4, Zenon
<1>. QED BY <1>7, <1>8, <1>10, <1>12 DEF BucketInv

\* Time passes, or the clock is set back: nothing is earned that was not lived.
LEMMA BucketInvTime ==
  ASSUME BucketInv,
         \/ \E ticks \in Nat : Pass(ticks)
         \/ \E ticks \in Drifts : SetBack(ticks)
         \/ UNCHANGED bucketVars
  PROVE  BucketInv'
<1>1. /\ real' \in Nat /\ clock' \in Int
      /\ clock' - clock <= real' - real /\ real <= real'
      /\ bucket' = bucket /\ gone' = gone
  BY BucketAssumption DEF BucketInv, BucketTypeOK, Pass, SetBack, bucketVars
<1>2. BucketTypeOK'
  BY <1>1 DEF BucketInv, BucketTypeOK
<1>3. EarnsInRealTime'
  <2>1. gone # <<>> => Latest \in Nat
    BY DEF BucketInv, BucketTypeOK, Latest
  <2>2. Latest' = Latest /\ bucket.at \in Int /\ real \in Nat /\ clock \in Int
    BY <1>1 DEF Latest, BucketInv, BucketTypeOK
  <2>3. ASSUME gone # <<>>
        PROVE  Latest <= real' /\ clock' - bucket.at <= real' - Latest
    <3>1. Latest <= real /\ clock - bucket.at <= real - Latest
      BY <2>3 DEF BucketInv, EarnsInRealTime
    <3>2. /\ Latest \in Int /\ bucket.at \in Int
          /\ real \in Int /\ clock \in Int /\ real' \in Int /\ clock' \in Int
      BY <1>1, <2>1, <2>2, <2>3
    <3>3. clock' - clock <= real' - real /\ real <= real'
      BY <1>1
    <3>. QED BY <3>1, <3>2, <3>3, Lived
  <2>. QED BY <1>1, <2>2, <2>3 DEF EarnsInRealTime
<1>4. CallsArePaid' /\ AllPaid'
  BY <1>1 DEF BucketInv, CallsArePaid, AllPaid, Latest
<1>. QED BY <1>2, <1>3, <1>4 DEF BucketInv

LEMMA BucketInvStep == BucketInv /\ [BucketNext]_bucketVars => BucketInv'
BY BucketInvTake, BucketInvTime DEF BucketNext

\* The bucket, the clocks and the history of calls keep their types.
THEOREM BucketTypeCorrect == BucketSpec => []BucketTypeOK
<1>1. BucketInv => BucketTypeOK
  BY DEF BucketInv
<1>. QED BY BucketInvInit, BucketInvStep, <1>1, PTL DEF BucketSpec

\* R8 for every capacity and interval: however callers idle and however the clock
\* is set back, real time is paid for every call beyond the capacity.
THEOREM RateNeverExceeds == BucketSpec => []RateIsBounded
<1>1. BucketInv => RateIsBounded
  BY DEF BucketInv, AllPaid, Most, RateIsBounded
<1>. QED BY BucketInvInit, BucketInvStep, <1>1, PTL DEF BucketSpec

------------------------------------------------------------------------------
(* The gatherer, and the probe.                                            *)

Dialled == {q \in Requests : dials[q] > 0}

\* A call that is paid for and has not gone out.
Due == fetching # None /\ fetching.phase = "pacing" /\ fetching.attempt = 1

DirectoryTypeOK ==
  /\ capture \in Captures \union {None}
  /\ files \in [File -> Captures \union {None}]
  /\ index \subseteq [file : File, capture : Captures \union {None}]

GatherTypeOK ==
  /\ attempts \in Nat \ {0}
  /\ dials \in [Requests -> Nat]
  /\ refused \subseteq Requests
  /\ fetching \in Call \union {None}
  /\ spent \in Nat /\ limit \in Nat
  /\ cache = [q \in Requests |-> cache[q]]
  /\ DirectoryTypeOK

\* The call in flight: of a session that goes on, never refused and never answered
\* before, dialled once for each attempt, and with a body once there is one.
FlightOK ==
  fetching # None =>
    /\ Running
    /\ got = None
    /\ fetching.attempt \in 1 .. attempts
    /\ dials[fetching.request] = IF fetching.phase = "pacing" THEN fetching.attempt - 1
                                                              ELSE fetching.attempt
    /\ fetching.request \notin refused
    /\ fetching.phase \in {"writing", "indexing"} => fetching.body \in BODIES

GotOK == got # None => Running /\ fetching = None /\ got.result \in RESULTS

\* While a session goes on, a question that went out is being asked, or is learnt next,
\* or is remembered.
NothingForgotten ==
  Running => \A q \in Requests :
    dials[q] > 0 \/ q \in refused =>
      \/ fetching # None /\ fetching.request = q
      \/ got # None /\ got.request = q
      \/ Cached(q)

\* What has gone out, and what is about to, is within what was spent.
SpendingOK ==
  /\ \A q \in Requests : dials[q] <= attempts
  /\ Cardinality(Dialled) + (IF Due THEN 1 ELSE 0) <= spent
  /\ spent <= limit

\* Between its two writes the file holds what the index will say.
DirectoryOK ==
  /\ At("indexing") => files[Filename(fetching.request, fetching.body)] = capture
  /\ IndexTellsTheTruth

GatherInv == GatherTypeOK /\ FlightOK /\ GotOK /\ NothingForgotten /\ SpendingOK /\ DirectoryOK

callingVars == <<attempts, dials, refused, fetching, got, spent, limit, cache>>
directoryVars == <<capture, files, index, torn>>

------------------------------------------------------------------------------
\* A plan has a length, so a probe's limit is a number.
LEMMA PlansHaveLength ==
  ASSUME NEW order \in Orders, NEW plan \in Approved(order)
  PROVE  Len(plan) \in Nat
<1>1. CASE order.controls = <<>>
  <2>1. PICK stages \in Reask(order.additions) : plan = Once(Printed(stages))
    BY <1>1 DEF Approved
  <2>2. PICK q \in Committed : stages = <<Stage("re-ask", <<Add(q, order.additions)>>)>>
    BY <2>1 DEF Reask
  <2>3. q \in Requests
    BY <2>2, GatherAssumption
  <2>. QED BY <2>1, <2>2, <2>3, PlansAssumption
<1>2. CASE order.controls # <<>>
  <2>1. IsPrepared(order) /\ plan = Once(Printed(Prepare(order)))
    BY <1>2 DEF Approved
  <2>. QED BY <2>1, PlansAssumption
<1>. QED BY <1>1, <1>2

LEMMA LimitsAreNumbers ==
  \A plan, budget : Len(plan) \in Nat /\ budget \in Budgets => ProbeLimit(plan, budget) \in Nat
BY GatherAssumption DEF ProbeLimit, Least

\* A new session owes nothing and remembers nothing.
LEMMA NothingDialled ==
  ASSUME dials = [q \in Requests |-> 0]
  PROVE  Dialled = {} /\ Cardinality(Dialled) = 0
<1>1. Dialled = {}
  BY DEF Dialled
<1>. QED BY <1>1, FS_EmptySet

LEMMA GatherInvInit == Init => GatherInv
<1>. SUFFICES ASSUME Init PROVE GatherInv
  OBVIOUS
<1>1. /\ fetching = None /\ got = None /\ refused = {} /\ index = {}
      /\ dials = [q \in Requests |-> 0]
      /\ files = [file \in File |-> None]
      /\ spent = 0 /\ cache = [q \in Requests |-> None]
  BY DEF Init, SourceInit, RecorderInit, Opening
<1>2. attempts \in Nat \ {0} /\ limit \in Nat /\ capture \in Captures \union {None}
  <2>1. PICK budget \in Budgets :
          \/ /\ capture = None
             /\ Opening(Needs(rule), budget, Attempts)
          \/ /\ capture \in Captures
             /\ \E order \in Orders : \E plan \in Approved(order) :
                  Opening(plan, ProbeLimit(plan, budget), 1)
    BY DEF Init
  <2>2. CASE capture = None /\ Opening(Needs(rule), budget, Attempts)
    BY <2>2, GatherAssumption DEF Opening
  <2>3. CASE capture \in Captures /\ \E order \in Orders : \E plan \in Approved(order) :
                                       Opening(plan, ProbeLimit(plan, budget), 1)
    <3>0. PICK order \in Orders : \E plan \in Approved(order) :
            Opening(plan, ProbeLimit(plan, budget), 1)
      BY <2>3
    <3>1. PICK plan \in Approved(order) : Opening(plan, ProbeLimit(plan, budget), 1)
      BY <3>0
    <3>2. Len(plan) \in Nat
      BY <1>1, PlansHaveLength
    <3>. QED BY <2>3, <3>1, <3>2, LimitsAreNumbers DEF Opening
  <2>. QED BY <2>1, <2>2, <2>3
<1>3. GatherTypeOK
  BY <1>1, <1>2 DEF GatherTypeOK, DirectoryTypeOK
<1>4. SpendingOK
  BY <1>1, <1>2, NothingDialled DEF SpendingOK, Due
<1>. QED BY <1>1, <1>3, <1>4 DEF GatherInv, FlightOK, GotOK, NothingForgotten, Running, DirectoryOK,
            At, IndexTellsTheTruth
------------------------------------------------------------------------------
\* Steps that ask and learn nothing: reusing an answer, the end of a session that
\* has no call in flight, the clock.
LEMMA GatherInvQuiet ==
  ASSUME GatherInv, UNCHANGED callingVars, UNCHANGED directoryVars,
         outcome' = outcome \/ (Running /\ fetching = None /\ got = None)
  PROVE  GatherInv'
<1>1. /\ Dialled' = Dialled /\ Due' = Due
      /\ \A q \in Requests : Cached(q)' = Cached(q)
      /\ At("indexing")' = At("indexing")
      /\ IndexTellsTheTruth' = IndexTellsTheTruth
  BY DEF callingVars, directoryVars, Dialled, Due, Cached, Key, At, IndexTellsTheTruth
<1>2. GatherTypeOK' /\ FlightOK' /\ GotOK'
  BY DEF GatherInv, callingVars, directoryVars, GatherTypeOK, DirectoryTypeOK, FlightOK, GotOK, Running
<1>3. NothingForgotten'
  BY <1>1 DEF GatherInv, callingVars, NothingForgotten, Running
<1>4. SpendingOK'
  BY <1>1 DEF GatherInv, callingVars, SpendingOK
<1>5. DirectoryOK'
  BY <1>1 DEF GatherInv, callingVars, directoryVars, DirectoryOK
<1>. QED BY <1>2, <1>3, <1>4, <1>5 DEF GatherInv

\* What is asked was never asked before in this session, or it would be remembered.
LEMMA GatherInvAsk == GatherInv /\ Ask => GatherInv'
<1>. SUFFICES ASSUME GatherInv, Ask PROVE GatherInv'
  OBVIOUS
<1>. DEFINE q == needs[at]
<1>1. /\ Running /\ fetching = None /\ got = None /\ ~Cached(q) /\ spent < limit
      /\ spent' = spent + 1
      /\ UNCHANGED <<directoryVars, attempts, dials, refused, cache, limit, outcome>>
  BY DEF Ask, InHand, Idle, Fetch, recordVars, sessionVars, directoryVars
<1>2. \/ /\ q \in Encodable
         /\ fetching' = [request |-> q, attempt |-> 1, phase |-> "pacing", body |-> None]
         /\ got' = got
      \/ /\ fetching' = None
         /\ got' = [request |-> q, result |-> GAP]
  BY <1>1 DEF Ask, Fetch
<1>3. GatherTypeOK'
  <2>1. fetching' \in Call \union {None}
    BY <1>2, SourceAssumption DEF Call, PHASES
  <2>2. spent' \in Nat
    BY <1>1 DEF GatherInv, GatherTypeOK
  <2>. QED BY <1>1, <2>1, <2>2 DEF GatherInv, GatherTypeOK, DirectoryTypeOK, directoryVars
<1>4. \A r \in Requests : ~Cached(r) => dials[r] = 0 /\ r \notin refused
  BY <1>1 DEF GatherInv, NothingForgotten, Running, GatherTypeOK
<1>5. FlightOK'
  <2>1. CASE q \in Encodable /\ fetching' = [request |-> q, attempt |-> 1, phase |-> "pacing",
                                             body |-> None] /\ got' = got
    <3>1. q \in Requests
      BY <2>1, SourceAssumption
    <3>2. dials[q] = 0 /\ q \notin refused
      BY <1>1, <1>4, <3>1
    <3>3. 1 \in 1 .. attempts
      BY DEF GatherInv, GatherTypeOK
    <3>. QED BY <1>1, <2>1, <3>2, <3>3 DEF FlightOK, Running
  <2>2. CASE fetching' = None
    BY <2>2 DEF FlightOK
  <2>. QED BY <1>2, <2>1, <2>2
<1>6. GotOK'
  BY <1>1, <1>2 DEF GotOK, Running, RESULTS, GAP
<1>7. NothingForgotten'
  <2>1. \A r \in Requests : Cached(r)' = Cached(r)
    BY <1>1 DEF Cached, Key
  <2>. QED BY <1>1, <1>4, <2>1 DEF NothingForgotten, Running, GatherInv, GatherTypeOK
<1>8. SpendingOK'
  <2>1. Dialled' = Dialled /\ ~Due
    BY <1>1 DEF Dialled, Due
  <2>2. Cardinality(Dialled) <= spent /\ Cardinality(Dialled) \in Nat
    <3>1. IsFiniteSet(Dialled)
      BY GatherAssumption, FS_Subset DEF Dialled
    <3>2. Cardinality(Dialled) \in Nat
      BY <3>1, FS_CardinalityType
    <3>. QED BY <2>1, <3>2 DEF GatherInv, SpendingOK
  <2>3. spent \in Nat /\ limit \in Nat
    BY DEF GatherInv, GatherTypeOK
  <2>4. Cardinality(Dialled') + (IF Due' THEN 1 ELSE 0) <= spent'
    BY <1>1, <2>1, <2>2, <2>3
  <2>5. spent' <= limit'
    BY <1>1, <2>3
  <2>. QED BY <1>1, <2>4, <2>5 DEF GatherInv, SpendingOK
<1>9. DirectoryOK'
  <2>1. ~At("indexing")'
    BY <1>2 DEF At
  <2>2. IndexTellsTheTruth'
    BY <1>1 DEF GatherInv, DirectoryOK, IndexTellsTheTruth, directoryVars
  <2>. QED BY <2>1, <2>2 DEF DirectoryOK
<1>. QED BY <1>3, <1>5, <1>6, <1>7, <1>8, <1>9 DEF GatherInv

\* What is learnt is remembered, a failure too.
LEMMA GatherInvLearn == GatherInv /\ Learn => GatherInv'
<1>. SUFFICES ASSUME GatherInv, Learn PROVE GatherInv'
  OBVIOUS
<1>1. /\ Running /\ got # None /\ fetching = None /\ got.result \in RESULTS
      /\ got' = None /\ fetching' = fetching
      /\ cache' = [cache EXCEPT ![got.request] = [result |-> got.result, about |-> got.request]]
      /\ UNCHANGED <<directoryVars, attempts, dials, refused, spent, limit>>
  BY DEF Learn, GatherInv, GotOK, Key, recordVars, sessionVars, directoryVars
<1>2. /\ cache' = [q \in Requests |-> cache'[q]]
      /\ \A q \in Requests : Cached(q) \/ got.request = q => Cached(q)'
  <2>1. cache = [q \in Requests |-> cache[q]]
    BY DEF GatherInv, GatherTypeOK
  <2>2. \A q \in Requests :
          cache'[q] = IF q = got.request THEN [result |-> got.result, about |-> got.request]
                      ELSE cache[q]
    BY <1>1, <2>1
  <2>3. got.request \in Requests => [result |-> got.result, about |-> got.request] # None
    BY <1>1, GatherAssumption
  <2>4. cache' = [q \in Requests |-> cache'[q]]
    BY <1>1, <2>1
  <2>. QED BY <2>2, <2>3, <2>4 DEF Cached, Key
<1>3. GatherTypeOK'
  BY <1>1, <1>2 DEF GatherInv, GatherTypeOK, DirectoryTypeOK, directoryVars
<1>4. FlightOK' /\ GotOK'
  BY <1>1 DEF FlightOK, GotOK
<1>5. NothingForgotten'
  BY <1>1, <1>2 DEF GatherInv, NothingForgotten, Running
<1>6. SpendingOK'
  <2>1. Dialled' = Dialled /\ Due' = Due
    BY <1>1 DEF Dialled, Due
  <2>. QED BY <1>1, <2>1 DEF GatherInv, SpendingOK
<1>7. DirectoryOK'
  BY <1>1 DEF GatherInv, DirectoryOK, At, IndexTellsTheTruth, directoryVars
<1>. QED BY <1>3, <1>4, <1>5, <1>6, <1>7 DEF GatherInv
\* Numbers of what has gone out.
LEMMA DialledIsFinite == IsFiniteSet(Dialled) /\ Cardinality(Dialled) \in Nat
<1>1. IsFiniteSet(Dialled)
  BY GatherAssumption, FS_Subset DEF Dialled
<1>. QED BY <1>1, FS_CardinalityType

\* A call that ends, with whatever it ends.
LEMMA CallEnds ==
  ASSUME GatherInv, fetching # None, fetching.phase # "pacing",
         NEW result \in RESULTS,
         fetching' = None, got' = [request |-> fetching.request, result |-> result],
         refused' = refused \/ refused' = refused \union {fetching.request},
         UNCHANGED <<attempts, dials, spent, limit, cache, outcome>>,
         DirectoryTypeOK', IndexTellsTheTruth'
  PROVE  GatherInv'
<1>1. fetching.request \in Requests /\ Running
  BY DEF GatherInv, GatherTypeOK, FlightOK, Call
<1>2. got' # None
  BY <1>1, SourceAssumption
<1>3. GatherTypeOK'
  BY <1>1 DEF GatherInv, GatherTypeOK
<1>4. FlightOK' /\ GotOK'
  BY <1>1 DEF FlightOK, GotOK, Running
<1>5. NothingForgotten'
  <2>1. \A q \in Requests : Cached(q)' = Cached(q)
    BY DEF Cached, Key
  <2>. QED BY <1>1, <1>2, <2>1 DEF GatherInv, NothingForgotten, Running, FlightOK
<1>6. SpendingOK'
  <2>1. Dialled' = Dialled /\ ~Due /\ ~Due'
    BY DEF Dialled, Due
  <2>. QED BY <2>1 DEF GatherInv, SpendingOK
<1>7. DirectoryOK'
  BY DEF DirectoryOK, At
<1>. QED BY <1>3, <1>4, <1>5, <1>6, <1>7 DEF GatherInv

LEMMA DirectoryKept ==
  ASSUME GatherInv, UNCHANGED directoryVars
  PROVE  DirectoryTypeOK' /\ IndexTellsTheTruth'
BY DEF GatherInv, GatherTypeOK, DirectoryTypeOK, DirectoryOK, IndexTellsTheTruth, directoryVars

\* A call that goes on to its next phase, of the same or of the next attempt.
LEMMA CallGoesOn ==
  ASSUME GatherInv, fetching # None, fetching.phase # "pacing",
         fetching' \in Call, fetching'.request = fetching.request,
         \/ /\ fetching'.attempt = fetching.attempt /\ fetching'.phase # "pacing"
            /\ fetching'.body \in BODIES
         \/ /\ fetching'.attempt = fetching.attempt + 1 /\ fetching'.phase = "pacing"
            /\ fetching.attempt < attempts,
         got' = got, refused' = refused,
         UNCHANGED <<attempts, dials, spent, limit, cache, outcome>>,
         DirectoryTypeOK', DirectoryOK'
  PROVE  GatherInv'
<1>1. /\ fetching.request \in Requests /\ Running /\ got = None
      /\ fetching.attempt \in 1 .. attempts /\ attempts \in Nat
      /\ dials[fetching.request] = fetching.attempt
      /\ fetching.request \notin refused
  BY DEF GatherInv, GatherTypeOK, FlightOK, Call
<1>2. GatherTypeOK'
  BY DEF GatherInv, GatherTypeOK
<1>0. fetching' # None
  BY SourceAssumption
<1>3. FlightOK' /\ GotOK'
  <2>1. fetching'.attempt \in 1 .. attempts
    BY <1>1
  <2>2. dials[fetching'.request] = IF fetching'.phase = "pacing" THEN fetching'.attempt - 1
                                                                 ELSE fetching'.attempt
    BY <1>1
  <2>. QED BY <1>1, <2>1, <2>2 DEF FlightOK, GotOK, Running
<1>4. NothingForgotten'
  <2>1. \A q \in Requests : Cached(q)' = Cached(q)
    BY DEF Cached, Key
  <2>. QED BY <1>0, <2>1 DEF GatherInv, NothingForgotten, Running
<1>5. SpendingOK'
  <2>1. Dialled' = Dialled /\ ~Due /\ ~Due'
    BY <1>1 DEF Dialled, Due
  <2>. QED BY <2>1 DEF GatherInv, SpendingOK
<1>. QED BY <1>2, <1>3, <1>4, <1>5 DEF GatherInv

\* The call goes out: the first time, one question more has.
LEMMA GatherInvPace ==
  ASSUME GatherInv, Pace, UNCHANGED <<spent, limit, cache, outcome>>, UNCHANGED directoryVars
  PROVE  GatherInv'
<1>. DEFINE q == fetching.request
<1>1. /\ fetching # None /\ fetching.phase = "pacing" /\ fetching \in Call
      /\ q \in Requests /\ q \notin refused /\ Running /\ got = None
      /\ fetching.attempt \in 1 .. attempts /\ attempts \in Nat
      /\ dials[q] = fetching.attempt - 1
      /\ dials \in [Requests -> Nat]
  BY DEF Pace, At, GatherInv, GatherTypeOK, FlightOK, Call
<1>2. /\ fetching' = [fetching EXCEPT !.phase = "dialling"]
      /\ dials' = [dials EXCEPT ![q] = @ + 1]
      /\ UNCHANGED <<attempts, got, refused>>
  BY DEF Pace
<1>3. /\ fetching' \in Call /\ fetching' # None
      /\ fetching'.request = q /\ fetching'.attempt = fetching.attempt
      /\ fetching'.phase = "dialling"
  BY <1>1, <1>2, SourceAssumption DEF Call, PHASES
<1>4. /\ dials' \in [Requests -> Nat]
      /\ dials'[q] = fetching.attempt
      /\ \A r \in Requests \ {q} : dials'[r] = dials[r]
  BY <1>1, <1>2
<1>5. GatherTypeOK'
  BY <1>2, <1>3, <1>4, DirectoryKept DEF GatherInv, GatherTypeOK
<1>6. FlightOK' /\ GotOK'
  BY <1>1, <1>2, <1>3, <1>4 DEF FlightOK, GotOK, Running
<1>7. NothingForgotten'
  <2>1. \A r \in Requests : Cached(r)' = Cached(r)
    BY DEF Cached, Key
  <2>. QED BY <1>1, <1>2, <1>3, <1>4, <2>1 DEF GatherInv, NothingForgotten, Running
<1>8. SpendingOK'
  <2>1. \A r \in Requests : dials'[r] <= attempts'
    <3>1. \A r \in Requests : dials[r] <= attempts
      BY DEF GatherInv, SpendingOK
    <3>. QED BY <1>1, <1>2, <1>4, <3>1
  <2>2. Cardinality(Dialled') + (IF Due' THEN 1 ELSE 0) <= spent'
    <3>0. ~Due'
      BY <1>3 DEF Due
    <3>1. CASE fetching.attempt = 1
      <4>1. q \notin Dialled /\ Dialled' = Dialled \union {q}
        BY <1>1, <1>4, <3>1 DEF Dialled
      <4>2. Cardinality(Dialled') = Cardinality(Dialled) + 1
        BY <4>1, DialledIsFinite, FS_AddElement
      <4>3. Due
        BY <1>1, <3>1 DEF Due
      <4>. QED BY <3>0, <4>2, <4>3, DialledIsFinite DEF GatherInv, SpendingOK
    <3>2. CASE fetching.attempt # 1
      <4>1. Dialled' = Dialled
        BY <1>1, <1>4, <3>2 DEF Dialled
      <4>2. ~Due
        BY <3>2 DEF Due
      <4>. QED BY <3>0, <4>1, <4>2 DEF GatherInv, SpendingOK
    <3>. QED BY <3>1, <3>2
  <2>. QED BY <2>1, <2>2 DEF GatherInv, SpendingOK
<1>9. DirectoryOK'
  BY <1>3, DirectoryKept DEF DirectoryOK, At
<1>. QED BY <1>5, <1>6, <1>7, <1>8, <1>9 DEF GatherInv
\* A definite no is never worth another attempt.
LEMMA DefiniteIsNotTransient == \A error : IsTransient(error) => ~DefiniteNo(error)
BY SourceAssumption DEF IsTransient, DefiniteNo, RETRYABLE_CLIENT_CODES

\* The server's answer, whatever it is.
LEMMA GatherInvAnswered ==
  ASSUME GatherInv, UNCHANGED <<spent, limit, cache, outcome>>, UNCHANGED directoryVars,
         \/ \E body \in BODIES : Answer(body, capture # None)
         \/ \E error \in Errors : Refuse(error) \/ TryAgain(error) \/ GiveUp(error)
  PROVE  GatherInv'
<1>0. DirectoryTypeOK' /\ IndexTellsTheTruth'
  BY DirectoryKept
<1>1. fetching # None /\ fetching.phase = "dialling" /\ fetching \in Call
  BY DEF Answer, Refuse, TryAgain, GiveUp, At, GatherInv, GatherTypeOK
<1>2. ASSUME NEW body \in BODIES, Answer(body, capture # None)
      PROVE  GatherInv'
  <2>1. CASE capture # None
    <3>1. fetching' = [fetching EXCEPT !.phase = "writing", !.body = body] /\ got' = got
      BY <1>2, <2>1 DEF Answer
    <3>2. /\ fetching' \in Call /\ fetching'.request = fetching.request
          /\ fetching'.attempt = fetching.attempt
          /\ fetching'.phase = "writing" /\ fetching'.body \in BODIES
      BY <1>1, <3>1 DEF Call, PHASES
    <3>3. DirectoryOK'
      BY <1>0, <3>2 DEF DirectoryOK, At
    <3>. QED BY <1>0, <1>1, <1>2, <3>1, <3>2, <3>3, CallGoesOn DEF Answer
  <2>2. CASE capture = None
    <3>1. body \in RESULTS
      BY DEF RESULTS
    <3>. QED BY <1>0, <1>1, <1>2, <2>2, <3>1, CallEnds DEF Answer, Return
  <2>. QED BY <2>1, <2>2
<1>3. ASSUME NEW error \in Errors, Refuse(error)
      PROVE  GatherInv'
  <2>. DEFINE result == CASE error.code = Disabled -> "disabled"
                          [] error.code \in NOT_AUTHORISED -> "not_authorised"
                          [] OTHER -> GAP
  <2>1. result \in RESULTS
    BY DEF RESULTS, DEFECTS
  <2>2. got' = [request |-> fetching.request, result |-> result] /\ fetching' = None
    BY <1>3 DEF Refuse, Return
  <2>3. /\ refused' = refused \/ refused' = refused \union {fetching.request}
        /\ UNCHANGED <<attempts, dials>>
    BY <1>3 DEF Refuse, Remember
  <2>. HIDE DEF result
  <2>. QED BY <1>0, <1>1, <2>1, <2>2, <2>3, CallEnds
<1>4. ASSUME NEW error \in Errors, TryAgain(error)
      PROVE  GatherInv'
  <2>1. refused' = refused /\ UNCHANGED <<attempts, dials>> /\ fetching.attempt < attempts
    BY <1>4, DefiniteIsNotTransient DEF TryAgain, Remember
  <2>2. CASE error.after = Huge
    <3>1. got' = [request |-> fetching.request, result |-> "overflow"] /\ fetching' = None
      BY <1>4, <2>2 DEF TryAgain, Return
    <3>2. "overflow" \in RESULTS
      BY DEF RESULTS, DEFECTS
    <3>. QED BY <1>0, <1>1, <2>1, <3>1, <3>2, CallEnds
  <2>3. CASE error.after # Huge
    <3>1. /\ fetching' = [fetching EXCEPT !.attempt = @ + 1, !.phase = "pacing"]
          /\ got' = got
      BY <1>4, <2>3 DEF TryAgain
    <3>2. /\ fetching' \in Call /\ fetching'.request = fetching.request
          /\ fetching'.attempt = fetching.attempt + 1 /\ fetching'.phase = "pacing"
      <4>1. fetching.attempt + 1 \in Nat /\ "pacing" \in PHASES
        BY <1>1 DEF Call, PHASES
      <4>. QED BY <1>1, <3>1, <4>1 DEF Call
    <3>3. DirectoryOK'
      BY <1>0, <3>2 DEF DirectoryOK, At
    <3>. QED BY <1>0, <1>1, <2>1, <3>1, <3>2, <3>3, CallGoesOn
  <2>. QED BY <2>2, <2>3
<1>5. ASSUME NEW error \in Errors, GiveUp(error)
      PROVE  GatherInv'
  <2>1. GAP \in RESULTS
    BY DEF RESULTS
  <2>2. got' = [request |-> fetching.request, result |-> GAP] /\ fetching' = None
    BY <1>5 DEF GiveUp, Return
  <2>3. refused' = refused /\ UNCHANGED <<attempts, dials>>
    BY <1>5, DefiniteIsNotTransient DEF GiveUp, Remember
  <2>. QED BY <1>0, <1>1, <2>1, <2>2, <2>3, CallEnds
<1>. QED BY <1>2, <1>3, <1>4, <1>5

\* The first write: the index does not say so yet.
LEMMA GatherInvFile ==
  ASSUME GatherInv, RecordFile, UNCHANGED <<spent, limit, cache, outcome>>
  PROVE  GatherInv'
<1>. DEFINE file == Filename(fetching.request, fetching.body)
<1>1. /\ fetching # None /\ fetching.phase = "writing" /\ fetching \in Call
      /\ fetching.body \in BODIES
      /\ files \in [File -> Captures \union {None}] /\ capture \in Captures \union {None}
  BY DEF RecordFile, At, GatherInv, GatherTypeOK, DirectoryTypeOK, FlightOK
<1>2. file \in File
  BY <1>1 DEF File, Filename, Call
<1>3. /\ files' = [files EXCEPT ![file] = capture] /\ torn' = torn \union {file}
      /\ fetching' = [fetching EXCEPT !.phase = "indexing"]
      /\ UNCHANGED <<attempts, got, dials, refused, capture, index>>
  BY DEF RecordFile
<1>4. /\ fetching' \in Call /\ fetching'.request = fetching.request
      /\ fetching'.attempt = fetching.attempt /\ fetching'.phase = "indexing"
      /\ fetching'.body = fetching.body
  BY <1>1, <1>3 DEF Call, PHASES
<1>5. DirectoryTypeOK'
  BY <1>1, <1>2, <1>3 DEF DirectoryTypeOK, GatherInv, GatherTypeOK
<1>6. DirectoryOK'
  <2>1. files'[file] = capture /\ \A other \in File \ {file} : files'[other] = files[other]
    BY <1>1, <1>2, <1>3
  <2>2. \A entry \in index : entry.file \in File
    BY DEF GatherInv, GatherTypeOK, DirectoryTypeOK
  <2>3. IndexTellsTheTruth'
    BY <1>3, <2>1, <2>2 DEF IndexTellsTheTruth, GatherInv, DirectoryOK
  <2>4. files'[Filename(fetching'.request, fetching'.body)] = capture'
    BY <1>3, <1>4, <2>1 DEF Filename
  <2>. QED BY <2>3, <2>4 DEF DirectoryOK, Filename
<1>. QED BY <1>1, <1>3, <1>4, <1>5, <1>6, CallGoesOn

\* The second: what it says of the file is what the file was obtained under.
LEMMA GatherInvIndex ==
  ASSUME GatherInv, RecordIndex, UNCHANGED <<spent, limit, cache, outcome>>
  PROVE  GatherInv'
<1>. DEFINE file == Filename(fetching.request, fetching.body)
<1>1. /\ fetching # None /\ fetching.phase = "indexing" /\ fetching \in Call
      /\ fetching.body \in BODIES /\ fetching.body \in RESULTS
      /\ files[file] = capture /\ capture \in Captures \union {None}
  BY DEF RecordIndex, At, GatherInv, GatherTypeOK, DirectoryTypeOK, DirectoryOK, FlightOK, RESULTS
<1>2. file \in File
  BY <1>1 DEF File, Filename, Call
<1>3. /\ index' = {entry \in index : entry.file # file} \union {[file |-> file, capture |-> capture]}
      /\ torn' = torn \ {file}
      /\ fetching' = None /\ got' = [request |-> fetching.request, result |-> fetching.body]
      /\ UNCHANGED <<attempts, dials, refused, capture, files>>
  BY DEF RecordIndex, Return
<1>4. DirectoryTypeOK'
  BY <1>1, <1>2, <1>3 DEF DirectoryTypeOK, GatherInv, GatherTypeOK
<1>5. IndexTellsTheTruth'
  <2>1. \A entry \in index : files[entry.file] = entry.capture \/ entry.file \in torn
    BY DEF GatherInv, DirectoryOK, IndexTellsTheTruth
  <2>2. \A entry \in index' : \/ entry.file # file /\ entry \in index
                              \/ entry = [file |-> file, capture |-> capture]
    BY <1>3
  <2>. QED BY <1>1, <1>3, <2>1, <2>2 DEF IndexTellsTheTruth
<1>. QED BY <1>1, <1>3, <1>4, <1>5, CallEnds

\* The process ends: nobody asks for what it was asking, and the directory stays.
LEMMA GatherInvCrash == GatherInv /\ Crash => GatherInv'
<1>. SUFFICES ASSUME GatherInv, Crash PROVE GatherInv'
  OBVIOUS
<1>1. /\ outcome' = "crashed" /\ fetching' = None /\ got' = None
      /\ UNCHANGED <<attempts, dials, refused, spent, limit, cache>>
      /\ UNCHANGED directoryVars
  BY DEF Crash, recordVars, sessionVars, directoryVars
<1>2. GatherTypeOK' /\ FlightOK' /\ GotOK' /\ NothingForgotten'
  BY <1>1, DirectoryKept DEF GatherInv, GatherTypeOK, FlightOK, GotOK, NothingForgotten, Running
<1>3. SpendingOK'
  <2>1. Dialled' = Dialled /\ ~Due'
    BY <1>1 DEF Dialled, Due
  <2>2. Cardinality(Dialled) <= spent
    BY DialledIsFinite DEF GatherInv, GatherTypeOK, SpendingOK
  <2>. QED BY <1>1, <2>1, <2>2, DialledIsFinite DEF GatherInv, SpendingOK
<1>4. DirectoryOK'
  BY <1>1, DirectoryKept DEF DirectoryOK, At
<1>. QED BY <1>2, <1>3, <1>4 DEF GatherInv

\* The next probe's session, into the directory as it was left.
LEMMA GatherInvNextProbe ==
  ASSUME GatherInv, NEW order \in Orders, NEW budget \in Budgets, NEW day \in Captures,
         NextProbe(order, budget, day)
  PROVE  GatherInv'
<1>1. /\ fetching = None /\ got = None
  BY DEF NextProbe, GatherInv, FlightOK, GotOK
<1>2. /\ fetching' = None /\ got' = None /\ capture' = day
      /\ dials' = [q \in Requests |-> 0] /\ refused' = {}
      /\ spent' = 0 /\ cache' = [q \in Requests |-> None]
      /\ UNCHANGED <<attempts, files, index, torn>>
  BY <1>1 DEF NextProbe
<1>3. limit' \in Nat
  <2>1. PICK plan \in Approved(order) : limit' = ProbeLimit(plan, budget)
    BY DEF NextProbe
  <2>2. Len(plan) \in Nat
    BY PlansHaveLength
  <2>. QED BY <2>1, <2>2, LimitsAreNumbers
<1>4. GatherTypeOK' /\ FlightOK' /\ GotOK' /\ NothingForgotten'
  <2>1. cache' = [q \in Requests |-> cache'[q]]
    BY <1>2
  <2>. QED BY <1>2, <1>3, <2>1 DEF GatherInv, GatherTypeOK, DirectoryTypeOK, FlightOK, GotOK,
              NothingForgotten, Running
<1>5. SpendingOK'
  <2>1. Dialled' = {} /\ ~Due'
    BY <1>2 DEF Dialled, Due
  <2>2. Cardinality(Dialled') = 0
    BY <2>1, FS_EmptySet
  <2>. QED BY <1>2, <1>3, <2>1, <2>2 DEF GatherInv, GatherTypeOK, SpendingOK
<1>6. DirectoryOK'
  BY <1>2 DEF GatherInv, DirectoryOK, At, IndexTellsTheTruth
<1>. QED BY <1>4, <1>5, <1>6 DEF GatherInv

LEMMA GatherInvStep == GatherInv /\ [Next]_gatherVars => GatherInv'
<1>. SUFFICES ASSUME GatherInv, [Next]_gatherVars PROVE GatherInv'
  OBVIOUS
<1>1. CASE Skip \/ Reuse \/ Stop \/ Finish
  <2>1. UNCHANGED callingVars /\ UNCHANGED directoryVars /\ Running /\ fetching = None /\ got = None
    BY <1>1 DEF Skip, Reuse, Stop, Finish, InHand, Idle, sourceVars, callVars, recordVars, sessionVars,
                callingVars, directoryVars
  <2>. QED BY <2>1, GatherInvQuiet
<1>2. CASE Calling
  <2>1. UNCHANGED <<spent, limit, cache, outcome>>
    BY <1>2 DEF Calling, sessionVars
  <2>2. CASE Pace /\ UNCHANGED recordVars
    BY <2>1, <2>2, GatherInvPace DEF recordVars, directoryVars
  <2>3. CASE /\ UNCHANGED recordVars
             /\ \/ \E body \in BODIES : Answer(body, capture # None)
                \/ \E error \in Errors : Refuse(error) \/ TryAgain(error) \/ GiveUp(error)
    BY <2>1, <2>3, GatherInvAnswered DEF recordVars, directoryVars
  <2>4. CASE RecordFile
    BY <2>1, <2>4, GatherInvFile
  <2>5. CASE RecordIndex
    BY <2>1, <2>5, GatherInvIndex
  <2>. QED BY <1>2, <2>2, <2>3, <2>4, <2>5 DEF Calling
<1>3. CASE Drift \/ UNCHANGED gatherVars
  <2>1. UNCHANGED callingVars /\ UNCHANGED directoryVars /\ outcome' = outcome
    BY <1>3 DEF Drift, ClockSetBack, gatherVars, sourceVars, callVars, recordVars, sessionVars,
                callingVars, directoryVars
  <2>. QED BY <2>1, GatherInvQuiet
<1>. QED BY <1>1, <1>2, <1>3, GatherInvAsk, GatherInvLearn, GatherInvCrash,
            GatherInvNextProbe DEF Next, Work

------------------------------------------------------------------------------
\* A run costs its budget times the attempts of a call, however often and whatever
\* it is refused, and whenever a probe dies.
THEOREM RunsAreBounded == Spec => []CallsAreBounded
<1>1. GatherInv => CallsAreBounded
  <2>. SUFFICES ASSUME GatherInv PROVE CallsAreBounded
    OBVIOUS
  <2>1. Cardinality(Dialled) <= spent
    BY DialledIsFinite DEF GatherInv, GatherTypeOK, SpendingOK
  <2>. QED BY <2>1 DEF GatherInv, SpendingOK, CallsAreBounded, Dialled
<1>. QED BY <1>1, GatherInvInit, GatherInvStep, PTL DEF Spec

\* A capture gives back bytes obtained under it, but for the file a crash has torn,
\* whatever is recorded over whatever, and wherever the probes before it died.
THEOREM IndexIsHonest == Spec => []IndexTellsTheTruth
<1>1. GatherInv => IndexTellsTheTruth
  BY DEF GatherInv, DirectoryOK
<1>. QED BY <1>1, GatherInvInit, GatherInvStep, PTL DEF Spec

\* A question that met a definite no does not go out again, whoever wants it.
THEOREM RefusalsAreFinal == Spec => RefusedIsFinal
<1>. DEFINE Final == \A q \in refused : dials'[q] <= dials[q]
<1>1. GatherInv /\ [Next]_gatherVars => [Final]_sourceVars
  <2>. SUFFICES ASSUME GatherInv, [Next]_gatherVars, ~UNCHANGED sourceVars PROVE Final
    OBVIOUS
  <2>0. refused \subseteq Requests /\ dials \in [Requests -> Nat]
    BY DEF GatherInv, GatherTypeOK
  <2>1. CASE UNCHANGED dials
    BY <2>0, <2>1
  <2>2. CASE Pace
    <3>1. fetching.request \notin refused /\ dials' = [dials EXCEPT ![fetching.request] = @ + 1]
      BY <2>2 DEF Pace, At, GatherInv, FlightOK
    <3>. QED BY <2>0, <3>1
  <2>3. ASSUME NEW order \in Orders, NEW budget \in Budgets, NEW day \in Captures,
               NextProbe(order, budget, day)
        PROVE  Final
    <3>1. dials' = [q \in Requests |-> 0]
      BY <2>3 DEF NextProbe
    <3>. QED BY <2>0, <3>1
  <2>4. CASE Skip \/ Reuse \/ Ask \/ Stop \/ Learn \/ Finish \/ Drift \/ Crash \/ UNCHANGED gatherVars
    <3>1. UNCHANGED dials
      BY <2>4 DEF Skip, Reuse, Ask, Fetch, Stop, Learn, Finish, Drift, ClockSetBack, Crash, gatherVars,
                  sourceVars, callVars
    <3>. QED BY <2>1, <3>1
  <2>5. CASE Calling /\ ~Pace
    <3>1. UNCHANGED dials
      BY <2>5 DEF Calling, Answer, Refuse, TryAgain, GiveUp, RecordFile, RecordIndex
    <3>. QED BY <2>1, <3>1
  <2>. QED BY <2>2, <2>3, <2>4, <2>5 DEF Next, Work
<1>. QED BY <1>1, GatherInvInit, GatherInvStep, PTL DEF Spec, RefusedIsFinal

------------------------------------------------------------------------------
(* The bucket inside the run.                                               *)

LEMMA BucketInvSession ==
  ASSUME BucketInv, UNCHANGED <<real, clock>>,
         bucket' = [banked |-> Full, at |-> clock], gone' = <<>>
  PROVE  BucketInv'
BY FullIsMore DEF BucketInv, BucketTypeOK, EarnsInRealTime, CallsArePaid, AllPaid

\* What a source does with its bucket is what anybody may do with one.
LEMMA SourcePaces == GatherInv /\ BucketInv /\ [Next]_gatherVars => BucketInv'
<1>. SUFFICES ASSUME GatherInv, BucketInv, [Next]_gatherVars PROVE BucketInv'
  OBVIOUS
<1>1. CASE [BucketNext]_bucketVars
  BY <1>1, BucketInvStep
<1>2. CASE Pace
  BY <1>1, <1>2 DEF Pace, BucketNext
<1>3. ASSUME NEW error \in Errors, TryAgain(error)
      PROVE  BucketInv'
  <2>1. fetching.attempt \in Nat
    BY <1>3 DEF TryAgain, At, GatherInv, GatherTypeOK, Call
  <2>2. Delay(error, fetching.attempt) \in Nat
    BY <2>1, SourceAssumption DEF Delay
  <2>. QED BY <1>1, <1>3, <2>2 DEF TryAgain, BucketNext
<1>4. CASE Drift
  BY <1>1, <1>4 DEF Drift, ClockSetBack, BucketNext
<1>5. ASSUME NEW order \in Orders, NEW budget \in Budgets, NEW day \in Captures,
             NextProbe(order, budget, day)
      PROVE  BucketInv'
  BY <1>5, BucketInvSession DEF NextProbe
<1>6. CASE \/ Skip \/ Reuse \/ Ask \/ Stop \/ Learn \/ Finish \/ Crash \/ UNCHANGED gatherVars
           \/ \E body \in BODIES : Answer(body, capture # None)
           \/ \E error \in Errors : Refuse(error) \/ GiveUp(error)
           \/ RecordFile \/ RecordIndex
  <2>1. UNCHANGED bucketVars
    BY <1>6 DEF Skip, Reuse, Ask, Fetch, Stop, Learn, Finish, Crash, gatherVars, sourceVars, Answer,
                Refuse, GiveUp, RecordFile, RecordIndex
  <2>. QED BY <1>1, <2>1
<1>. QED BY <1>2, <1>3, <1>4, <1>5, <1>6 DEF Next, Work, Calling

\* Calls of a session keep to the bucket's rate through retries, Retry-After and a
\* clock that is set back.
THEOREM RunsKeepTheRate == Spec => []RateIsBounded
<1>1. Init => BucketInv
  BY BucketInvInit DEF Init, SourceInit
<1>2. BucketInv => RateIsBounded
  BY DEF BucketInv, AllPaid, Most, RateIsBounded
<1>. QED BY <1>1, <1>2, SourcePaces, GatherInvInit, GatherInvStep, PTL DEF Spec

------------------------------------------------------------------------------
(* What the bundles are made of (gather()).                                *)

\* What is known of a question whose answer came, or did not.
Tells(q, result) ==
  /\ result = "well-formed" <=> q \in answered
  /\ result # "well-formed" => dials[q] > 0 \/ q \notin Encodable

\* An answer that is recorded has come; before that none has, and none is remembered.
FlightTells ==
  fetching # None =>
    /\ ~Cached(fetching.request)
    /\ IF fetching.phase \in {"writing", "indexing"}
         THEN fetching.body = "well-formed" <=> fetching.request \in answered
         ELSE fetching.request \notin answered

GotTells == got # None => Tells(got.request, got.result)

CacheTells ==
  \A q \in Requests : Cached(q) => cache[q].about = q /\ Tells(q, cache[q].result)

AnswersWentOut == answered \subseteq Dialled

AnswersInv == FlightTells /\ GotTells /\ CacheTells /\ AnswersWentOut

\* A run has put, in order, every question before the one in hand.
RunOK ==
  job = "control" =>
    /\ rule \in Rules /\ needs = Needs(rule) /\ capture = None
    /\ at \in Nat \ {0}
    /\ at <= Len(needs) + 1
    /\ \A i \in 1 .. at - 1 : needs[i] # None => Cached(needs[i])
    /\ fetching # None => at <= Len(needs) /\ fetching.request = needs[at]
    /\ got # None => at <= Len(needs) /\ got.request = needs[at] /\ needs[at] # None
    /\ outcome = "done" => at = Len(needs) + 1

answerVars == <<fetching, got, cache, answered, dials>>

LEMMA AnswersInvInit == Init => AnswersInv
<1>. SUFFICES ASSUME Init PROVE AnswersInv
  OBVIOUS
<1>1. /\ fetching = None /\ got = None /\ answered = {}
      /\ cache = [q \in Requests |-> None]
  BY DEF Init, SourceInit, Opening
<1>. QED BY <1>1 DEF AnswersInv, FlightTells, GotTells, CacheTells, AnswersWentOut, Cached, Key

\* What flies: one of the questions, which has gone out unless it is still paced.
LEMMA Flying ==
  ASSUME GatherInv, fetching # None
  PROVE  /\ fetching \in Call /\ fetching.request \in Requests /\ got = None
         /\ fetching.phase # "pacing" => dials[fetching.request] > 0
         /\ dials \in [Requests -> Nat]
<1>1. /\ fetching \in Call /\ fetching.request \in Requests /\ got = None
      /\ fetching.attempt \in 1 .. attempts /\ attempts \in Nat
      /\ dials[fetching.request] = IF fetching.phase = "pacing" THEN fetching.attempt - 1
                                                                ELSE fetching.attempt
      /\ dials \in [Requests -> Nat]
  BY DEF GatherInv, GatherTypeOK, FlightOK, Call
<1>. QED BY <1>1

\* An answer of another kind than a well-formed body changes nothing that is known.
LEMMA AnswersInvGap ==
  ASSUME GatherInv, AnswersInv, fetching # None, fetching.phase = "dialling",
         NEW result, result # "well-formed",
         fetching' = None, got' = [request |-> fetching.request, result |-> result],
         UNCHANGED <<cache, answered, dials>>
  PROVE  AnswersInv'
<1>1. Tells(fetching.request, result)
  BY Flying DEF AnswersInv, FlightTells, Tells
<1>2. GotTells'
  BY <1>1 DEF GotTells, Tells
<1>3. CacheTells' /\ AnswersWentOut'
  BY DEF AnswersInv, CacheTells, AnswersWentOut, Cached, Key, Tells, Dialled
<1>. QED BY <1>2, <1>3 DEF AnswersInv, FlightTells

LEMMA AnswersInvAnswer ==
  ASSUME GatherInv, AnswersInv, NEW body \in BODIES, Answer(body, capture # None),
         UNCHANGED <<cache>>
  PROVE  AnswersInv'
<1>. DEFINE q == fetching.request
<1>1. /\ fetching # None /\ fetching.phase = "dialling" /\ q \in Requests /\ got = None
      /\ dials[q] > 0 /\ ~Cached(q) /\ q \notin answered /\ fetching \in Call
      /\ UNCHANGED <<cache, dials>>
      /\ answered' = IF body = "well-formed" THEN answered \union {q} ELSE answered
  BY Flying DEF Answer, At, AnswersInv, FlightTells
<1>2. body = "well-formed" <=> q \in answered'
  BY <1>1
<1>3. CacheTells'
  <2>. SUFFICES ASSUME NEW r \in Requests, Cached(r)'
                PROVE  cache'[r].about = r /\ Tells(r, cache[r].result)'
    BY DEF CacheTells
  <2>1. Cached(r) /\ r # q
    BY <1>1 DEF Cached, Key
  <2>2. r \in answered' <=> r \in answered
    BY <1>1, <2>1
  <2>. QED BY <1>1, <2>1, <2>2 DEF AnswersInv, CacheTells, Tells
<1>4. AnswersWentOut'
  BY <1>1 DEF AnswersInv, AnswersWentOut, Dialled
<1>5. FlightTells' /\ GotTells'
  <2>1. CASE capture # None
    <3>1. fetching' = [fetching EXCEPT !.phase = "writing", !.body = body] /\ got' = got
      BY <2>1 DEF Answer
    <3>2. fetching'.request = q /\ fetching'.phase = "writing" /\ fetching'.body = body
      BY <1>1, <3>1 DEF Call
    <3>. QED BY <1>1, <1>2, <3>1, <3>2 DEF FlightTells, GotTells, Cached, Key
  <2>2. CASE capture = None
    <3>1. fetching' = None /\ got' = [request |-> q, result |-> body]
      BY <2>2 DEF Answer, Return
    <3>. QED BY <1>1, <1>2, <3>1 DEF FlightTells, GotTells, Tells
  <2>. QED BY <2>1, <2>2
<1>. QED BY <1>3, <1>4, <1>5 DEF AnswersInv

LEMMA AnswersInvAsk == GatherInv /\ AnswersInv /\ Ask => AnswersInv'
<1>. SUFFICES ASSUME GatherInv, AnswersInv, Ask PROVE AnswersInv'
  OBVIOUS
<1>. DEFINE q == needs[at]
<1>1. /\ Running /\ fetching = None /\ got = None /\ ~Cached(q)
      /\ UNCHANGED <<cache, answered, dials>>
  BY DEF Ask, InHand, Idle, Fetch
<1>2. q \notin answered
  <2>1. CASE q \in Requests
    <3>1. ~ dials[q] > 0
      BY <1>1, <2>1 DEF GatherInv, NothingForgotten
    <3>. QED BY <3>1 DEF AnswersInv, AnswersWentOut, Dialled
  <2>2. CASE q \notin Requests
    BY <2>2 DEF AnswersInv, AnswersWentOut, Dialled
  <2>. QED BY <2>1, <2>2
<1>3. \/ fetching' = [request |-> q, attempt |-> 1, phase |-> "pacing", body |-> None] /\ got' = got
      \/ q \notin Encodable /\ fetching' = None /\ got' = [request |-> q, result |-> GAP]
  BY <1>1 DEF Ask, Fetch
<1>4. FlightTells'
  BY <1>1, <1>2, <1>3 DEF FlightTells, Cached, Key
<1>5. GotTells'
  BY <1>1, <1>2, <1>3 DEF GotTells, Tells, GAP
<1>6. CacheTells' /\ AnswersWentOut'
  BY <1>1 DEF AnswersInv, CacheTells, AnswersWentOut, Cached, Key, Tells, Dialled
<1>. QED BY <1>4, <1>5, <1>6 DEF AnswersInv

LEMMA AnswersInvLearn == GatherInv /\ AnswersInv /\ Learn => AnswersInv'
<1>. SUFFICES ASSUME GatherInv, AnswersInv, Learn PROVE AnswersInv'
  OBVIOUS
<1>1. /\ got # None /\ fetching = None /\ got' = None /\ fetching' = None
      /\ cache' = [cache EXCEPT ![got.request] = [result |-> got.result, about |-> got.request]]
      /\ UNCHANGED <<answered, dials>>
  BY DEF Learn, GatherInv, GotOK, Key
<1>2. CacheTells'
  <2>. SUFFICES ASSUME NEW r \in Requests, Cached(r)'
                PROVE  cache'[r].about = r /\ Tells(r, cache[r].result)'
    BY DEF CacheTells
  <2>1. cache'[r] = IF r = got.request THEN [result |-> got.result, about |-> got.request]
                                       ELSE cache[r]
    BY <1>1 DEF GatherInv, GatherTypeOK
  <2>2. CASE r = got.request
    BY <1>1, <2>1, <2>2 DEF AnswersInv, GotTells, Tells
  <2>3. CASE r # got.request
    BY <1>1, <2>1, <2>3 DEF AnswersInv, CacheTells, Tells, Cached, Key
  <2>. QED BY <2>2, <2>3
<1>. QED BY <1>1, <1>2 DEF AnswersInv, FlightTells, GotTells, AnswersWentOut, Dialled

LEMMA AnswersInvPace == GatherInv /\ AnswersInv /\ Pace /\ UNCHANGED cache => AnswersInv'
<1>. SUFFICES ASSUME GatherInv, AnswersInv, Pace, UNCHANGED cache PROVE AnswersInv'
  OBVIOUS
<1>. DEFINE q == fetching.request
<1>1. /\ fetching # None /\ fetching.phase = "pacing" /\ q \in Requests /\ got = None
      /\ ~Cached(q) /\ q \notin answered /\ fetching \in Call
      /\ fetching' = [fetching EXCEPT !.phase = "dialling"]
      /\ dials' = [dials EXCEPT ![q] = @ + 1] /\ dials \in [Requests -> Nat]
      /\ UNCHANGED <<got, answered>>
  BY Flying DEF Pace, At, AnswersInv, FlightTells
<1>2. fetching'.request = q /\ fetching'.phase = "dialling"
  BY <1>1 DEF Call
<1>3. \A r \in Requests : dials[r] > 0 => dials'[r] > 0
  BY <1>1
<1>4. FlightTells' /\ GotTells'
  BY <1>1, <1>2 DEF FlightTells, GotTells, Cached, Key
<1>5. CacheTells'
  BY <1>1, <1>3 DEF AnswersInv, CacheTells, Tells, Cached, Key
<1>6. AnswersWentOut'
  BY <1>1, <1>3 DEF AnswersInv, AnswersWentOut, Dialled
<1>. QED BY <1>4, <1>5, <1>6 DEF AnswersInv

LEMMA AnswersInvRecord ==
  GatherInv /\ AnswersInv /\ (RecordFile \/ RecordIndex) /\ UNCHANGED cache => AnswersInv'
<1>. SUFFICES ASSUME GatherInv, AnswersInv, RecordFile \/ RecordIndex, UNCHANGED cache
              PROVE  AnswersInv'
  OBVIOUS
<1>1. /\ fetching # None /\ fetching.phase \in {"writing", "indexing"} /\ fetching \in Call
      /\ got = None /\ ~Cached(fetching.request)
      /\ Tells(fetching.request, fetching.body)
      /\ UNCHANGED <<answered, dials>>
  BY Flying DEF RecordFile, RecordIndex, At, AnswersInv, FlightTells, Tells
<1>2. CacheTells' /\ AnswersWentOut'
  BY <1>1 DEF AnswersInv, CacheTells, AnswersWentOut, Cached, Key, Tells, Dialled
<1>3. FlightTells' /\ GotTells'
  <2>1. CASE RecordFile
    <3>1. /\ fetching' = [fetching EXCEPT !.phase = "indexing"] /\ got' = got
      BY <2>1 DEF RecordFile
    <3>2. /\ fetching'.request = fetching.request /\ fetching'.body = fetching.body
          /\ fetching'.phase = "indexing"
      BY <1>1, <3>1 DEF Call
    <3>. QED BY <1>1, <3>1, <3>2 DEF FlightTells, GotTells, Cached, Key, Tells
  <2>2. CASE RecordIndex
    <3>1. fetching' = None /\ got' = [request |-> fetching.request, result |-> fetching.body]
      BY <2>2 DEF RecordIndex, Return
    <3>. QED BY <1>1, <3>1 DEF FlightTells, GotTells, Tells
  <2>. QED BY <2>1, <2>2
<1>. QED BY <1>2, <1>3 DEF AnswersInv

LEMMA AnswersInvRefused ==
  ASSUME GatherInv, AnswersInv, NEW error \in Errors,
         Refuse(error) \/ TryAgain(error) \/ GiveUp(error), UNCHANGED cache
  PROVE  AnswersInv'
<1>1. /\ fetching # None /\ fetching.phase = "dialling" /\ fetching \in Call
      /\ UNCHANGED <<answered, dials>>
  BY Flying DEF Refuse, TryAgain, GiveUp, At
<1>2. CASE Refuse(error)
  <2>. DEFINE result == CASE error.code = Disabled -> "disabled"
                          [] error.code \in NOT_AUTHORISED -> "not_authorised"
                          [] OTHER -> GAP
  <2>1. result # "well-formed"
    BY DEF GAP
  <2>2. got' = [request |-> fetching.request, result |-> result] /\ fetching' = None
    BY <1>2 DEF Refuse, Return
  <2>. HIDE DEF result
  <2>. QED BY <1>1, <2>1, <2>2, AnswersInvGap
<1>3. CASE GiveUp(error)
  <2>1. got' = [request |-> fetching.request, result |-> GAP] /\ fetching' = None
    BY <1>3 DEF GiveUp, Return
  <2>2. GAP # "well-formed"
    BY DEF GAP
  <2>. QED BY <1>1, <2>1, <2>2, AnswersInvGap
<1>4. CASE TryAgain(error) /\ error.after = Huge
  <2>1. got' = [request |-> fetching.request, result |-> "overflow"] /\ fetching' = None
    BY <1>4 DEF TryAgain, Return
  <2>. QED BY <1>1, <2>1, AnswersInvGap
<1>5. CASE TryAgain(error) /\ error.after # Huge
  <2>1. fetching' = [fetching EXCEPT !.attempt = @ + 1, !.phase = "pacing"] /\ got' = got
    BY <1>5 DEF TryAgain
  <2>2. fetching'.request = fetching.request /\ fetching'.phase = "pacing"
    BY <1>1, <2>1 DEF Call
  <2>. QED BY <1>1, <2>1, <2>2 DEF AnswersInv, FlightTells, GotTells, CacheTells, AnswersWentOut,
              Cached, Key, Tells, Dialled
<1>. QED BY <1>2, <1>3, <1>4, <1>5

LEMMA AnswersInvStep == GatherInv /\ AnswersInv /\ [Next]_gatherVars => AnswersInv'
<1>. SUFFICES ASSUME GatherInv, AnswersInv, [Next]_gatherVars PROVE AnswersInv'
  OBVIOUS
<1>1. CASE Skip \/ Reuse \/ Stop \/ Finish \/ Drift \/ UNCHANGED gatherVars
  <2>1. UNCHANGED answerVars
    BY <1>1 DEF Skip, Reuse, Stop, Finish, Drift, ClockSetBack, gatherVars, sourceVars, callVars,
                sessionVars, answerVars
  <2>. QED BY <2>1 DEF answerVars, AnswersInv, FlightTells, GotTells, CacheTells, AnswersWentOut,
                       Cached, Key, Tells, Dialled
<1>2. CASE Calling
  <2>1. UNCHANGED cache
    BY <1>2 DEF Calling
  <2>. QED BY <1>2, <2>1, AnswersInvPace, AnswersInvAnswer, AnswersInvRefused, AnswersInvRecord
       DEF Calling
<1>3. CASE Crash
  BY <1>3 DEF Crash, AnswersInv, FlightTells, GotTells, CacheTells, AnswersWentOut, Cached, Key,
              Tells, Dialled
<1>4. ASSUME NEW order \in Orders, NEW budget \in Budgets, NEW day \in Captures,
             NextProbe(order, budget, day)
      PROVE  AnswersInv'
  <2>1. fetching = None /\ got = None
    BY <1>4 DEF NextProbe, GatherInv, FlightOK, GotOK
  <2>2. /\ fetching' = None /\ got' = None /\ answered' = {}
        /\ cache' = [q \in Requests |-> None]
    BY <1>4, <2>1 DEF NextProbe
  <2>. QED BY <2>2 DEF AnswersInv, FlightTells, GotTells, CacheTells, AnswersWentOut, Cached, Key
<1>. QED BY <1>1, <1>2, <1>3, <1>4, AnswersInvAsk, AnswersInvLearn DEF Next, Work

LEMMA PlansAreLong == \A control \in Rules : Needs(control) \in Seq(Requests \union {None})
BY RunsAssumption

LEMMA RunOKInit == Init => RunOK
<1>. SUFFICES ASSUME Init, job = "control" PROVE RunOK
  BY DEF RunOK
<1>1. /\ rule \in Rules /\ capture = None /\ needs = Needs(rule) /\ at = 1
      /\ fetching = None /\ got = None /\ outcome = "running"
  BY DEF Init, Opening, SourceInit
<1>2. Len(needs) \in Nat
  BY <1>1, PlansAreLong
<1>. QED BY <1>1, <1>2 DEF RunOK

\* The call in flight ends as an answer to its own question, or goes on.
LEMMA CallKeepsItsQuestion ==
  ASSUME GatherInv, Calling
  PROVE  /\ fetching # None
         /\ fetching' # None => fetching'.request = fetching.request
         /\ got' # None => got'.request = fetching.request
<1>1. fetching # None
  BY DEF Calling, Pace, Answer, Refuse, TryAgain, GiveUp, RecordFile, RecordIndex, At
<1>2. fetching \in Call /\ got = None
  BY <1>1, Flying
<1>3. \/ got' = got /\ fetching' = [fetching EXCEPT !.phase = "dialling"]
      \/ got' = got /\ fetching' = [fetching EXCEPT !.phase = "indexing"]
      \/ got' = got /\ \E body \in BODIES :
           fetching' = [fetching EXCEPT !.phase = "writing", !.body = body]
      \/ got' = got /\ fetching' = [fetching EXCEPT !.attempt = @ + 1, !.phase = "pacing"]
      \/ fetching' = None /\ \E result : got' = [request |-> fetching.request, result |-> result]
  <2>1. CASE Pace \/ RecordFile \/ RecordIndex
    BY <2>1 DEF Pace, RecordFile, RecordIndex, Return
  <2>2. CASE \E body \in BODIES : Answer(body, capture # None)
    BY <2>2 DEF Answer, Return
  <2>3. CASE \E error \in Errors : Refuse(error)
    BY <2>3 DEF Refuse, Return
  <2>4. CASE \E error \in Errors : TryAgain(error)
    BY <2>4 DEF TryAgain, Return
  <2>5. CASE \E error \in Errors : GiveUp(error)
    BY <2>5 DEF GiveUp, Return
  <2>. QED BY <2>1, <2>2, <2>3, <2>4, <2>5 DEF Calling
<1>4. CASE got' = got /\ fetching' = [fetching EXCEPT !.phase = "dialling"]
  BY <1>1, <1>2, <1>4 DEF Call
<1>5. CASE got' = got /\ fetching' = [fetching EXCEPT !.phase = "indexing"]
  BY <1>1, <1>2, <1>5 DEF Call
<1>6. ASSUME NEW body \in BODIES, got' = got,
             fetching' = [fetching EXCEPT !.phase = "writing", !.body = body]
      PROVE  fetching'.request = fetching.request
  BY <1>1, <1>2, <1>6 DEF Call
<1>7. CASE got' = got /\ fetching' = [fetching EXCEPT !.attempt = @ + 1, !.phase = "pacing"]
  BY <1>1, <1>2, <1>7 DEF Call
<1>8. CASE fetching' = None /\ \E result : got' = [request |-> fetching.request, result |-> result]
  <2>1. PICK result : got' = [request |-> fetching.request, result |-> result]
    BY <1>8
  <2>. QED BY <1>1, <1>8, <2>1
<1>9. CASE \E body \in BODIES : got' = got
             /\ fetching' = [fetching EXCEPT !.phase = "writing", !.body = body]
  BY <1>1, <1>2, <1>6, <1>9
<1>. QED BY <1>1, <1>3, <1>4, <1>5, <1>7, <1>8, <1>9

\* The run's questions up to the next one have been put, whatever it is now at.
LEMMA RunOKNext ==
  ASSUME GatherInv, RunOK, job = "control", at <= Len(needs),
         needs[at] # None => Cached(needs[at]),
         at' = at + 1, fetching' = None, got' = None, outcome' # "done",
         UNCHANGED <<job, rule, needs, capture, cache>>
  PROVE  RunOK'
<1>1. Len(needs) \in Nat /\ at \in Nat \ {0}
  BY PlansAreLong DEF RunOK
<1>2. \A i \in 1 .. at' - 1 : i \in 1 .. at - 1 \/ i = at
  BY <1>1
<1>3. \A i \in 1 .. at' - 1 : needs[i] # None => Cached(needs[i])
  BY <1>2 DEF RunOK
<1>. QED BY <1>1, <1>3 DEF RunOK, Cached, Key

LEMMA RunOKLearn ==
  ASSUME GatherInv, RunOK, job = "control", Learn
  PROVE  RunOK'
<1>1. /\ got # None /\ got' = None /\ fetching' = None /\ outcome' # "done"
      /\ cache' = [cache EXCEPT ![got.request] = [result |-> got.result, about |-> got.request]]
      /\ UNCHANGED <<job, rule, needs, capture>>
      /\ at' = at + 1 \/ at' = at
  BY DEF Learn, GatherInv, GotOK, Key, Ends, recordVars, sessionVars
<1>2. /\ at <= Len(needs) /\ got.request = needs[at] /\ needs[at] # None
      /\ needs \in Seq(Requests \union {None}) /\ at \in Nat \ {0}
  BY <1>1, PlansAreLong DEF RunOK
<1>3. got.request \in Requests /\ got.result \in RESULTS
  BY <1>1, <1>2 DEF GatherInv, GotOK
<1>4. /\ [result |-> got.result, about |-> got.request] # None
      /\ cache = [q \in Requests |-> cache[q]]
  BY <1>3, GatherAssumption DEF GatherInv, GatherTypeOK
<1>5. cache'[got.request] # None /\ \A q \in Requests : cache[q] # None => cache'[q] # None
  BY <1>1, <1>3, <1>4
<1>6. \A i \in 1 .. at' - 1 : i \in 1 .. Len(needs) /\ (i \in 1 .. at - 1 \/ i = at)
  BY <1>1, <1>2
<1>7. \A i \in 1 .. at' - 1 : needs[i] # None => cache'[needs[i]] # None
  <2>. SUFFICES ASSUME NEW i \in 1 .. at' - 1, needs[i] # None PROVE cache'[needs[i]] # None
    OBVIOUS
  <2>1. needs[i] \in Requests
    BY <1>2, <1>6
  <2>2. CASE i = at
    BY <1>2, <1>5, <2>2
  <2>3. CASE i # at
    BY <1>5, <1>6, <2>1, <2>3 DEF RunOK, Cached, Key
  <2>. QED BY <2>2, <2>3
<1>8. at' \in Nat \ {0} /\ at' <= Len(needs) + 1
  BY <1>1, <1>2
<1>. QED BY <1>1, <1>7, <1>8 DEF RunOK, Cached, Key

LEMMA RunOKStep == GatherInv /\ RunOK /\ [Next]_gatherVars => RunOK'
<1>. SUFFICES ASSUME GatherInv, RunOK, [Next]_gatherVars, job' = "control" PROVE RunOK'
  BY DEF RunOK
<1>1. job = "control"
  BY DEF Next, Work, Skip, Reuse, Ask, Stop, Learn, Finish, Calling, Drift, Crash, NextProbe,
         gatherVars, sessionVars
<1>2. /\ needs \in Seq(Requests \union {None}) /\ Len(needs) \in Nat /\ at \in Nat \ {0}
      /\ at <= Len(needs) + 1
  BY <1>1, PlansAreLong DEF RunOK
<1>3. CASE Skip \/ Reuse
  BY <1>1, <1>3, RunOKNext DEF Skip, Reuse, InHand, Idle, Running, sourceVars, callVars,
                               recordVars, sessionVars
<1>4. CASE Ask
  <2>1. /\ at <= Len(needs) /\ needs[at] # None /\ outcome' # "done"
        /\ UNCHANGED <<job, rule, needs, at, capture, cache>>
        /\ fetching' # None => fetching'.request = needs[at]
        /\ got' # None => got'.request = needs[at]
    BY <1>4 DEF Ask, Fetch, InHand, Idle, Running, recordVars, sessionVars
  <2>. QED BY <1>1, <2>1 DEF RunOK, Cached, Key
<1>5. CASE Stop \/ Finish
  <2>1. /\ UNCHANGED <<job, rule, needs, at, capture, cache, fetching, got>>
        /\ fetching = None /\ got = None
        /\ outcome' = "done" => at = Len(needs) + 1
    BY <1>2, <1>5 DEF Stop, Finish, InHand, Idle, sourceVars, callVars, recordVars, sessionVars
  <2>. QED BY <1>1, <2>1 DEF RunOK, Cached, Key
<1>6. CASE Learn
  BY <1>1, <1>6, RunOKLearn
<1>7. CASE Calling
  <2>1. UNCHANGED <<job, rule, needs, at, capture, cache, outcome>>
    BY <1>7 DEF Calling, Pace, Answer, Refuse, TryAgain, GiveUp, RecordFile, RecordIndex,
                recordVars, sessionVars
  <2>2. /\ fetching # None /\ fetching.request \in Requests /\ outcome # "done"
    BY <1>7, CallKeepsItsQuestion, Flying DEF Calling, Running
  <2>3. at <= Len(needs) /\ fetching.request = needs[at]
    BY <1>1, <2>2 DEF RunOK
  <2>. QED BY <1>1, <1>7, <2>1, <2>2, <2>3, CallKeepsItsQuestion, RunsAssumption
           DEF RunOK, Cached, Key
<1>8. CASE Drift \/ UNCHANGED gatherVars
  <2>1. UNCHANGED <<job, rule, needs, at, capture, cache, outcome, fetching, got>>
    BY <1>8 DEF Drift, ClockSetBack, gatherVars, sourceVars, callVars, recordVars, sessionVars
  <2>. QED BY <1>1, <2>1 DEF RunOK, Cached, Key
<1>. QED BY <1>1, <1>3, <1>4, <1>5, <1>6, <1>7, <1>8 DEF Next, Work, Crash, NextProbe

\* Every set of numbers that has one has a least one.
LEMMA LeastExists ==
  ASSUME NEW T, T \subseteq Nat, T # {}
  PROVE  \E x \in T : \A y \in T : x <= y
<1>. DEFINE R == {ss \in Nat \X Nat : ss[1] < ss[2]}
<1>1. IsWellFoundedOn(R, Nat)
  BY NatLessThanWellFounded, Zenon DEF OpToRel
<1>2. \A x, y \in Nat : <<y, x>> \in R \/ x <= y
  OBVIOUS
<1>. HIDE DEF R
<1>3. \E x \in T : \A y \in T : ~ (<<y, x>> \in R)
  BY <1>1, WFMin
<1>. QED BY <1>2, <1>3, Zenon

\* Sequences, and where the members of three of them stand in the one they make.
LEMMA MakesASequence ==
  ASSUME NEW n \in Nat, NEW S, NEW f, f = [i \in 1 .. n |-> f[i]],
         \A i \in 1 .. n : f[i] \in S
  PROVE  f \in Seq(S) /\ Len(f) = n
<1>1. f \in [1 .. n -> S]
  OBVIOUS
<1>. QED BY <1>1

LEMMA TwoParts ==
  ASSUME NEW S, NEW s1 \in Seq(S), NEW s2 \in Seq(S), NEW s, s = s1 \o s2
  PROVE  /\ s \in Seq(S) /\ Len(s) = Len(s1) + Len(s2)
         /\ \A i \in 1 .. Len(s1) + Len(s2) :
              s[i] = IF i <= Len(s1) THEN s1[i] ELSE s2[i - Len(s1)]
BY ConcatProperties

LEMMA ThreeParts ==
  ASSUME NEW S, NEW s1 \in Seq(S), NEW s2 \in Seq(S), NEW s3 \in Seq(S), NEW s,
         s = s1 \o s2 \o s3
  PROVE  /\ \A i \in 1 .. Len(s2) : /\ Len(s1) + i \in 1 .. Len(s)
                                    /\ s[Len(s1) + i] = s2[i]
         /\ \A i \in 1 .. Len(s3) : /\ Len(s1) + Len(s2) + i \in 1 .. Len(s)
                                    /\ s[Len(s1) + Len(s2) + i] = s3[i]
<1>1. Len(s1) \in Nat /\ Len(s2) \in Nat /\ Len(s3) \in Nat
  OBVIOUS
<1>2. PICK s12 : s12 = s1 \o s2
  OBVIOUS
<1>3. /\ s12 \in Seq(S) /\ Len(s12) = Len(s1) + Len(s2)
      /\ \A i \in 1 .. Len(s1) + Len(s2) :
           s12[i] = IF i <= Len(s1) THEN s1[i] ELSE s2[i - Len(s1)]
  BY <1>2, TwoParts
<1>4. /\ Len(s) = Len(s12) + Len(s3)
      /\ \A i \in 1 .. Len(s12) + Len(s3) :
           s[i] = IF i <= Len(s12) THEN s12[i] ELSE s3[i - Len(s12)]
  BY <1>2, <1>3, TwoParts
<1>. QED BY <1>1, <1>3, <1>4

\* Where each question of a run stands among them.
LEMMA Placed ==
  ASSUME NEW control \in Rules
  PROVE  /\ \A i \in DOMAIN References[control] :
              /\ 1 + i \in 1 .. Len(Needs(control))
              /\ Needs(control)[1 + i] = ReferenceCalls(control)[i]
         /\ FollowsUp[control] => \A i \in DOMAIN Records :
              \E k \in 1 .. Len(Needs(control)) : Needs(control)[k] = FollowUps[i]
<1>. DEFINE first == <<BuildRequest(control, Today)>>
            calls == ReferenceCalls(control)
            later == IF FollowsUp[control] THEN FollowUps ELSE <<>>
            S == Range(first) \union Range(calls) \union Range(later)
            n == Len(References[control])
<1>1. n \in Nat /\ DOMAIN References[control] = 1 .. n
  BY RunsAssumption
<1>2. DOMAIN calls = 1 .. n
  BY <1>1 DEF ReferenceCalls
<1>3. first \in Seq(S) /\ Len(first) = 1
  BY DEF Range
<1>4. calls \in Seq(S) /\ Len(calls) = n
  <2>1. \A i \in 1 .. n : calls[i] \in S
    BY <1>2 DEF Range
  <2>2. calls = [i \in 1 .. n |-> calls[i]]
    BY <1>1 DEF ReferenceCalls
  <2>. HIDE DEF calls, S, n
  <2>. QED BY <1>1, <2>1, <2>2, MakesASequence
<1>5. DOMAIN Records = 1 .. Len(Records) /\ Len(Records) \in Nat
  BY RunsAssumption
<1>6. /\ later \in Seq(S)
      /\ FollowsUp[control] => later = FollowUps /\ Len(later) = Len(Records)
  <2>1. CASE FollowsUp[control]
    <3>1. \A i \in 1 .. Len(Records) : later[i] \in S
      BY <1>5, <2>1 DEF Range, FollowUps
    <3>2. later = [i \in 1 .. Len(Records) |-> later[i]]
      BY <1>5, <2>1 DEF FollowUps
    <3>3. later = FollowUps
      BY <2>1
    <3>. HIDE DEF later, S
    <3>. QED BY <1>5, <2>1, <3>1, <3>2, <3>3, MakesASequence
  <2>2. CASE ~FollowsUp[control]
    <3>1. later = <<>>
      BY <2>2
    <3>. HIDE DEF later, S
    <3>. QED BY <2>2, <3>1
  <2>. QED BY <2>1, <2>2
<1>7. Needs(control) = first \o calls \o later
  BY Zenon DEF Needs
<1>. HIDE DEF first, calls, later, S
<1>8. /\ \A i \in 1 .. Len(calls) : /\ Len(first) + i \in 1 .. Len(Needs(control))
                                    /\ Needs(control)[Len(first) + i] = calls[i]
      /\ \A i \in 1 .. Len(later) :
           /\ Len(first) + Len(calls) + i \in 1 .. Len(Needs(control))
           /\ Needs(control)[Len(first) + Len(calls) + i] = later[i]
  <2>1. first \in Seq(S) /\ calls \in Seq(S) /\ later \in Seq(S)
    BY <1>3, <1>4, <1>6
  <2>2. PICK s : s = Needs(control)
    OBVIOUS
  <2>3. s = first \o calls \o later
    BY <1>7, <2>2, Zenon
  <2>4. /\ \A i \in 1 .. Len(calls) : /\ Len(first) + i \in 1 .. Len(s)
                                      /\ s[Len(first) + i] = calls[i]
        /\ \A i \in 1 .. Len(later) : /\ Len(first) + Len(calls) + i \in 1 .. Len(s)
                                      /\ s[Len(first) + Len(calls) + i] = later[i]
    BY <2>1, <2>3, ThreeParts
  <2>. QED BY <2>2, <2>4
<1>. QED BY <1>1, <1>3, <1>4, <1>5, <1>6, <1>8 DEF calls

\* What a run that is done knows of every question it had.
LEMMA AllWasPut ==
  ASSUME GatherInv, AnswersInv, RunOK, HasBundles,
         NEW k \in 1 .. Len(Needs(rule)), Needs(rule)[k] # None
  PROVE  LET q == Needs(rule)[k]
         IN  /\ q \in Requests /\ Cached(q) /\ cache[q].about = q
             /\ Tells(q, cache[q].result)
<1>1. /\ rule \in Rules /\ needs = Needs(rule) /\ at = Len(needs) + 1
      /\ \A i \in 1 .. at - 1 : needs[i] # None => Cached(needs[i])
  BY DEF RunOK, HasBundles
<1>2. needs \in Seq(Requests \union {None}) /\ Len(needs) \in Nat
  BY <1>1, PlansAreLong
<1>3. needs[k] \in Requests /\ Cached(needs[k])
  BY <1>1, <1>2
<1>. QED BY <1>1, <1>3 DEF AnswersInv, CacheTells

\* The follow-up of a record with an identity, and the call of a reference.
LEMMA FollowUpKnown ==
  ASSUME GatherInv, AnswersInv, RunOK, HasBundles, FollowsUp[rule],
         NEW r \in Judged, IdOf[r] # Unread
  PROVE  LET q == Balance(IdOf[r])
         IN  /\ Cached(q) /\ cache[q].about = q
             /\ Tells(q, cache[q].result)
<1>1. rule \in Rules
  BY DEF RunOK, HasBundles
<1>2. PICK i \in DOMAIN Records : r = Records[i]
  BY DEF Judged
<1>3. FollowUps[i] = Balance(IdOf[r])
  BY <1>2 DEF FollowUps
<1>4. Balance(IdOf[r]) # None
  <2>1. r \in DOMAIN IdOf
    BY <1>2, RunsAssumption
  <2>. QED BY <2>1, RunsAssumption DEF Range
<1>5. PICK k \in 1 .. Len(Needs(rule)) : Needs(rule)[k] = Balance(IdOf[r])
  BY <1>1, <1>2, <1>3, Placed
<1>. QED BY <1>4, <1>5, AllWasPut

LEMMA ReferenceKnown ==
  ASSUME GatherInv, AnswersInv, RunOK, HasBundles, NEW i \in DOMAIN Refs, Refs[i].costs
  PROVE  LET q == Refs[i].request
         IN  Cached(q) /\ Tells(q, cache[q].result)
<1>1. rule \in Rules
  BY DEF RunOK, HasBundles
<1>2. /\ i \in DOMAIN References[rule] /\ Retrievable(References[rule][i])
      /\ Refs[i].request = ReferenceRequest(References[rule][i], Today)
  BY DEF Refs
<1>3. References[rule][i] \in Range(References[rule])
  BY <1>2 DEF Range
<1>4. Refs[i].request # None
  BY <1>1, <1>2, <1>3, RunsAssumption
<1>5. /\ 1 + i \in 1 .. Len(Needs(rule))
      /\ Needs(rule)[1 + i] = Refs[i].request
  BY <1>1, <1>2, Placed DEF ReferenceCalls
<1>. QED BY <1>4, <1>5, AllWasPut

\* A reference of a run: what it is, and what its entity's records are.
LEMMA RefIsTyped ==
  ASSUME RunOK, HasBundles, NEW i \in DOMAIN Refs
  PROVE  /\ Refs[i].entity \in DOMAIN Remote
         /\ Refs[i].kind \in {"lookup", "set", "collection"}
         /\ DOMAIN Remote[Refs[i].entity] \subseteq Nat
         /\ \A k \in DOMAIN Remote[Refs[i].entity] : Remote[Refs[i].entity][k] \in DOMAIN Holds
<1>1. rule \in Rules
  BY DEF RunOK, HasBundles
<1>2. /\ i \in DOMAIN References[rule]
      /\ Refs[i].entity = References[rule][i].entity /\ Refs[i].kind = References[rule][i].kind
  BY DEF Refs
<1>3. References[rule][i] \in Range(References[rule])
  BY <1>2 DEF Range
<1>4. Refs[i].entity \in DOMAIN Remote /\ Refs[i].kind \in {"lookup", "set", "collection"}
  BY <1>1, <1>2, <1>3, RunsAssumption
<1>5. Remote[Refs[i].entity] \in Seq(DOMAIN Holds)
  BY <1>4, RunsAssumption
<1>. QED BY <1>4, <1>5

\* The remote records that are this record's own.
Mine(ref, r) ==
  {m \in {Remote[ref.entity][k] : k \in DOMAIN Remote[ref.entity]} :
     RemoteKey[m] = KeyOf[r] /\ KeyOf[r] \notin {Unread, Absent}}

LEMMA MatchedIsMine ==
  ASSUME NEW ref, NEW r
  PROVE  /\ {Remote[ref.entity][k] : k \in Matched(ref, r)} \subseteq Mine(ref, r)
         /\ IsAvailable(ref) /\ KeyOf[r] \notin {Unread, Absent} =>
              (Matched(ref, r) # {} <=> Mine(ref, r) # {})
<1>1. Matched(ref, r) \subseteq
        {k \in DOMAIN Remote[ref.entity] : RemoteKey[Remote[ref.entity][k]] = KeyOf[r]}
  BY DEF Matched, ByKey
<1>2. Matched(ref, r) # {} => KeyOf[r] \notin {Unread, Absent}
  BY DEF Matched
<1>3. ASSUME IsAvailable(ref), KeyOf[r] \notin {Unread, Absent}, NEW m \in Mine(ref, r)
      PROVE  Matched(ref, r) # {}
  <2>1. PICK k \in DOMAIN Remote[ref.entity] : m = Remote[ref.entity][k]
    BY DEF Mine
  <2>2. RemoteKey[Remote[ref.entity][k]] = KeyOf[r]
    BY <2>1 DEF Mine
  <2>. QED BY <1>3, <2>1, <2>2 DEF Matched, ByKey, KeyIsRead
<1>. QED BY <1>1, <1>2, <1>3 DEF Mine

LEMMA BundleFields ==
  \A r : /\ Bundle(r).owed = FollowUp(r)
         /\ \A i \in DOMAIN Refs : /\ Bundle(r).through[i] = Through(Refs[i], r)
                                   /\ Bundle(r).joins[i] = Join(Refs[i], r)
BY DEF Bundle

LEMMA NothingInvented ==
  ASSUME GatherInv, AnswersInv, RunOK
  PROVE  NothingIsInvented
<1>. SUFFICES ASSUME HasBundles, NEW r \in Judged
     PROVE  /\ Bundle(r).owed # Unread => Bundle(r).owed = Owed[IdOf[r]]
            /\ \A i \in DOMAIN Refs :
                 /\ Refs[i].kind = "lookup" /\ Bundle(r).through[i] # Unread =>
                      \E m \in Mine(Refs[i], r) : Bundle(r).through[i] = Holds[m]
                 /\ Bundle(r).related[i] \subseteq Mine(Refs[i], r)
                 /\ Refs[i].kind # "set" /\ Bundle(r).joins[i] # "unknown" =>
                      (Bundle(r).joins[i] = "yes" <=> Mine(Refs[i], r) # {})
  BY DEF NothingIsInvented, Mine
<1>1. ASSUME FollowUp(r) # Unread PROVE FollowUp(r) = Owed[IdOf[r]]
  <2>1. FollowsUp[rule] /\ IdOf[r] # Unread
    BY <1>1 DEF FollowUp
  <2>2. cache[Balance(IdOf[r])].about = Balance(IdOf[r])
    BY <2>1, FollowUpKnown
  <2>3. Balance(IdOf[r]).filters.ReservationNumber = IdOf[r]
    BY DEF Balance
  <2>. QED BY <1>1, <2>1, <2>2, <2>3 DEF FollowUp, Key
<1>2. ASSUME NEW i \in DOMAIN Refs, Refs[i].kind = "lookup", Through(Refs[i], r) # Unread
      PROVE  \E m \in Mine(Refs[i], r) : Through(Refs[i], r) = Holds[m]
  <2>. DEFINE M == Matched(Refs[i], r)
  <2>1. M # {} /\ Through(Refs[i], r) = Holds[Remote[Refs[i].entity][First(M)]]
    BY <1>2 DEF Through
  <2>2. M \subseteq Nat
    <3>1. M \subseteq DOMAIN Remote[Refs[i].entity]
      BY DEF Matched, ByKey
    <3>. QED BY <3>1, RefIsTyped
  <2>3. First(M) \in M
    <3>. HIDE DEF M
    <3>. QED BY <2>1, <2>2, LeastExists DEF First
  <2>4. Remote[Refs[i].entity][First(M)] \in Mine(Refs[i], r)
    <3>1. {Remote[Refs[i].entity][k] : k \in M} \subseteq Mine(Refs[i], r)
      BY MatchedIsMine
    <3>. HIDE DEF M
    <3>. QED BY <2>3, <3>1
  <2>. QED BY <2>1, <2>4
<1>3. ASSUME NEW i \in DOMAIN Refs
      PROVE  Bundle(r).related[i] \subseteq Mine(Refs[i], r)
  BY MatchedIsMine DEF Bundle
<1>4. ASSUME NEW i \in DOMAIN Refs, Refs[i].kind # "set", Join(Refs[i], r) # "unknown"
      PROVE  Join(Refs[i], r) = "yes" <=> Mine(Refs[i], r) # {}
  <2>1. IsAvailable(Refs[i]) /\ KeyOf[r] \notin {Unread, Absent}
    BY <1>4 DEF Join
  <2>. QED BY <1>4, <2>1, MatchedIsMine DEF Join
<1>. QED BY <1>1, <1>2, <1>3, <1>4, BundleFields

LEMMA GapsAreCaused ==
  ASSUME GatherInv, AnswersInv, RunOK
  PROVE  GapsHaveTheirCause
<1>. SUFFICES ASSUME HasBundles, NEW r \in Judged
     PROVE  /\ FollowsUp[rule] => (FollowUp(r) = Unread <=>
                 \/ IdOf[r] = Unread
                 \/ CameBackEmpty(Balance(IdOf[r]))
                 \/ Owed[IdOf[r]] = Unread)
            /\ \A i \in DOMAIN Refs :
                 /\ ~Refs[i].costs \/ Refs[i].request \notin answered =>
                      /\ Through(Refs[i], r) = Unread /\ Join(Refs[i], r) # "yes"
                      /\ Refs[i].costs => CameBackEmpty(Refs[i].request)
                 /\ Refs[i].costs /\ Refs[i].request \in answered =>
                      /\ Refs[i].kind = "set" => Through(Refs[i], r) # Unread
                      /\ Join(Refs[i], r) = "unknown" <=>
                           Refs[i].kind # "set" /\ KeyOf[r] \in {Unread, Absent}
  BY BundleFields DEF GapsHaveTheirCause
<1>1. ASSUME FollowsUp[rule], IdOf[r] # Unread
      PROVE  FollowUp(r) = Unread <=>
               CameBackEmpty(Balance(IdOf[r])) \/ Owed[IdOf[r]] = Unread
  <2>. DEFINE q == Balance(IdOf[r])
  <2>1. Cached(q) /\ cache[q].about = q /\ Tells(q, cache[q].result)
    BY <1>1, FollowUpKnown
  <2>2. q.filters.ReservationNumber = IdOf[r]
    BY DEF Balance
  <2>3. FollowUp(r) = IF cache[q].result = "well-formed"
                      THEN Owed[cache[q].about.filters.ReservationNumber] ELSE Unread
    BY <1>1, <2>1 DEF FollowUp, Cached, Key
  <2>4. CameBackEmpty(q) <=> cache[q].result # "well-formed"
    BY <2>1 DEF CameBackEmpty, Tells
  <2>. HIDE DEF q
  <2>. QED BY <2>1, <2>2, <2>3, <2>4 DEF q
<1>2. FollowsUp[rule] /\ IdOf[r] = Unread => FollowUp(r) = Unread
  BY DEF FollowUp
<1>3. ASSUME NEW i \in DOMAIN Refs
      PROVE  /\ IsAvailable(Refs[i]) <=> Refs[i].costs /\ Refs[i].request \in answered
             /\ Refs[i].costs /\ Refs[i].request \notin answered =>
                  CameBackEmpty(Refs[i].request)
  <2>1. CASE ~Refs[i].costs
    BY <2>1 DEF IsAvailable
  <2>2. CASE Refs[i].costs
    <3>1. /\ Cached(Refs[i].request)
          /\ Tells(Refs[i].request, cache[Refs[i].request].result)
      BY <2>2, ReferenceKnown
    <3>. QED BY <2>2, <3>1 DEF IsAvailable, Answered, Key, Tells, CameBackEmpty
  <2>. QED BY <2>1, <2>2
<1>4. ASSUME NEW i \in DOMAIN Refs, ~IsAvailable(Refs[i])
      PROVE  Through(Refs[i], r) = Unread /\ Join(Refs[i], r) # "yes"
  BY <1>4 DEF Through, Join
<1>5. ASSUME NEW i \in DOMAIN Refs, IsAvailable(Refs[i])
      PROVE  /\ Refs[i].kind = "set" => Through(Refs[i], r) # Unread
             /\ Join(Refs[i], r) = "unknown" <=>
                  Refs[i].kind # "set" /\ KeyOf[r] \in {Unread, Absent}
  <2>1. Refs[i].kind = "set" => Through(Refs[i], r) # Unread
    <3>. SUFFICES ASSUME Refs[i].kind = "set" PROVE Through(Refs[i], r) # Unread
      OBVIOUS
    <3>. DEFINE T == {Holds[Remote[Refs[i].entity][k]] : k \in DOMAIN Remote[Refs[i].entity]}
                       \ {Unread}
    <3>1. Through(Refs[i], r) = T
      BY <1>5 DEF Through
    <3>2. T \in SUBSET Range(Holds)
      BY RefIsTyped DEF Range
    <3>. HIDE DEF T
    <3>. QED BY <3>1, <3>2, RunsAssumption
  <2>2. Join(Refs[i], r) = "unknown" <=> Refs[i].kind # "set" /\ KeyOf[r] \in {Unread, Absent}
    BY <1>5 DEF Join
  <2>. QED BY <2>1, <2>2
<1>. QED BY <1>1, <1>2, <1>3, <1>4, <1>5

\* A bundle says of a record only what the hotel says of that record: no failure, no
\* missing key and no other record's answer becomes a value, a match or a denial.
THEOREM BundlesAreTrue == Spec => []NothingIsInvented
<1>1. Init => GatherInv /\ AnswersInv /\ RunOK
  BY GatherInvInit, AnswersInvInit, RunOKInit
<1>2. GatherInv /\ AnswersInv /\ RunOK /\ [Next]_gatherVars => (GatherInv /\ AnswersInv /\ RunOK)'
  BY GatherInvStep, AnswersInvStep, RunOKStep
<1>. QED BY <1>1, <1>2, NothingInvented, PTL DEF Spec

\* What is unknown when a run is done was asked for and not answered, or cannot be
\* read; and what was answered and can be read is known.
THEOREM GapsAreHonest == Spec => []GapsHaveTheirCause
<1>1. Init => GatherInv /\ AnswersInv /\ RunOK
  BY GatherInvInit, AnswersInvInit, RunOKInit
<1>2. GatherInv /\ AnswersInv /\ RunOK /\ [Next]_gatherVars => (GatherInv /\ AnswersInv /\ RunOK)'
  BY GatherInvStep, AnswersInvStep, RunOKStep
<1>. QED BY <1>1, <1>2, GapsAreCaused, PTL DEF Spec

------------------------------------------------------------------------------
(* What one field of a record resolves to (Adapters).                      *)

LEMMA NearestIsText ==
  ASSUME NEW lineage \in Lineages, IsFilled(Nearest(lineage))
  PROVE  Nearest(lineage)[1] \in Texts
<1>. DEFINE levels == {i \in DOMAIN lineage : lineage[i] # <<>>}
            level == CHOOSE i \in levels : \A j \in levels : i <= j
<1>1. lineage \in Seq(Seq(Texts))
  BY FieldsAssumption
<1>2. levels \subseteq Nat
  BY <1>1
<1>3. levels # {} /\ Nearest(lineage) = lineage[level] /\ lineage[level] # <<>>
  <2>1. levels # {} /\ Nearest(lineage) = lineage[level]
    BY DEF Nearest, IsFilled
  <2>. QED BY <2>1 DEF IsFilled
<1>4. level \in levels
  <2>1. \E i \in levels : \A j \in levels : i <= j
    <3>. HIDE DEF levels
    <3>. QED BY <1>2, <1>3, LeastExists
  <2>. QED BY <2>1
<1>5. lineage[level] \in Seq(Texts)
  BY <1>1, <1>4
<1>. QED BY <1>3, <1>5

LEMMA TextIsRecord ==
  ASSUME NEW t \in Texts
  PROVE  t = [word |-> t.word, digits |-> t.digits, date |-> t.date,
              count |-> t.count, number |-> t.number]
BY FieldsAssumption

LEMMA Rewording ==
  ASSUME NEW t \in Texts, NEW word
  PROVE  [t EXCEPT !.word = word].word = word
<1>1. t = [word |-> t.word, digits |-> t.digits, date |-> t.date,
           count |-> t.count, number |-> t.number]
  BY TextIsRecord
<1>. QED BY <1>1

LEMMA FactsAreNoGaps == \A unit, payload : Fact(unit, payload) # Unresolved
BY DEF Fact, Unresolved

LEMMA Hundredths ==
  /\ \A c \in Int : 100 * c \in Int
  /\ \A n, c \in Int : n = 100 * c => (n = 0 <=> c = 0) /\ Whole(n) = c
BY DEF Whole

LEMMA MinusOne == -1 # 0
OBVIOUS

Alike(f, t, currency) ==
  (Demo(f, <<Encoded(f, t)>>, currency) # FromMiniHotel(f, t, currency)) <=> ReadDifferently(f, t)

LEMMA CodesAlike ==
  ASSUME NEW f \in Fields, NEW t \in Texts, NEW currency, t.word # "", ~Stops(f, t),
         f.kind \in CODED \ FLAGS
  PROVE  Alike(f, t, currency)
<1>. DEFINE other == Translation(f.kind)[t.word]
<1>1. t.word \in DOMAIN Translation(f.kind)
  BY DEF Stops
<1>2. Encoded(f, t).word = other
  <2>1. Encoded(f, t) = [t EXCEPT !.word = other]
    BY DEF Encoded, CODED, FLAGS
  <2>. HIDE DEF other
  <2>. QED BY <2>1, Rewording
<1>3. /\ other # ""
      /\ t.word \in DOMAIN Codes(f.kind) <=> other \in DOMAIN DemoCodes(f.kind)
      /\ t.word \in DOMAIN Codes(f.kind) => Codes(f.kind)[t.word] = DemoCodes(f.kind)[other]
  <2>1. CASE f.kind \in {"status", "department"}
    <3>1. Codes(f.kind) = Tenant[f.kind] /\ DemoCodes(f.kind) = DemoTenant[f.kind]
      BY <2>1 DEF Codes, DemoCodes, FLAGS
    <3>2. \A word \in DOMAIN Translation(f.kind) :
            LET meant == Translation(f.kind)[word] IN
            /\ meant # ""
            /\ word \in DOMAIN Tenant[f.kind] <=> meant \in DOMAIN DemoTenant[f.kind]
            /\ word \in DOMAIN Tenant[f.kind] =>
                 Tenant[f.kind][word] = DemoTenant[f.kind][meant]
      BY <2>1, TenantsAssumption
    <3>. QED BY <1>1, <3>1, <3>2
  <2>2. CASE f.kind = "housekeeping"
    <3>1. t.word \in {"C", "D", "R", "A"}
      BY <1>1, <2>2 DEF Translation
    <3>0. Translation(f.kind) = [C |-> "CLEAN", D |-> "SOILED", R |-> "R", A |-> "A"]
      BY <2>2 DEF Translation
    <3>2. other = IF t.word = "C" THEN "CLEAN" ELSE IF t.word = "D" THEN "SOILED" ELSE t.word
      <4>. HIDE DEF other
      <4>0. other = Translation(f.kind)[t.word]
        BY Zenon DEF other
      <4>1. CASE t.word = "C"
        BY <3>0, <4>0, <4>1
      <4>2. CASE t.word = "D"
        BY <3>0, <4>0, <4>2
      <4>3. CASE t.word = "R"
        BY <3>0, <4>0, <4>3
      <4>4. CASE t.word = "A"
        BY <3>0, <4>0, <4>4
      <4>. QED BY <3>1, <4>1, <4>2, <4>3, <4>4
    <3>3. Codes(f.kind) = [C |-> "clean", D |-> "dirty"]
      BY <2>2 DEF Codes
    <3>4. DemoCodes(f.kind) = [CLEAN |-> "clean", SOILED |-> "dirty"]
      BY <2>2 DEF DemoCodes
    <3>. HIDE DEF other
    <3>5. CASE t.word = "C"
      BY <3>2, <3>3, <3>4, <3>5
    <3>7. CASE t.word = "D"
      BY <3>2, <3>3, <3>4, <3>7
    <3>6. CASE t.word \in {"R", "A"}
      BY <3>2, <3>3, <3>4, <3>6
    <3>. QED BY <3>1, <3>5, <3>6, <3>7
  <2>3. CASE f.kind = "direction"
    BY <1>1, <2>3 DEF Codes, DemoCodes, Translation
  <2>. QED BY <2>1, <2>2, <2>3 DEF CODED
<1>4. ~ReadDifferently(f, t)
  BY DEF ReadDifferently, CODED, FLAGS
<1>5. Demo(f, <<Encoded(f, t)>>, currency) = Decoded(DemoCodes(f.kind), f.kind, other)
  BY <1>2, <1>3 DEF Demo, IsFilled, FromDemoPms, CODED
<1>6. FromMiniHotel(f, t, currency) = Decoded(Codes(f.kind), f.kind, t.word)
  BY DEF FromMiniHotel, CODED
<1>. QED BY <1>3, <1>4, <1>5, <1>6 DEF Alike, Decoded

LEMMA FlagsAlike ==
  ASSUME NEW f \in Fields, NEW t \in Texts, NEW currency, t.word # "", ~Stops(f, t),
         f.kind \in FLAGS
  PROVE  Alike(f, t, currency)
<1>. DEFINE other == Translation(f.kind)[t.word]
<1>1. t.word \in {"YES", "TRUE", "1", "NO", "FALSE", "0"}
  BY DEF Stops, CODED, FLAGS, Translation, Either
<1>2. other = IF t.word \in {"YES", "TRUE", "1"} THEN "true" ELSE "false"
  BY <1>1 DEF FLAGS, Translation, Either
<1>3. Encoded(f, t).word = other
  <2>1. Encoded(f, t) = [t EXCEPT !.word = other]
    BY DEF Encoded, CODED, FLAGS
  <2>. HIDE DEF other
  <2>. QED BY <2>1, Rewording
<1>4. Demo(f, <<Encoded(f, t)>>, currency) = Fact("flag", other)
  <2>1. DemoCodes(f.kind) = [word \in {"true", "false"} |-> IF word \in {"true"} THEN "true" ELSE "false"]
    BY DEF DemoCodes, FLAGS, Either
  <2>. QED BY <1>2, <1>3, <2>1 DEF Demo, IsFilled, FromDemoPms, CODED, FLAGS, Decoded, Unit
<1>5. FromMiniHotel(f, t, currency) = Decoded(Codes(f.kind), f.kind, t.word)
  BY DEF FromMiniHotel, CODED, FLAGS
<1>6. t.word \in DOMAIN Codes(f.kind) => Codes(f.kind)[t.word] = other
  BY <1>1, <1>2 DEF Codes, FLAGS, Either
<1>7. ReadDifferently(f, t) <=> t.word \notin DOMAIN Codes(f.kind)
  BY DEF ReadDifferently, FLAGS
<1>. QED BY <1>4, <1>5, <1>6, <1>7, FactsAreNoGaps DEF Alike, Decoded, Unit

LEMMA OthersAlike ==
  ASSUME NEW f \in Fields, NEW t \in Texts, NEW currency, t.word # "", ~Stops(f, t),
         f.kind \notin CODED
  PROVE  Alike(f, t, currency)
<1>1. /\ t = [word |-> t.word, digits |-> t.digits, date |-> t.date,
               count |-> t.count, number |-> t.number]
      /\ Unread \notin Int
      /\ t.count \in Int \union {Unread} /\ t.number \in Int \union {Unread}
      /\ t.count # Unread => t.number = 100 * t.count
  BY FieldsAssumption
<1>2. CASE f.kind = "date"
  <2>1. CASE t.date = Unread
    <3>1. Demo(f, <<Encoded(f, t)>>, currency) = AbsentMeans(f)
      BY <1>1, <1>2, <2>1 DEF Demo, IsFilled, Encoded, CODED, FLAGS
    <3>2. FromMiniHotel(f, t, currency) = Unresolved
      BY <1>2, <2>1 DEF FromMiniHotel, ReadAs
    <3>3. AbsentMeans(f) # Unresolved <=> f.absent # "unknown"
      BY FieldsAssumption, FactsAreNoGaps DEF AbsentMeans
    <3>4. ReadDifferently(f, t) <=> f.absent # "unknown"
      BY <1>2, <2>1 DEF ReadDifferently, FLAGS
    <3>. QED BY <3>1, <3>2, <3>3, <3>4 DEF Alike
  <2>2. CASE t.date # Unread
    BY <1>1, <1>2, <2>2 DEF Alike, Demo, IsFilled, Encoded, CODED, FLAGS, FromDemoPms, FromMiniHotel, ReadDifferently
  <2>. QED BY <2>1, <2>2
<1>3. CASE f.kind = "capacity"
  <2>0. t.count # Unread
    BY <1>3 DEF Stops
  <2>1. t.count \in Int /\ t.number \in Int /\ t.number = 100 * t.count /\ t.number # Unread
    <3>1. t.count \in Int
      BY <1>1, <2>0
    <3>2. t.number = 100 * t.count
      BY <1>1, <2>0
    <3>3. 100 * t.count \in Int
      BY <3>1, Hundredths, Zenon
    <3>. QED BY <1>1, <3>1, <3>2, <3>3
  <2>2. Whole(t.number) = t.count
    BY <2>1, Hundredths
  <2>3. t.number = 0 <=> t.count = 0
    BY <2>1, Hundredths
  <2>4. Encoded(f, t).word = t.word /\ Encoded(f, t).count = IF t.count = 0 THEN -1 ELSE t.count
    BY <1>1, <1>3 DEF Encoded, CODED, FLAGS
  <2>5. Demo(f, <<Encoded(f, t)>>, currency) =
          IF t.count \in {0, -1} THEN Unresolved ELSE Fact("count", t.count)
    BY <1>1, <1>3, <2>1, <2>4 DEF Demo, IsFilled, FromDemoPms, ReadAs
  <2>6. FromMiniHotel(f, t, currency) = IF t.count = 0 THEN Unresolved ELSE Fact("count", t.count)
    BY <1>3, <2>1, <2>2, <2>3 DEF FromMiniHotel
  <2>7. ReadDifferently(f, t) <=> t.count = -1
    BY <1>3 DEF ReadDifferently, FLAGS
  <2>8. CASE t.count = -1
    <3>1. t.count # 0
      BY <2>8, MinusOne, Zenon
    <3>. QED BY <2>5, <2>6, <2>7, <2>8, <3>1, FactsAreNoGaps DEF Alike
  <2>9. CASE t.count # -1
    <3>1. t.count \in {0, -1} <=> t.count = 0
      BY <2>9, Zenon
    <3>2. Demo(f, <<Encoded(f, t)>>, currency) = FromMiniHotel(f, t, currency)
      <4>1. CASE t.count = 0
        BY <2>5, <2>6, <3>1, <4>1
      <4>2. CASE t.count # 0
        BY <2>5, <2>6, <3>1, <4>2
      <4>. QED BY <4>1, <4>2
    <3>. QED BY <2>7, <2>9, <3>2, Zenon DEF Alike
  <2>. QED BY <2>8, <2>9
<1>4. CASE f.kind \in {"money", "tariff"}
  <2>1. Encoded(f, t).word = t.word /\ Encoded(f, t).number =
          IF f.kind = "tariff" /\ t.number = 0 THEN Unread ELSE t.number
    BY <1>1, <1>4 DEF Encoded, CODED, FLAGS
  <2>. QED BY <1>4, <2>1 DEF Alike, Demo, IsFilled, FromDemoPms, FromMiniHotel, ReadDifferently, FLAGS
<1>5. CASE f.kind \in {"text", "count", "card"}
  BY <1>1, <1>5 DEF Alike, Demo, IsFilled, Encoded, CODED, FLAGS, FromDemoPms, FromMiniHotel, ReadDifferently
<1>. QED BY <1>2, <1>3, <1>4, <1>5, FieldsAssumption DEF KINDS

\* Re-encoding a capture changes no fact and makes none up, three spellings apart.
THEOREM DemoReadsAlike == FieldsAreTheSame
<1>. SUFFICES ASSUME NEW f \in Fields, NEW lineage \in Lineages, NEW payer \in Lineages,
                     IsEncodable(f, lineage)
              PROVE  Demo(f, Rewritten(f, lineage), Currency(payer))
                          # Captured(f, lineage, Currency(payer))
                       <=> IsFilled(Nearest(lineage)) /\ ReadDifferently(f, Nearest(lineage)[1])
  BY DEF FieldsAreTheSame
<1>. DEFINE t == Nearest(lineage)[1]
            currency == Currency(payer)
<1>1. CASE IsFilled(Nearest(lineage))
  <2>1. t \in Texts /\ t.word # "" /\ ~Stops(f, t)
    BY <1>1, NearestIsText DEF IsEncodable, IsFilled
  <2>2. Alike(f, t, currency)
    BY <2>1, CodesAlike, FlagsAlike, OthersAlike
  <2>. QED BY <1>1, <2>2 DEF Alike, Rewritten, Captured
<1>2. CASE ~IsFilled(Nearest(lineage))
  BY <1>2 DEF Rewritten, Captured, Demo
<1>. QED BY <1>1, <1>2

------------------------------------------------------------------------------
(* What a recording answers, in either hotel's words (Replay).             *)

\* Each word of the hotel's is one word of the demo hotel's, of the same kind.
LEMMA FilterWords ==
  /\ \A m, n \in DOMAIN FILTERS : FILTERS[m] = FILTERS[n] => m = n
  /\ \A n \in DOMAIN FILTERS :
       /\ n \in MiniHotel.windows <=> FILTERS[n] \in DemoPms.windows
       /\ n \in MiniHotel.options <=> FILTERS[n] \in DemoPms.options
       /\ n \in DOMAIN MiniHotel.dates <=> FILTERS[n] \in DOMAIN DemoPms.dates
       /\ n = MiniHotel.status <=> FILTERS[n] = DemoPms.status
<1>. DEFINE names == {"ArrivalDate", "DepartureDate", "CreateDate", "DateRange",
                      "IncludeRoomPrices", "ReservationNumber", "BookingSearch"}
<1>1. DOMAIN FILTERS = names
  BY DEF FILTERS
<1>2. /\ FILTERS["ArrivalDate"] = "arrival" /\ FILTERS["DepartureDate"] = "departure"
      /\ FILTERS["CreateDate"] = "created" /\ FILTERS["DateRange"] = "window"
      /\ FILTERS["IncludeRoomPrices"] = "include_prices"
      /\ FILTERS["ReservationNumber"] = "booking_ref" /\ FILTERS["BookingSearch"] = "state"
  BY DEF FILTERS
<1>3. \A m, n \in names : FILTERS[m] = FILTERS[n] => m = n
  BY <1>2
<1>4. /\ MiniHotel.windows = {"ArrivalDate", "DepartureDate", "CreateDate", "DateRange"}
      /\ MiniHotel.options = {"IncludeRoomPrices"} /\ MiniHotel.status = "BookingSearch"
      /\ DOMAIN MiniHotel.dates = {"ArrivalDate", "DepartureDate", "CreateDate"}
  BY DEF MiniHotel
<1>5. /\ DemoPms.windows = {"arrival", "departure", "created", "window"}
      /\ DemoPms.options = {"include_prices"} /\ DemoPms.status = "state"
      /\ DOMAIN DemoPms.dates = {"arrival", "departure", "created"}
  BY DEF DemoPms
<1>. QED BY <1>1, <1>2, <1>3, <1>4, <1>5

LEMMA DateWords ==
  /\ MiniHotel.status = "BookingSearch" /\ MiniHotel.status \notin MiniHotel.windows
  /\ DOMAIN MiniHotel.dates \subseteq MiniHotel.windows
  /\ MiniHotel.windows \intersect MiniHotel.options = {}
  /\ \A n \in DOMAIN MiniHotel.dates :
       /\ MiniHotel.dates[n] \in {"arrival", "departure", "created"}
       /\ DemoPms.dates[FILTERS[n]] = MiniHotel.dates[n]
BY DEF MiniHotel, DemoPms, FILTERS

LEMMA StatusWords == \A m, n \in DOMAIN STATUS : STATUS[m] = STATUS[n] => m = n
<1>. DEFINE names == {"OK", "OUT", "CL", "OK4", "WL", "LWP", "IN"}
<1>1. DOMAIN STATUS = names
  BY DEF STATUS
<1>2. /\ STATUS["OK"] = "BOOKED" /\ STATUS["OUT"] = "DEPARTED" /\ STATUS["CL"] = "VOID"
      /\ STATUS["OK4"] = "PROV4" /\ STATUS["WL"] = "HOLD" /\ STATUS["LWP"] = "NOPAY"
      /\ STATUS["IN"] = "IN_HOUSE"
  BY DEF STATUS
<1>. QED BY <1>1, <1>2

LEMMA EndpointWords ==
  /\ \A m, n \in DOMAIN ENDPOINTS : ENDPOINTS[m] = ENDPOINTS[n] => m = n
  /\ \A n \in DOMAIN ENDPOINTS :
       /\ n \in DOMAIN MiniHotel.keyed <=> ENDPOINTS[n] \in DOMAIN DemoPms.keyed
       /\ n = MiniHotel.bookings <=> ENDPOINTS[n] = DemoPms.bookings
<1>1. DOMAIN ENDPOINTS = {"GetReservationKey", "getRooms", "getRoomTypes",
                          "GetReservationBalance", "RoomStatusInquiry"}
  BY DEF ENDPOINTS
<1>2. /\ ENDPOINTS["GetReservationKey"] = "bookings" /\ ENDPOINTS["getRooms"] = "rooms"
      /\ ENDPOINTS["getRoomTypes"] = "room-types"
      /\ ENDPOINTS["GetReservationBalance"] = "ledger"
      /\ ENDPOINTS["RoomStatusInquiry"] = "occupancy"
  BY DEF ENDPOINTS
<1>3. /\ MiniHotel.bookings = "GetReservationKey" /\ DemoPms.bookings = "bookings"
      /\ DOMAIN MiniHotel.keyed = {"GetReservationBalance"} /\ DOMAIN DemoPms.keyed = {"ledger"}
  BY DEF MiniHotel, DemoPms
<1>. QED BY <1>1, <1>2, <1>3

Worded(name, value) == IF name = "BookingSearch" THEN STATUS[value] ELSE value

\* A question's filters, each under its other name.
LEMMA TranslatedFilters ==
  ASSUME NEW q, IsQuestion(q)
  PROVE  /\ \A n \in DOMAIN q.filters :
              Translated(q).filters[FILTERS[n]] = Worded(n, q.filters[n])
         /\ \A n \in DOMAIN FILTERS :
              n \in DOMAIN q.filters <=> FILTERS[n] \in DOMAIN Translated(q).filters
         /\ \A word \in DOMAIN Translated(q).filters :
              \E n \in DOMAIN q.filters : word = FILTERS[n]
<1>. DEFINE D == DOMAIN q.filters
            named(word) == CHOOSE n \in D : FILTERS[n] = word
            filters == [word \in {FILTERS[n] : n \in D} |-> Worded(named(word), q.filters[named(word)])]
<1>1. Translated(q).filters = filters
  BY DEF Translated, Worded
<1>2. D \subseteq DOMAIN FILTERS
  BY DEF IsQuestion
<1>3. \A n \in D : named(FILTERS[n]) = n
  BY <1>2, FilterWords
<1>4. \A n \in D : filters[FILTERS[n]] = Worded(n, q.filters[n])
  BY <1>3
<1>5. \A n \in DOMAIN FILTERS : n \in D <=> FILTERS[n] \in {FILTERS[m] : m \in D}
  BY <1>2, FilterWords
<1>. QED BY <1>1, <1>4, <1>5

LEMMA WindowsKept ==
  ASSUME NEW q, IsQuestion(q), NEW n \in DOMAIN q.filters, n \in MiniHotel.windows
  PROVE  Translated(q).filters[FILTERS[n]] = q.filters[n]
<1>1. n # "BookingSearch"
  BY DateWords
<1>. QED BY <1>1, TranslatedFilters DEF Worded

LEMMA ReachAlike ==
  ASSUME NEW a, IsQuestion(a), NEW r, IsQuestion(r)
  PROVE  OutOfReach(MiniHotel, a.filters, r.filters)
           <=> OutOfReach(DemoPms, Translated(a).filters, Translated(r).filters)
<1>. DEFINE A == Translated(a).filters
            R == Translated(r).filters
            Short(asked, recorded, name) ==
              \/ name \notin DOMAIN recorded
              \/ From(asked[name]) < From(recorded[name])
              \/ To(asked[name]) > To(recorded[name])
<1>1. DOMAIN a.filters \subseteq DOMAIN FILTERS /\ DOMAIN r.filters \subseteq DOMAIN FILTERS
  BY DEF IsQuestion
<1>2. ASSUME NEW n \in DOMAIN a.filters \intersect MiniHotel.windows
      PROVE  Short(a.filters, r.filters, n) <=> Short(A, R, FILTERS[n])
  <2>1. A[FILTERS[n]] = a.filters[n]
    BY WindowsKept
  <2>2. n \in DOMAIN r.filters <=> FILTERS[n] \in DOMAIN R
    BY <1>1, TranslatedFilters
  <2>3. n \in DOMAIN r.filters => R[FILTERS[n]] = r.filters[n]
    BY WindowsKept
  <2>. HIDE DEF A, R
  <2>. QED BY <2>1, <2>2, <2>3
<1>3. \A n \in DOMAIN FILTERS :
        n \in DOMAIN a.filters \intersect MiniHotel.windows
          <=> FILTERS[n] \in DOMAIN A \intersect DemoPms.windows
  BY TranslatedFilters, FilterWords
<1>4. \A word \in DOMAIN A : \E n \in DOMAIN FILTERS : word = FILTERS[n]
  BY <1>1, TranslatedFilters
<1>5. /\ OutOfReach(MiniHotel, a.filters, r.filters)
          <=> \E n \in DOMAIN a.filters \intersect MiniHotel.windows : Short(a.filters, r.filters, n)
      /\ OutOfReach(DemoPms, A, R)
          <=> \E word \in DOMAIN A \intersect DemoPms.windows : Short(A, R, word)
  BY DEF OutOfReach
<1>. HIDE DEF A, R, Short
<1>. QED BY <1>1, <1>2, <1>3, <1>4, <1>5 DEF A, R

LEMMA UncoveredAlike ==
  ASSUME NEW a, IsQuestion(a), NEW r, IsQuestion(r)
  PROVE  Uncovered(MiniHotel, a.filters, r.filters)
           <=> Uncovered(DemoPms, Translated(a).filters, Translated(r).filters)
<1>. DEFINE A == Translated(a).filters
            R == Translated(r).filters
<1>1. DOMAIN r.filters \subseteq DOMAIN FILTERS
  BY DEF IsQuestion
<1>2. \A n \in DOMAIN FILTERS :
        n \in DOMAIN r.filters \ DOMAIN a.filters /\ n \notin MiniHotel.options
          <=> FILTERS[n] \in DOMAIN R \ DOMAIN A /\ FILTERS[n] \notin DemoPms.options
  BY TranslatedFilters, FilterWords
<1>3. \A word \in DOMAIN R : \E n \in DOMAIN FILTERS : word = FILTERS[n]
  BY <1>1, TranslatedFilters
<1>. HIDE DEF A, R
<1>. QED BY <1>1, <1>2, <1>3, ReachAlike DEF Uncovered, A, R

\* Two questions are the same when they are in the other words.
LEMMA WordsTellApart ==
  ASSUME NEW a, IsQuestion(a), NEW r, IsQuestion(r)
  PROVE  r.filters = a.filters <=> Translated(r).filters = Translated(a).filters
<1>1. ASSUME r.filters = a.filters PROVE Translated(r).filters = Translated(a).filters
  BY <1>1 DEF Translated
<1>2. ASSUME Translated(r).filters = Translated(a).filters PROVE r.filters = a.filters
  <2>1. /\ DOMAIN a.filters \subseteq DOMAIN FILTERS /\ DOMAIN r.filters \subseteq DOMAIN FILTERS
        /\ a.filters = [n \in DOMAIN a.filters |-> a.filters[n]]
        /\ r.filters = [n \in DOMAIN r.filters |-> r.filters[n]]
    BY DEF IsQuestion
  <2>2. DOMAIN r.filters = DOMAIN a.filters
    BY <1>2, <2>1, TranslatedFilters
  <2>3. ASSUME NEW n \in DOMAIN r.filters PROVE r.filters[n] = a.filters[n]
    <3>1. Worded(n, r.filters[n]) = Worded(n, a.filters[n])
      <4>1. Translated(r).filters[FILTERS[n]] = Worded(n, r.filters[n])
        BY TranslatedFilters
      <4>2. Translated(a).filters[FILTERS[n]] = Worded(n, a.filters[n])
        BY <2>2, TranslatedFilters
      <4>. QED BY <1>2, <4>1, <4>2
    <3>2. n = "BookingSearch" => r.filters[n] \in DOMAIN STATUS /\ a.filters[n] \in DOMAIN STATUS
      BY <2>2, DateWords DEF IsQuestion
    <3>. QED BY <3>1, <3>2, StatusWords DEF Worded
  <2>. QED BY <2>1, <2>2, <2>3
<1>. QED BY <1>1, <1>2

LEMMA CoversAlike ==
  ASSUME NEW a, IsQuestion(a), NEW r, IsQuestion(r)
  PROVE  Covers(MiniHotel, r, a) <=> Covers(DemoPms, Translated(r), Translated(a))
<1>1. /\ Translated(a).endpoint = ENDPOINTS[a.endpoint]
      /\ Translated(r).endpoint = ENDPOINTS[r.endpoint]
  BY DEF Translated
<1>2. a.endpoint \in DOMAIN ENDPOINTS /\ r.endpoint \in DOMAIN ENDPOINTS
  BY DEF IsQuestion
<1>3. r.endpoint = a.endpoint <=> Translated(r).endpoint = Translated(a).endpoint
  BY <1>1, <1>2, EndpointWords
<1>4. a.endpoint \in DOMAIN MiniHotel.keyed <=> Translated(a).endpoint \in DOMAIN DemoPms.keyed
  BY <1>1, <1>2, EndpointWords
<1>. QED BY <1>3, <1>4, UncoveredAlike, WordsTellApart DEF Covers

\* One booking in the other words.
Reworded(b) == [b EXCEPT !.status = STATUS[@]]

LEMMA RewordedBooking ==
  ASSUME NEW b \in Bookings
  PROVE  /\ \A field \in {"arrival", "departure", "created"} :
              /\ Reworded(b)[field] = b[field]
              /\ b[field] \in Int \union {Unread}
         /\ Reworded(b).status = STATUS[b.status] /\ b.status \in DOMAIN STATUS
<1>1. b \in [arrival : Int \union {Unread}, departure : Int \union {Unread},
             created : Int \union {Unread}, status : DOMAIN STATUS]
  BY QuestionsAssumption
<1>. QED BY <1>1 DEF Reworded

LEMMA MatchesAlike ==
  ASSUME NEW q, IsQuestion(q), NEW b \in Bookings
  PROVE  Matches(MiniHotel, b, q.filters)
           <=> Matches(DemoPms, Reworded(b), Translated(q).filters)
<1>. DEFINE F == q.filters
            G == Translated(q).filters
            Fits(v, booking, filters, name) ==
              IF name \in DOMAIN v.dates THEN InWindow(booking[v.dates[name]], filters[name])
              ELSE name = v.status /\ booking.status = filters[name]
<1>1. DOMAIN F \subseteq DOMAIN FILTERS
  BY DEF IsQuestion
<1>2. ASSUME NEW n \in DOMAIN F
      PROVE  Fits(MiniHotel, b, F, n) <=> Fits(DemoPms, Reworded(b), G, FILTERS[n])
  <2>1. n \in DOMAIN MiniHotel.dates <=> FILTERS[n] \in DOMAIN DemoPms.dates
    BY <1>1, FilterWords
  <2>2. CASE n \in DOMAIN MiniHotel.dates
    <3>1. G[FILTERS[n]] = F[n]
      BY <2>2, DateWords, WindowsKept
    <3>2. Reworded(b)[DemoPms.dates[FILTERS[n]]] = b[MiniHotel.dates[n]]
      BY <2>2, DateWords, RewordedBooking
    <3>. HIDE DEF F, G
    <3>. QED BY <2>1, <2>2, <3>1, <3>2
  <2>3. CASE n \notin DOMAIN MiniHotel.dates
    <3>1. n = MiniHotel.status <=> FILTERS[n] = DemoPms.status
      BY <1>1, FilterWords
    <3>2. CASE n = MiniHotel.status
      <4>1. G[FILTERS[n]] = STATUS[F[n]] /\ F[n] \in DOMAIN STATUS
        <5>1. G[FILTERS[n]] = Worded(n, F[n])
          BY TranslatedFilters
        <5>2. F[n] \in DOMAIN STATUS
          BY <3>2 DEF IsQuestion
        <5>. QED BY <3>2, <5>1, <5>2, DateWords DEF Worded
      <4>2. b.status = F[n] <=> Reworded(b).status = G[FILTERS[n]]
        BY <4>1, RewordedBooking, StatusWords
      <4>. HIDE DEF F, G
      <4>. QED BY <2>1, <2>3, <3>1, <3>2, <4>2
    <3>3. CASE n # MiniHotel.status
      BY <2>1, <2>3, <3>1, <3>3
    <3>. QED BY <3>2, <3>3
  <2>. QED BY <2>2, <2>3
<1>3. \A n \in DOMAIN FILTERS :
        n \in DOMAIN F \ MiniHotel.options <=> FILTERS[n] \in DOMAIN G \ DemoPms.options
  BY TranslatedFilters, FilterWords
<1>4. \A word \in DOMAIN G : \E n \in DOMAIN FILTERS : word = FILTERS[n]
  BY <1>1, TranslatedFilters
<1>5. /\ Matches(MiniHotel, b, F)
           <=> \A n \in DOMAIN F \ MiniHotel.options : Fits(MiniHotel, b, F, n)
      /\ Matches(DemoPms, Reworded(b), G)
           <=> \A word \in DOMAIN G \ DemoPms.options : Fits(DemoPms, Reworded(b), G, word)
  BY DEF Matches
<1>. HIDE DEF F, G, Fits
<1>. QED BY <1>1, <1>2, <1>3, <1>4, <1>5 DEF F, G

LEMMA SourcesAlike ==
  ASSUME NEW a, IsQuestion(a), NEW r, IsQuestion(r), NEW body \in SUBSET Bookings
  PROVE  LET first == FrozenSource(r, body, a, None)
         IN  DemoSource(Translated(r), Transcoded(body), Translated(a), None)
               = IF first = None THEN None ELSE Transcoded(first)
<1>. DEFINE first == FrozenSource(r, body, a, None)
<1>1. CASE ~Covers(MiniHotel, r, a)
  BY <1>1, CoversAlike DEF FrozenSource, DemoSource
<1>2. CASE Covers(MiniHotel, r, a)
  <2>1. /\ first = Replayed(MiniHotel, body, a)
        /\ DemoSource(Translated(r), Transcoded(body), Translated(a), None)
             = Replayed(DemoPms, Transcoded(body), Translated(a))
    BY <1>2, CoversAlike DEF FrozenSource, DemoSource
  <2>2. a.endpoint = MiniHotel.bookings <=> Translated(a).endpoint = DemoPms.bookings
    BY EndpointWords DEF Translated, IsQuestion
  <2>3. Replayed(MiniHotel, body, a) \in SUBSET Bookings
    BY DEF Replayed
  <2>4. \A S : Transcoded(S) = {Reworded(b) : b \in S}
    BY DEF Transcoded, Reworded
  <2>5. \A b \in body : Matches(MiniHotel, b, a.filters)
                          <=> Matches(DemoPms, Reworded(b), Translated(a).filters)
    BY MatchesAlike
  <2>6. {bb \in {Reworded(b) : b \in body} : Matches(DemoPms, bb, Translated(a).filters)}
          = {Reworded(b) : b \in {b \in body : Matches(MiniHotel, b, a.filters)}}
    BY <2>5
  <2>7. Replayed(DemoPms, Transcoded(body), Translated(a))
          = Transcoded(Replayed(MiniHotel, body, a))
    BY <2>2, <2>4, <2>6 DEF Replayed
  <2>. QED BY <2>1, <2>3, <2>7, QuestionsAssumption
<1>. QED BY <1>1, <1>2

\* A booking somebody asks for is among those of a wider question.
LEMMA WiderHoldsMore ==
  ASSUME NEW a, IsQuestion(a), NEW r, IsQuestion(r), Covers(MiniHotel, r, a),
         ~AnotherStatus(MiniHotel, r, a),
         NEW b \in Bookings, Matches(MiniHotel, b, a.filters)
  PROVE  Matches(MiniHotel, b, r.filters)
<1>1. CASE a.endpoint \in DOMAIN MiniHotel.keyed
  BY <1>1 DEF Covers
<1>2. CASE a.endpoint \notin DOMAIN MiniHotel.keyed
  <2>. SUFFICES ASSUME NEW n \in DOMAIN r.filters \ MiniHotel.options
       PROVE  IF n \in DOMAIN MiniHotel.dates
              THEN InWindow(b[MiniHotel.dates[n]], r.filters[n])
              ELSE n = MiniHotel.status /\ b.status = r.filters[n]
    BY DEF Matches
  <2>1. n \in DOMAIN a.filters
    BY <1>2 DEF Covers, Uncovered
  <2>2. CASE n \in DOMAIN MiniHotel.dates
    <3>1. n \in MiniHotel.windows
      BY <2>2, DateWords
    <3>2. /\ From(r.filters[n]) \in Int /\ From(a.filters[n]) \in Int
          /\ To(r.filters[n]) \in Int /\ To(a.filters[n]) \in Int
      BY <2>1, <3>1 DEF IsQuestion, From, To
    <3>3. /\ ~(From(a.filters[n]) < From(r.filters[n]))
          /\ ~(To(a.filters[n]) > To(r.filters[n]))
      BY <1>2, <2>1, <3>1 DEF Covers, Uncovered, OutOfReach
    <3>4. InWindow(b[MiniHotel.dates[n]], a.filters[n])
      BY <2>1, <2>2 DEF Matches
    <3>5. b[MiniHotel.dates[n]] \in Int \union {Unread}
      BY <2>2, DateWords, RewordedBooking
    <3>. QED BY <2>2, <3>2, <3>3, <3>4, <3>5 DEF InWindow
  <2>3. CASE n \notin DOMAIN MiniHotel.dates
    <3>1. n = MiniHotel.status /\ b.status = a.filters[n]
      BY <2>1, <2>3 DEF Matches
    <3>. QED BY <2>1, <2>3, <3>1 DEF AnotherStatus
  <2>. QED BY <2>2, <2>3
<1>. QED BY <1>1, <1>2

LEMMA RecordedIsAsked == GatherInv => Recorded \subseteq Requests
BY DEF GatherInv, GatherTypeOK, DirectoryTypeOK, Recorded, File

\* A replay never leaves out a booking that the server would have given.
THEOREM ReplayIsEnough == Spec => []ReplayMissesNothing
<1>1. ASSUME GatherInv, NEW r \in Recorded, NEW a \in Populations,
             FrozenSource(r, Served(Bookings, r), a, None) # None, ~AnotherStatus(MiniHotel, r, a)
      PROVE  Served(Bookings, a) \subseteq FrozenSource(r, Served(Bookings, r), a, None)
  <2>1. IsQuestion(r) /\ IsQuestion(a)
    BY <1>1, RecordedIsAsked, QuestionsAssumption
  <2>2. Covers(MiniHotel, r, a)
    BY <1>1 DEF FrozenSource
  <2>3. ASSUME NEW b \in Bookings, Matches(MiniHotel, b, a.filters)
        PROVE  Matches(MiniHotel, b, r.filters)
    BY <1>1, <2>1, <2>2, <2>3, WiderHoldsMore
  <2>. QED BY <2>2, <2>3 DEF FrozenSource, Replayed, Served
<1>2. GatherInv => ReplayMissesNothing
  BY <1>1 DEF ReplayMissesNothing
<1>. QED BY <1>2, GatherInvInit, GatherInvStep, PTL DEF Spec

\* Every question gets one answer of the two hotels, and every field of it too.
THEOREM DemoAnswersAlike == Spec => []DemoIsTheSameHotel
<1>1. ASSUME GatherInv, NEW r \in Recorded, NEW a \in Populations
      PROVE  LET body  == Served(Bookings, r)
                 first == FrozenSource(r, body, a, None)
                 demo  == DemoSource(Translated(r), Transcoded(body), Translated(a), None)
             IN  demo = IF first = None THEN None ELSE Transcoded(first)
  <2>1. IsQuestion(r) /\ IsQuestion(a)
    BY <1>1, RecordedIsAsked, QuestionsAssumption
  <2>2. Served(Bookings, r) \in SUBSET Bookings
    BY DEF Served
  <2>. QED BY <2>1, <2>2, SourcesAlike, Zenon
<1>2. GatherInv => DemoIsTheSameHotel
  BY <1>1, DemoReadsAlike DEF DemoIsTheSameHotel
<1>. QED BY <1>2, GatherInvInit, GatherInvStep, PTL DEF Spec

===============================================================================
