----------------------------- MODULE TokenBucket -----------------------------
(***************************************************************************)
(* The limiter of outbound calls (providers/transport/ratelimit.py): up to *)
(* Capacity calls at once, one more earned every Interval.  What is banked *)
(* is counted in ticks, so a token is Interval of them and the code's      *)
(* `tokens` is banked / Interval.  The caller sleeps what take() tells it. *)
(*                                                                         *)
(* `real` is time as it passes; `clock` is what the machine shows, which a *)
(* time server may set back.                                               *)
(***************************************************************************)
EXTENDS Integers, Sequences

CONSTANTS
  Capacity,   \* calls that may go at once
  Interval,   \* ticks that earn one call
  Drifts      \* by how much the clock may be set back

ASSUME BucketAssumption ==
  /\ Capacity \in Nat \ {0}
  /\ Interval \in Nat \ {0}
  /\ Drifts \subseteq Nat

VARIABLES
  real,     \* ticks that have passed
  clock,    \* Clock.now()
  bucket,   \* [banked, at]: _tokens and _at
  gone      \* when calls went out, in order; a history

bucketVars == <<real, clock, bucket, gone>>

Full == Capacity * Interval
Later(a, b) == IF a >= b THEN a ELSE b
Least(a, b) == IF a <= b THEN a ELSE b

\* A bucket is made full: nobody passes `tokens`.
BucketInit ==
  /\ real = 0
  /\ clock = 0
  /\ bucket = [banked |-> Full, at |-> 0]
  /\ gone = <<>>

\* Time in which no call is made: the answer of a call, a backoff, a lull.
Pass(ticks) ==
  /\ real' = real + ticks
  /\ clock' = clock + ticks
  /\ UNCHANGED <<bucket, gone>>

SetBack(ticks) ==
  /\ clock' = clock - ticks
  /\ UNCHANGED <<real, bucket, gone>>

\* The bucket's time never runs back, and may be ahead of the clock's.
Now == Later(clock, bucket.at)

\* min(capacity, ...) left out: an idle hour is banked.
Banked_Uncapped == bucket.banked + (Now - bucket.at)

Banked == Least(Full, bucket.banked + (Now - bucket.at))

\* take(): a token is there, or the time until there is one is given away now.
Wait == IF Banked >= Interval THEN 0 ELSE Interval - Banked

\* take() and the sleep it asks for; then the call goes out.
Take ==
  /\ bucket' = [banked |-> IF Wait = 0 THEN Banked - Interval ELSE 0,
                at |-> Now + Wait]
  /\ real' = real + Wait
  /\ clock' = clock + Wait
  /\ gone' = Append(gone, real + Wait)

BucketNext ==
  \/ Take
  \/ \E ticks \in Nat : Pass(ticks)
  \/ \E ticks \in Drifts : SetBack(ticks)

BucketSpec == BucketInit /\ [][BucketNext]_bucketVars

BucketTypeOK ==
  /\ real \in Nat
  /\ clock \in Int
  /\ bucket \in [banked : 0 .. Full, at : Int]
  /\ gone \in Seq(Nat)

\* R8, "the bucket never banks more than its capacity": between any two calls,
\* however the callers idle and however often the clock is set back, real time
\* passes for every call beyond the first Capacity of them.
RateIsBounded ==
  \A i, j \in 1 .. Len(gone) :
    i < j => (j - i) * Interval <= (Capacity - 1) * Interval + (gone[j] - gone[i])
==============================================================================
