----------------------------- MODULE LiveSource ------------------------------
(***************************************************************************)
(* One outbound fetch (providers/transport/http.py): paced by the bucket,  *)
(* dialled, retried when trying again could help, and recorded, in two     *)
(* writes, when a recorder is attached (providers/transport/record.py).    *)
(*                                                                         *)
(* The server is external: any dial may meet any of `Errors` or be         *)
(* answered, well-formed or not.                                           *)
(***************************************************************************)
EXTENDS TokenBucket, FiniteSets

CONSTANTS
  None, Disabled, Huge,
  Requests,     \* every question this instance may ask
  Encodable,    \* those the vendor's wire format has a form for
  Errors,       \* [code, after]: a status, None or Disabled; its Retry-After
  Backoff,      \* ticks, multiplied by the attempt
  MaxDrifts     \* how often the clock is set back

VARIABLES
  attempts,   \* LiveSource.attempts
  fetching,   \* the call in flight: [request, attempt, phase, body], or None
  got,        \* what fetch() returned or raised, until its caller looks
  dials,      \* how often each request went out
  refused,    \* requests a definite no was the answer to; a history
  answered,   \* requests a well-formed body came back for; a history
  drifts      \* how often the clock was set back

callVars == <<attempts, fetching, got, dials, refused, answered, drifts>>
sourceVars == <<bucketVars, callVars>>

NOT_AUTHORISED == {401, 403}
RETRYABLE_CLIENT_CODES == {408, 429}

\* What fetch() can end with: a body, a stated gap (ResponseUnavailable), or an
\* exception about this machine or this code, which nobody turns into a gap.
GAP == "gap"
BODIES == {"well-formed", "garbled"}
DEFECTS == {"not_authorised", "disabled", "overflow"}
RESULTS == BODIES \union DEFECTS \union {GAP}

PHASES == {"pacing", "dialling", "writing", "indexing"}
Call == [request : Requests, attempt : Nat, phase : PHASES, body : BODIES \union {None}]

ASSUME SourceAssumption ==
  /\ Encodable \subseteq Requests
  /\ Backoff \in Nat
  /\ None \notin Nat /\ None \notin BODIES /\ None \notin Call
  /\ None \notin [request : Requests, result : RESULTS]

\* Everything but bad credentials tried again, as it once was.
IsTransient_Everything(error) == error.code # Disabled /\ error.code \notin NOT_AUTHORISED

\* A failure without a status said nothing, so it is worth trying again.
IsTransient(error) ==
  \/ error.code = None
  \/ error.code \in Nat /\ (error.code >= 500 \/ error.code \in RETRYABLE_CLIENT_CODES)

\* `retry_after(exc) or self.backoff * attempt`: a wait of zero is no wait.
Delay(error, attempt) ==
  IF error.after \in Nat \ {0} THEN error.after ELSE Backoff * attempt

At(phase) == fetching # None /\ fetching.phase = phase

\* The history of definite answers: a status that says no, whatever was made of it.
DefiniteNo(error) ==
  error.code \in 400 .. 499 /\ error.code \notin RETRYABLE_CLIENT_CODES
Remember(error) ==
  refused' = IF DefiniteNo(error) THEN refused \union {fetching.request} ELSE refused

Return(result) == got' = [request |-> fetching.request, result |-> result]

SourceInit ==
  /\ BucketInit
  /\ fetching = None
  /\ got = None
  /\ dials = [q \in Requests |-> 0]
  /\ refused = {}
  /\ answered = {}
  /\ drifts = 0

\* fetch() down to the encoder, which refuses what it has no form for.
Fetch(q) ==
  /\ fetching = None
  /\ got = None
  /\ IF q \in Encodable
       THEN /\ fetching' = [request |-> q, attempt |-> 1, phase |-> "pacing", body |-> None]
            /\ UNCHANGED got
       ELSE /\ got' = [request |-> q, result |-> GAP]
            /\ UNCHANGED fetching
  /\ UNCHANGED <<bucketVars, attempts, dials, refused, answered, drifts>>

Pace ==
  /\ At("pacing")
  /\ Take
  /\ fetching' = [fetching EXCEPT !.phase = "dialling"]
  /\ dials' = [dials EXCEPT ![fetching.request] = @ + 1]
  /\ UNCHANGED <<attempts, got, refused, answered, drifts>>

\* The body is handed to the recorder, if there is one, before anybody reads it.
Answer(body, recorder) ==
  /\ At("dialling")
  /\ answered' = IF body = "well-formed" THEN answered \union {fetching.request}
                                         ELSE answered
  /\ IF recorder
       THEN /\ fetching' = [fetching EXCEPT !.phase = "writing", !.body = body]
            /\ UNCHANGED got
       ELSE /\ fetching' = None
            /\ Return(body)
  /\ UNCHANGED <<bucketVars, attempts, dials, refused, drifts>>

\* A status that will not change, raised at once: credentials about this
\* machine, a transport nobody armed, or a gap for whoever needed the answer.
Refuse(error) ==
  /\ At("dialling")
  /\ ~IsTransient(error)
  /\ fetching' = None
  /\ Return(CASE error.code = Disabled -> "disabled"
              [] error.code \in NOT_AUTHORISED -> "not_authorised"
              [] OTHER -> GAP)
  /\ Remember(error)
  /\ UNCHANGED <<bucketVars, attempts, dials, answered, drifts>>

\* Transient, and attempts are left: sleep, then queue for the bucket again. A
\* Retry-After no timedelta can hold is an OverflowError that nothing catches.
TryAgain(error) ==
  /\ At("dialling")
  /\ IsTransient(error)
  /\ fetching.attempt < attempts
  /\ IF error.after = Huge
       THEN /\ fetching' = None
            /\ Return("overflow")
            /\ UNCHANGED bucketVars
       ELSE /\ fetching' = [fetching EXCEPT !.attempt = @ + 1, !.phase = "pacing"]
            /\ Pass(Delay(error, fetching.attempt))
            /\ UNCHANGED got
  /\ Remember(error)
  /\ UNCHANGED <<attempts, dials, answered, drifts>>

GiveUp(error) ==
  /\ At("dialling")
  /\ IsTransient(error)
  /\ fetching.attempt = attempts
  /\ fetching' = None
  /\ Return(GAP)
  /\ Remember(error)
  /\ UNCHANGED <<bucketVars, attempts, dials, answered, drifts>>

\* Only take() reads the clock, so it is set back right before.
ClockSetBack ==
  /\ At("pacing")
  /\ drifts < MaxDrifts
  /\ drifts' = drifts + 1
  /\ \E ticks \in Drifts : SetBack(ticks)
  /\ UNCHANGED <<attempts, fetching, got, dials, refused, answered>>

\* "It is also never retried": a request that met a definite no is not sent again.
RefusedIsFinal == [][\A q \in refused : dials'[q] <= dials[q]]_sourceVars
==============================================================================
