---------------------------- MODULE DispatchProofs ---------------------------
(***************************************************************************)
(* What holds of Dispatch for every set of tasks and of processes, every   *)
(* route table and every moment a process may end.                         *)
(***************************************************************************)
EXTENDS CalmDispatch, TLAPS

Busy == {"noting", "claiming", "sending", "releasing"}

\* A process past its read is about a task, and one about to write a note that
\* is not a release has words for it.
CallOK ==
  \A p \in Procs : /\ pc[p] \in Busy => cur[p] \in Tasks
                   /\ pc[p] = "noting" => why[p] # None

TypeInv == TypeOK /\ CallOK

\* Every step but Begin, Close and Restart, as the disjuncts of Work.
LEMMA ContinueType ==
  ASSUME TypeOK, NEW p \in Procs, NEW rest, Continue(p, rest)
  PROVE  /\ pc' \in [Procs -> Labels]
         /\ cur' \in [Procs -> Tasks \union {None}]
         /\ why' \in [Procs -> NOTES \union {None}]
         /\ pc'[p] \in {"idle", "next"}
         /\ \A q \in Procs : q # p => pc'[q] = pc[q] /\ cur'[q] = cur[q] /\ why'[q] = why[q]
BY DEF TypeOK, Continue, Goto, Labels

LEMMA InitTypes == Init => TypeInv
BY DEF Init, TypeInv, TypeOK, CallOK, Busy, Row, Labels, CLOSED, MaxDisowned

\* Writing the marker and the note of a row leaves a row.
LEMMA MarkedType ==
  ASSUME NEW row \in Row, NEW sent \in BOOLEAN, NEW words \in NOTES \union {None}
  PROVE  [row EXCEPT !.notified = sent, !.note = words] \in Row
BY DEF Row

LEMMA StepTypes == TypeInv /\ [Next]_vars => TypeInv'
<1>. SUFFICES ASSUME TypeInv, [Next]_vars PROVE TypeInv'
  OBVIOUS
<1>. USE NoneAssumption DEF TypeInv
<1>1. ASSUME NEW p \in Procs, NEW failing \in SUBSET Tasks, Begin(p, failing)
      PROVE  TypeInv'
  BY <1>1 DEF Begin, At, Goto, TypeOK, CallOK, Busy, Labels
<1>2. ASSUME NEW p \in Procs, NEW t \in Tasks, LeaveAlone(p, t)
      PROVE  TypeInv'
  <2>1. /\ pc' \in [Procs -> Labels]
        /\ cur' \in [Procs -> Tasks \union {None}]
        /\ why' \in [Procs -> NOTES \union {None}]
    BY <1>2, ContinueType DEF LeaveAlone
  <2>2. CallOK'
    BY <1>2, ContinueType DEF LeaveAlone, CallOK, Busy
  <2>3. /\ batch' \in [Procs -> SUBSET Tasks]
        /\ tried' \in SUBSET Tasks
    BY <1>2 DEF LeaveAlone, TakeUp, TypeOK
  <2>. QED BY <1>2, <2>1, <2>2, <2>3 DEF LeaveAlone, TypeOK
<1>3. ASSUME NEW p \in Procs, NEW t \in Tasks, Unroutable(p, t)
      PROVE  TypeInv'
  BY <1>3 DEF Unroutable, TakeUp, At, Goto, TypeOK, CallOK, Busy, Labels, NOTES
<1>4. ASSUME NEW p \in Procs, NEW t \in Tasks, Routable(p, t)
      PROVE  TypeInv'
  BY <1>4 DEF Routable, TakeUp, At, Goto, TypeOK, CallOK, Busy, Labels
<1>5. ASSUME NEW p \in Procs, Note(p)
      PROVE  TypeInv'
  <2>1. cur[p] \in Tasks /\ why[p] \in NOTES \union {None}
    BY <1>5 DEF Note, At, CallOK, Busy, TypeOK
  <2>2. rows' \in [Tasks -> Row] /\ tried' \in SUBSET Tasks
    BY <1>5, <2>1 DEF Note, TypeOK, Row
  <2>3. CallOK'
    BY <1>5, ContinueType DEF Note, CallOK, Busy
  <2>. QED BY <1>5, <2>2, <2>3, ContinueType DEF Note, TypeOK
<1>6. ASSUME NEW p \in Procs, Claim(p)
      PROVE  TypeInv'
  <2>1. cur[p] \in Tasks
    BY <1>6 DEF Claim, At, CallOK, Busy
  <2>2. rows' \in [Tasks -> Row]
    <3>1. rows[cur[p]] \in Row
      BY <2>1 DEF TypeOK
    <3>2. [rows[cur[p]] EXCEPT !.notified = TRUE, !.note = None] \in Row
      BY <3>1, MarkedType
    <3>. QED BY <1>6, <2>1, <3>2 DEF Claim, TypeOK
  <2>3. pc' = [pc EXCEPT ![p] = "sending"] /\ cur' = cur /\ why' = why
    BY <1>6 DEF Claim, Goto
  <2>4. TypeOK'
    BY <1>6, <2>2, <2>3 DEF Claim, TypeOK, Labels
  <2>5. CallOK'
    BY <2>1, <2>3 DEF TypeOK, CallOK, Busy
  <2>. QED BY <2>4, <2>5
<1>7. ASSUME NEW p \in Procs, LoseClaim(p)
      PROVE  TypeInv'
  <2>1. tried' \in SUBSET Tasks
    BY <1>7 DEF LoseClaim, At, CallOK, Busy, TypeOK
  <2>2. CallOK'
    BY <1>7, ContinueType DEF LoseClaim, CallOK, Busy
  <2>. QED BY <1>7, <2>1, <2>2, ContinueType DEF LoseClaim, TypeOK
<1>8. ASSUME NEW p \in Procs, Release(p)
      PROVE  TypeInv'
  <2>1. cur[p] \in Tasks /\ why[p] \in NOTES \union {None}
    BY <1>8 DEF Release, At, CallOK, Busy, TypeOK
  <2>2. rows' \in [Tasks -> Row] /\ tried' \in SUBSET Tasks
    <3>0. rows[cur[p]] \in Row
      BY <2>1 DEF TypeOK
    <3>1. [rows[cur[p]] EXCEPT !.notified = FALSE, !.note = why[p]] \in Row
      BY <2>1, <3>0, MarkedType
    <3>2. rows' \in [Tasks -> Row]
      BY <1>8, <2>1, <3>1 DEF Release, TypeOK
    <3>3. tried' \in SUBSET Tasks
      BY <1>8, <2>1 DEF Release, TypeOK
    <3>. QED BY <3>2, <3>3
  <2>3. CallOK'
    BY <1>8, ContinueType DEF Release, CallOK, Busy
  <2>. QED BY <1>8, <2>2, <2>3, ContinueType DEF Release, TypeOK
<1>9. ASSUME NEW p \in Procs, Accept(p)
      PROVE  TypeInv'
  <2>1. cur[p] \in Tasks
    BY <1>9 DEF Accept, At, CallOK, Busy
  <2>2. accepted' \in [Tasks -> Nat] /\ tried' \in SUBSET Tasks
    BY <1>9, <2>1 DEF Accept, TypeOK
  <2>3. CallOK'
    BY <1>9, ContinueType DEF Accept, CallOK, Busy
  <2>. QED BY <1>9, <2>2, <2>3, ContinueType DEF Accept, TypeOK
<1>10. ASSUME NEW p \in Procs, Refuse(p)
       PROVE  TypeInv'
  BY <1>10 DEF Refuse, At, Goto, TypeOK, CallOK, Busy, Labels, NOTES
<1>11. ASSUME NEW p \in Procs, AcceptThenFail(p)
       PROVE  TypeInv'
  <2>1. cur[p] \in Tasks
    BY <1>11 DEF AcceptThenFail, At, CallOK, Busy
  <2>2. disowned' \in [Tasks -> 0 .. MaxDisowned]
    BY <1>11, <2>1 DEF AcceptThenFail, TypeOK, MaxDisowned
  <2>. QED BY <1>11, <2>2 DEF AcceptThenFail, At, Goto, TypeOK, CallOK, Busy, Labels, NOTES
<1>12. ASSUME NEW p \in Procs, Defect(p)
       PROVE  TypeInv'
  BY <1>12 DEF Defect, At, Goto, TypeOK, CallOK, Busy, Labels
<1>13. ASSUME NEW p \in Procs, NEW t \in Tasks, NEW state \in CLOSED, Close(p, t, state)
       PROVE  TypeInv'
  <2>1. rows' \in [Tasks -> Row]
    BY <1>13 DEF Close, TypeOK, Row
  <2>. QED BY <1>13, <2>1 DEF Close, TypeOK, CallOK
<1>14. ASSUME NEW p \in Procs, NEW table \in RouteTables, Restart(p, table)
       PROVE  TypeInv'
  <2>1. CallOK'
    BY <1>14, ContinueType DEF Restart, CallOK, Busy
  <2>. QED BY <1>14, <2>1, ContinueType DEF Restart, TypeOK
<1>15. CASE UNCHANGED vars
  BY <1>15 DEF vars, TypeOK, CallOK
<1>. QED
  BY <1>1, <1>2, <1>3, <1>4, <1>5, <1>6, <1>7, <1>8, <1>9, <1>10, <1>11, <1>12,
     <1>13, <1>14, <1>15 DEF Next, Step, Undisturbed, Work

\* The variables of Dispatch have their types in every reachable state.
THEOREM TypeCorrect == Spec => []TypeOK
<1>1. TypeInv => TypeOK
  BY DEF TypeInv
<1>. QED BY <1>1, InitTypes, StepTypes, PTL DEF Spec

------------------------------------------------------------------------------
(* What the steps do to the right to mail a task: most nothing, and the     *)
(* rest one of four things.                                                 *)

Holding  == [p \in Procs |-> IF pc[p] \in {"sending", "releasing"} THEN cur[p] ELSE None]
Notified == [t \in Tasks |-> rows[t].notified]

Quiet == /\ Holding' = Holding
         /\ Notified' = Notified
         /\ accepted' = accepted

Taken(p, t) == /\ Holding[p] = None
               /\ ~Notified[t]
               /\ Holding' = [Holding EXCEPT ![p] = t]
               /\ Notified' = [Notified EXCEPT ![t] = TRUE]
               /\ accepted' = accepted

Dropped(p, t) == /\ Holding[p] = t
                 /\ Holding' = [Holding EXCEPT ![p] = None]

Posted(p, t) == /\ Dropped(p, t)
                /\ Notified' = Notified
                /\ accepted' = [accepted EXCEPT ![t] = @ + 1]

Returned(p, t) == /\ Dropped(p, t)
                  /\ Notified' = [Notified EXCEPT ![t] = FALSE]
                  /\ accepted' = accepted

Lost(p, t) == /\ CanCrash
              /\ Dropped(p, t)
              /\ Notified' = Notified
              /\ accepted' = accepted

\* What a process that lives does to the claims, and what its end may.
LivingEffect == Quiet \/ \E p \in Procs, t \in Tasks :
                           Taken(p, t) \/ Posted(p, t) \/ Returned(p, t)

Effect == LivingEffect \/ \E p \in Procs, t \in Tasks : Lost(p, t)

\* A process that goes on to the next task holds nothing afterwards.
LEMMA ContinueDrops ==
  ASSUME TypeInv, NEW p \in Procs, NEW rest, Continue(p, rest)
  PROVE  Holding' = [Holding EXCEPT ![p] = None]
BY ContinueType DEF Holding, TypeInv

\* Nor does one that only moves between two labels short of the send.
LEMMA GotoKeeps ==
  ASSUME TypeInv, NEW p \in Procs, NEW label, Goto(p, label),
         pc[p] \notin {"sending", "releasing"}, label \notin {"sending", "releasing"},
         \A q \in Procs : q # p => cur'[q] = cur[q]
  PROVE  Holding' = Holding
BY DEF Holding, Goto, TypeInv, TypeOK

LEMMA EffectOfLiving ==
  TypeInv /\ ((\E p \in Procs : Undisturbed(p)) \/ UNCHANGED vars) => LivingEffect
<1>. SUFFICES ASSUME TypeInv, (\E p \in Procs : Undisturbed(p)) \/ UNCHANGED vars
              PROVE  LivingEffect
  OBVIOUS
<1>. USE NoneAssumption
<1>0. \A p \in Procs : /\ pc[p] \notin {"sending", "releasing"} => Holding[p] = None
                       /\ pc[p] \in {"sending", "releasing"} =>
                            cur[p] \in Tasks /\ Holding[p] = cur[p]
  BY DEF Holding, TypeInv, CallOK, Busy
<1>1. \A p \in Procs : Holding[p] = None => [Holding EXCEPT ![p] = None] = Holding
  BY DEF Holding
<1>2. ASSUME NEW p \in Procs, NEW failing \in SUBSET Tasks, Begin(p, failing)
      PROVE  LivingEffect
  <2>1. Holding' = Holding
    BY <1>2, GotoKeeps DEF Begin, At
  <2>. QED BY <1>2, <2>1 DEF Begin, LivingEffect, Quiet, Notified
<1>3. ASSUME NEW p \in Procs, NEW t \in Tasks, LeaveAlone(p, t)
      PROVE  LivingEffect
  <2>1. Holding' = Holding
    BY <1>0, <1>1, <1>3, ContinueDrops DEF LeaveAlone, TakeUp, At
  <2>. QED BY <1>3, <2>1 DEF LeaveAlone, LivingEffect, Quiet, Notified
<1>4. ASSUME NEW p \in Procs, NEW t \in Tasks, Unroutable(p, t) \/ Routable(p, t)
      PROVE  LivingEffect
  <2>1. Holding' = Holding
    BY <1>4, GotoKeeps DEF Unroutable, Routable, TakeUp, At, TypeInv, TypeOK
  <2>. QED BY <1>4, <2>1 DEF Unroutable, Routable, LivingEffect, Quiet, Notified
<1>5. ASSUME NEW p \in Procs, Note(p)
      PROVE  LivingEffect
  <2>1. Holding' = Holding
    BY <1>0, <1>1, <1>5, ContinueDrops DEF Note, At
  <2>2. cur[p] \in Tasks
    BY <1>0, <1>5 DEF Note, At, TypeInv, CallOK, Busy
  <2>3. \A t \in Tasks : rows'[t].notified = rows[t].notified
    <3>1. CASE rows' = rows
      BY <3>1
    <3>2. CASE rows' = [rows EXCEPT ![cur[p]].note = why[p]]
      BY <2>2, <3>2 DEF TypeInv, TypeOK, Row
    <3>. QED BY <1>5, <3>1, <3>2 DEF Note
  <2>4. Notified' = Notified
    BY <2>3 DEF Notified
  <2>. QED BY <1>5, <2>1, <2>4 DEF Note, LivingEffect, Quiet
<1>6. ASSUME NEW p \in Procs, Claim(p)
      PROVE  LivingEffect
  <2>1. cur[p] \in Tasks /\ Holding[p] = None
    BY <1>0, <1>6 DEF Claim, At, TypeInv, CallOK, Busy
  <2>2. Holding' = [Holding EXCEPT ![p] = cur[p]]
    BY <1>6 DEF Claim, At, Goto, Holding, TypeInv, TypeOK
  <2>3. Notified' = [Notified EXCEPT ![cur[p]] = TRUE] /\ ~Notified[cur[p]]
    <3>1. \A t \in Tasks : rows'[t].notified = IF t = cur[p] THEN TRUE ELSE rows[t].notified
      BY <1>6, <2>1 DEF Claim, TypeInv, TypeOK, Row
    <3>2. ~rows[cur[p]].notified
      BY <1>6 DEF Claim
    <3>. QED BY <2>1, <3>1, <3>2 DEF Notified
  <2>4. Taken(p, cur[p])
    BY <1>6, <2>1, <2>2, <2>3 DEF Claim, Taken
  <2>. QED BY <2>1, <2>4 DEF LivingEffect
<1>7. ASSUME NEW p \in Procs, LoseClaim(p)
      PROVE  LivingEffect
  <2>1. Holding' = Holding
    BY <1>0, <1>1, <1>7, ContinueDrops DEF LoseClaim, At
  <2>. QED BY <1>7, <2>1 DEF LoseClaim, LivingEffect, Quiet, Notified
<1>8. ASSUME NEW p \in Procs, Release(p)
      PROVE  LivingEffect
  <2>1. cur[p] \in Tasks /\ Dropped(p, cur[p])
    BY <1>0, <1>8, ContinueDrops DEF Release, At, Dropped
  <2>2. Notified' = [Notified EXCEPT ![cur[p]] = FALSE]
    <3>1. \A t \in Tasks : rows'[t].notified = IF t = cur[p] THEN FALSE ELSE rows[t].notified
      BY <1>8, <2>1 DEF Release, TypeInv, TypeOK, Row
    <3>. QED BY <2>1, <3>1 DEF Notified
  <2>3. Returned(p, cur[p])
    BY <1>8, <2>1, <2>2 DEF Release, Returned
  <2>. QED BY <2>1, <2>3 DEF LivingEffect
<1>9. ASSUME NEW p \in Procs, Accept(p)
      PROVE  LivingEffect
  <2>1. cur[p] \in Tasks /\ Dropped(p, cur[p])
    BY <1>0, <1>9, ContinueDrops DEF Accept, At, Dropped
  <2>2. Posted(p, cur[p])
    BY <1>9, <2>1 DEF Accept, Posted, Notified
  <2>. QED BY <2>1, <2>2 DEF LivingEffect
<1>10. ASSUME NEW p \in Procs, Refuse(p) \/ AcceptThenFail(p) \/ Defect(p)
       PROVE  LivingEffect
  <2>1. Holding' = Holding
    BY <1>10 DEF Refuse, AcceptThenFail, Defect, At, Goto, Holding, TypeInv, TypeOK
  <2>. QED BY <1>10, <2>1 DEF Refuse, AcceptThenFail, Defect, LivingEffect, Quiet, Notified
<1>12. ASSUME NEW p \in Procs, NEW t \in Tasks, NEW state \in CLOSED, Close(p, t, state)
       PROVE  LivingEffect
  <2>1. Notified' = Notified
    BY <1>12 DEF Close, Notified, TypeInv, TypeOK, Row
  <2>. QED BY <1>12, <2>1 DEF Close, LivingEffect, Quiet, Holding
<1>14. CASE UNCHANGED vars
  BY <1>14 DEF vars, LivingEffect, Quiet, Holding, Notified
<1>. QED
  BY <1>2, <1>3, <1>4, <1>5, <1>6, <1>7, <1>8, <1>9, <1>10, <1>12, <1>14
  DEF Undisturbed, Work

LEMMA EffectOfStep == TypeInv /\ [Next]_vars => Effect
<1>. SUFFICES ASSUME TypeInv, [Next]_vars PROVE Effect
  OBVIOUS
<1>. USE NoneAssumption
<1>1. ASSUME NEW p \in Procs, NEW table \in RouteTables, Restart(p, table)
      PROVE  Effect
  <2>1. Holding' = [Holding EXCEPT ![p] = None] /\ Notified' = Notified /\ accepted' = accepted
    BY <1>1, ContinueDrops DEF Restart, Notified
  <2>2. CASE Holding[p] = None
    <3>1. [Holding EXCEPT ![p] = None] = Holding
      BY <2>2 DEF Holding
    <3>. QED BY <2>1, <3>1 DEF Effect, LivingEffect, Quiet
  <2>3. CASE Holding[p] # None
    <3>1. pc[p] \in {"sending", "releasing"} /\ Holding[p] = cur[p] /\ cur[p] \in Tasks
      BY <2>3 DEF Holding, TypeInv, CallOK, Busy
    <3>2. CanCrash
      BY <1>1, <3>1 DEF Restart, At
    <3>3. Lost(p, cur[p])
      BY <2>1, <3>1, <3>2 DEF Lost, Dropped
    <3>. QED BY <3>1, <3>3 DEF Effect, LivingEffect
  <2>. QED BY <2>2, <2>3
<1>. QED BY <1>1, EffectOfLiving DEF Next, Step, Effect

\* The inductive invariant: a claim has one holder, whose task is marked and has
\* not been received yet; an unmarked task was never received.
ClaimInv ==
  /\ \A p, q \in Procs : Holding[p] # None /\ Holding[p] = Holding[q] => p = q
  /\ \A p \in Procs : Holding[p] # None =>
       Notified[Holding[p]] /\ accepted[Holding[p]] = 0
  /\ \A t \in Tasks : ~Notified[t] => accepted[t] = 0
  /\ AtMostOneEmail

LEMMA Shapes ==
  TypeInv => /\ Holding \in [Procs -> Tasks \union {None}]
             /\ Notified \in [Tasks -> BOOLEAN]
             /\ accepted \in [Tasks -> Nat]
BY DEF TypeInv, TypeOK, Holding, Notified, Row

LEMMA ClaimInvInit == Init => ClaimInv
BY DEF Init, ClaimInv, Holding, Notified, AtMostOneEmail

LEMMA ClaimInvNext == TypeInv /\ ClaimInv /\ Effect => ClaimInv'
<1>. SUFFICES ASSUME TypeInv, ClaimInv, Effect PROVE ClaimInv'
  OBVIOUS
<1>. USE NoneAssumption, Shapes
<1>1. CASE Quiet
  BY <1>1 DEF Quiet, ClaimInv, AtMostOneEmail
<1>2. ASSUME NEW p \in Procs, NEW t \in Tasks, Taken(p, t) PROVE ClaimInv'
  BY <1>2 DEF Taken, ClaimInv, AtMostOneEmail
<1>3. ASSUME NEW p \in Procs, NEW t \in Tasks, Posted(p, t) PROVE ClaimInv'
  BY <1>3 DEF Posted, Dropped, ClaimInv, AtMostOneEmail
<1>4. ASSUME NEW p \in Procs, NEW t \in Tasks, Returned(p, t) PROVE ClaimInv'
  BY <1>4 DEF Returned, Dropped, ClaimInv, AtMostOneEmail
<1>5. ASSUME NEW p \in Procs, NEW t \in Tasks, Lost(p, t) PROVE ClaimInv'
  BY <1>5 DEF Lost, Dropped, ClaimInv, AtMostOneEmail
<1>. QED BY <1>1, <1>2, <1>3, <1>4, <1>5 DEF Effect, LivingEffect

\* Whatever dispatches race, fail (late or not), crash and are repeated, at most
\* one send of a task succeeds.
THEOREM MailedAtMostOnce == Spec => []AtMostOneEmail
<1>1. TypeInv /\ ClaimInv /\ [Next]_vars => ClaimInv'
  BY EffectOfStep, ClaimInvNext
<1>2. ClaimInv => AtMostOneEmail
  BY DEF ClaimInv
<1>. QED BY <1>1, <1>2, InitTypes, StepTypes, ClaimInvInit, PTL DEF Spec

------------------------------------------------------------------------------
\* Marker is a function of who holds what and of the markers.
MarkerByHolding ==
  \A t \in Tasks :
    Marker(t) = IF \E p \in Procs : Holding[p] = t THEN "held"
                ELSE IF Notified[t] THEN "spent" ELSE "free"

LEMMA MarkerOf == MarkerByHolding
<1>1. \A t \in Tasks : Held(t) <=> \E p \in Procs : Holding[p] = t
  BY NoneAssumption DEF Held, Holds, Holding
<1>. QED BY <1>1 DEF MarkerByHolding, Marker, Notified

LEMMA AbstractStep ==
  TypeInv /\ ClaimInv /\ TypeInv' /\ Effect => [Abstract!Next]_(Abstract!vars)
<1>. DEFINE mark == [t \in Tasks |-> Marker(t)]
<1>. SUFFICES ASSUME TypeInv, ClaimInv, TypeInv', Effect
              PROVE  [Abstract!Next]_(Abstract!vars)
  OBVIOUS
<1>. USE NoneAssumption, Shapes
<1>a. MarkerByHolding /\ MarkerByHolding'
  BY MarkerOf, PTL
<1>0. /\ \A t \in Tasks : mark[t] = IF \E p \in Procs : Holding[p] = t THEN "held"
                                    ELSE IF Notified[t] THEN "spent" ELSE "free"
      /\ \A t \in Tasks : mark'[t] = IF \E p \in Procs : Holding'[p] = t THEN "held"
                                     ELSE IF Notified'[t] THEN "spent" ELSE "free"
      /\ mark = [t \in Tasks |-> mark[t]]
      /\ mark' = [t \in Tasks |-> mark'[t]]
  BY <1>a DEF MarkerByHolding
<1>. HIDE DEF mark
<1>1. CASE Quiet
  <2>1. mark' = mark
    BY <1>0, <1>1 DEF Quiet
  <2>. QED BY <1>1, <2>1 DEF Quiet, Abstract!vars, mark
<1>2. ASSUME NEW p \in Procs, NEW t \in Tasks, Taken(p, t)
      PROVE  Abstract!Next
  <2>1. mark[t] = "free"
    BY <1>0, <1>2 DEF Taken, ClaimInv
  <2>2. mark' = [mark EXCEPT ![t] = "held"]
    <3>1. \A u \in Tasks : mark'[u] = IF u = t THEN "held" ELSE mark[u]
      BY <1>0, <1>2 DEF Taken
    <3>. QED BY <1>0, <3>1
  <2>3. Abstract!Take(t)
    BY <1>2, <2>1, <2>2 DEF Taken, Abstract!Take, mark
  <2>. QED BY <2>3 DEF Abstract!Next
<1>3. ASSUME NEW p \in Procs, NEW t \in Tasks, Dropped(p, t), Notified' = Notified
      PROVE  mark[t] = "held" /\ mark' = [mark EXCEPT ![t] = "spent"]
  <2>1. mark[t] = "held"
    BY <1>0, <1>3 DEF Dropped
  <2>2. \A u \in Tasks : mark'[u] = IF u = t THEN "spent" ELSE mark[u]
    BY <1>0, <1>3 DEF Dropped, ClaimInv
  <2>. QED BY <1>0, <2>1, <2>2
<1>4. ASSUME NEW p \in Procs, NEW t \in Tasks, Posted(p, t)
      PROVE  Abstract!Next
  <2>1. Abstract!Post(t)
    BY <1>3, <1>4 DEF Posted, Abstract!Post, mark
  <2>. QED BY <2>1 DEF Abstract!Next
<1>5. ASSUME NEW p \in Procs, NEW t \in Tasks, Lost(p, t)
      PROVE  Abstract!Next
  <2>1. Abstract!Lose(t)
    BY <1>3, <1>5 DEF Lost, Abstract!Lose, mark
  <2>. QED BY <2>1 DEF Abstract!Next
<1>6. ASSUME NEW p \in Procs, NEW t \in Tasks, Returned(p, t)
      PROVE  Abstract!Next
  <2>1. mark[t] = "held"
    BY <1>0, <1>6 DEF Returned, Dropped
  <2>2. \A u \in Tasks : mark'[u] = IF u = t THEN "free" ELSE mark[u]
    BY <1>0, <1>6 DEF Returned, Dropped, ClaimInv
  <2>3. mark' = [mark EXCEPT ![t] = "free"]
    BY <1>0, <2>2
  <2>4. Abstract!GiveBack(t)
    BY <1>6, <2>1, <2>3 DEF Returned, Abstract!GiveBack, mark
  <2>. QED BY <2>4 DEF Abstract!Next
<1>. QED BY <1>1, <1>2, <1>4, <1>5, <1>6 DEF Effect, LivingEffect

\* Dispatch implements MailOnce: the sent marker is a right that is taken, spent
\* or given back, and each step of a dispatch is one of those moves or none.
THEOREM DispatchImplementsMailOnce == Spec => ImplementsMailOnce
<1>1. Init => Abstract!Init
  BY NoneAssumption DEF Init, Abstract!Init, Marker, Held, Holds
<1>2. TypeInv /\ ClaimInv /\ [Next]_vars => ClaimInv'
  BY EffectOfStep, ClaimInvNext
<1>3. TypeInv /\ ClaimInv /\ TypeInv' /\ [Next]_vars => [Abstract!Next]_(Abstract!vars)
  BY EffectOfStep, AbstractStep
<1>. QED BY <1>1, <1>2, <1>3, InitTypes, StepTypes, ClaimInvInit, PTL
         DEF Spec, ImplementsMailOnce, Abstract!Spec

------------------------------------------------------------------------------
\* A row is written by four steps only, and each of them keeps a marked row free
\* of a note.
LEMMA NoteNext == TypeInv /\ NoteOnlyOnUnsent /\ [Next]_vars => NoteOnlyOnUnsent'
<1>. SUFFICES ASSUME TypeInv, NoteOnlyOnUnsent, [Next]_vars PROVE NoteOnlyOnUnsent'
  OBVIOUS
<1>1. CASE UNCHANGED rows
  BY <1>1 DEF NoteOnlyOnUnsent
<1>2. ASSUME NEW p \in Procs, Note(p)
      PROVE  NoteOnlyOnUnsent'
  <2>1. cur[p] \in Tasks
    BY <1>2 DEF Note, At, TypeInv, CallOK, Busy
  <2>2. CASE rows[cur[p]].notified
    BY <1>1, <1>2, <2>2 DEF Note
  <2>3. CASE ~rows[cur[p]].notified
    <3>1. rows' = [rows EXCEPT ![cur[p]].note = why[p]]
      BY <1>2, <2>3 DEF Note
    <3>. QED BY <2>1, <2>3, <3>1 DEF NoteOnlyOnUnsent, TypeInv, TypeOK, Row
  <2>. QED BY <2>2, <2>3
<1>3. ASSUME NEW p \in Procs, Claim(p)
      PROVE  NoteOnlyOnUnsent'
  <2>1. cur[p] \in Tasks
    BY <1>3 DEF Claim, At, TypeInv, CallOK, Busy
  <2>2. rows' = [rows EXCEPT ![cur[p]] = [@ EXCEPT !.notified = TRUE, !.note = None]]
    BY <1>3 DEF Claim
  <2>3. \A t \in Tasks : rows'[t].note = IF t = cur[p] THEN None ELSE rows[t].note
    BY <2>1, <2>2 DEF TypeInv, TypeOK, Row
  <2>4. \A t \in Tasks : t # cur[p] => rows'[t].notified = rows[t].notified
    BY <2>1, <2>2 DEF TypeInv, TypeOK, Row
  <2>. QED BY <2>3, <2>4 DEF NoteOnlyOnUnsent
<1>4. ASSUME NEW p \in Procs, Release(p)
      PROVE  NoteOnlyOnUnsent'
  <2>1. cur[p] \in Tasks
    BY <1>4 DEF Release, At, TypeInv, CallOK, Busy
  <2>2. rows' = [rows EXCEPT ![cur[p]] = [@ EXCEPT !.notified = FALSE, !.note = why[p]]]
    BY <1>4 DEF Release
  <2>3. ~rows'[cur[p]].notified
    BY <2>1, <2>2 DEF TypeInv, TypeOK, Row
  <2>4. \A t \in Tasks : t # cur[p] => rows'[t] = rows[t]
    BY <2>1, <2>2 DEF TypeInv, TypeOK
  <2>. QED BY <2>3, <2>4 DEF NoteOnlyOnUnsent
<1>5. ASSUME NEW p \in Procs, NEW t \in Tasks, NEW state \in CLOSED, Close(p, t, state)
      PROVE  NoteOnlyOnUnsent'
  BY <1>5 DEF Close, NoteOnlyOnUnsent, TypeInv, TypeOK, Row
<1>6. ASSUME NEW p \in Procs,
             \/ \E failing \in SUBSET Tasks : Begin(p, failing)
             \/ \E t \in Tasks : LeaveAlone(p, t) \/ Unroutable(p, t) \/ Routable(p, t)
             \/ LoseClaim(p) \/ Accept(p) \/ Refuse(p) \/ AcceptThenFail(p) \/ Defect(p)
             \/ \E table \in RouteTables : Restart(p, table)
      PROVE  UNCHANGED rows
  BY <1>6 DEF Begin, LeaveAlone, Unroutable, Routable, LoseClaim, Accept, Refuse,
              AcceptThenFail, Defect, Restart
<1>7. CASE UNCHANGED vars
  BY <1>1, <1>7 DEF vars
<1>. QED BY <1>1, <1>2, <1>3, <1>4, <1>5, <1>6, <1>7 DEF Next, Step, Undisturbed, Work

\* A claimed or sent task carries no note, whatever the backend reports and
\* whichever dispatch read the row before the claim.
THEOREM NotesAreOnUnsentTasks == Spec => []NoteOnlyOnUnsent
<1>1. Init => NoteOnlyOnUnsent
  BY DEF Init, NoteOnlyOnUnsent
<1>. QED BY <1>1, InitTypes, StepTypes, NoteNext, PTL DEF Spec

------------------------------------------------------------------------------
(* One process serves everybody: what it read of a row is still so when it  *)
(* sends, because the only other writer of the state is itself, when idle.  *)

OneProcess == \A p, q \in Procs : p = q

\* From its read to the end of the send, the task a process is about is pending.
StillPending ==
  \A p \in Procs : pc[p] \in {"claiming", "sending"} => rows[cur[p]].state = PENDING

LEMMA StillPendingNext ==
  OneProcess /\ TypeInv /\ StillPending /\ [Next]_vars => StillPending'
<1>. SUFFICES ASSUME OneProcess, TypeInv, StillPending, [Next]_vars PROVE StillPending'
  OBVIOUS
<1>1. ASSUME NEW p \in Procs, pc'[p] \notin {"claiming", "sending"}
      PROVE  StillPending'
  BY <1>1 DEF OneProcess, StillPending
<1>2. ASSUME NEW p \in Procs,
             \/ \E failing \in SUBSET Tasks : Begin(p, failing)
             \/ \E t \in Tasks : LeaveAlone(p, t) \/ Unroutable(p, t)
             \/ Note(p) \/ LoseClaim(p) \/ Release(p)
             \/ Accept(p) \/ Refuse(p) \/ AcceptThenFail(p) \/ Defect(p)
             \/ \E t \in Tasks, state \in CLOSED : Close(p, t, state)
             \/ \E table \in RouteTables : Restart(p, table)
      PROVE  pc'[p] \notin {"claiming", "sending"}
  BY <1>2, ContinueType DEF Begin, LeaveAlone, Unroutable, Note, LoseClaim, Release, Accept,
     Refuse, AcceptThenFail, Defect, Close, Restart, At, Goto, TypeInv, TypeOK
<1>3. ASSUME NEW p \in Procs, NEW t \in Tasks, Routable(p, t)
      PROVE  StillPending'
  <2>1. cur'[p] = t /\ rows' = rows /\ rows[t].state = PENDING
    BY <1>3 DEF Routable, Settled, TypeInv, TypeOK
  <2>. QED BY <2>1 DEF OneProcess, StillPending
<1>4. ASSUME NEW p \in Procs, Claim(p)
      PROVE  StillPending'
  <2>1. cur[p] \in Tasks /\ rows[cur[p]].state = PENDING /\ cur' = cur
    BY <1>4 DEF Claim, At, StillPending, TypeInv, CallOK, Busy
  <2>2. rows'[cur[p]].state = PENDING
    BY <1>4, <2>1 DEF Claim, TypeInv, TypeOK, Row
  <2>. QED BY <2>1, <2>2 DEF OneProcess, StillPending
<1>5. CASE UNCHANGED vars
  BY <1>5 DEF vars, StillPending
<1>. QED BY <1>1, <1>2, <1>3, <1>4, <1>5 DEF Next, Step, Undisturbed, Work

\* While one process serves everybody, a closed task is never emailed, whatever
\* its backend does and wherever it ends.
THEOREM OneProcessHeedsClosing == OneProcess => (Spec => ClosedIsNeverEmailed)
<1>. SUFFICES ASSUME OneProcess PROVE Spec => ClosedIsNeverEmailed
  OBVIOUS
<1>. DEFINE Unmailed == \A t \in Tasks : rows[t].state # PENDING =>
                          accepted'[t] = accepted[t] /\ disowned'[t] = disowned[t]
<1>1. Init => StillPending
  BY DEF Init, StillPending
<1>2. TypeInv /\ StillPending /\ [Next]_vars => StillPending'
  BY StillPendingNext
<1>3. TypeInv /\ StillPending /\ [Next]_vars => [Unmailed]_vars
  <2>. SUFFICES ASSUME TypeInv, StillPending, Next PROVE Unmailed
    OBVIOUS
  <2>1. ASSUME NEW p \in Procs, Accept(p) \/ AcceptThenFail(p)
        PROVE  Unmailed
    <3>1. cur[p] \in Tasks /\ rows[cur[p]].state = PENDING
      BY <2>1 DEF Accept, AcceptThenFail, At, StillPending, TypeInv, CallOK, Busy
    <3>. QED BY <2>1, <3>1 DEF Accept, AcceptThenFail, TypeInv, TypeOK
  <2>2. CASE UNCHANGED <<accepted, disowned>>
    BY <2>2
  <2>. QED BY <2>1, <2>2 DEF Next, Step, Undisturbed, Work, Begin, LeaveAlone, Unroutable, Routable, Note,
              Claim, LoseClaim, Release, Refuse, Defect, Close, Restart
<1>. QED BY <1>1, <1>2, <1>3, InitTypes, StepTypes, PTL DEF Spec, ClosedIsNeverEmailed
------------------------------------------------------------------------------
(* Who has been told about a task, and who has only been tried.             *)

\* One step returns for at most one task, and says why on it or finds it sent;
\* on the other tasks nothing is said less than before.
LEMMA WhyNext ==
  TypeInv /\ ClaimInv /\ UnsentSaysWhy /\ [Next]_vars => UnsentSaysWhy'
<1>. SUFFICES ASSUME TypeInv, ClaimInv, UnsentSaysWhy, [Next]_vars PROVE UnsentSaysWhy'
  OBVIOUS
<1>. USE NoneAssumption
<1>0. \A p \in Procs : pc[p] \in Busy => cur[p] \in Tasks
  BY DEF TypeInv, CallOK
<1>1. ASSUME NEW p \in Procs, NEW t \in Tasks, LeaveAlone(p, t)
      PROVE  UnsentSaysWhy'
  BY <1>1 DEF LeaveAlone, Settled, UnsentSaysWhy
<1>2. ASSUME NEW p \in Procs, Note(p)
      PROVE  UnsentSaysWhy'
  <2>1. cur[p] \in Tasks /\ why[p] # None
    BY <1>0, <1>2 DEF Note, At, Busy, TypeInv, CallOK
  <2>2. \A t \in Tasks \ {cur[p]} : rows'[t] = rows[t]
    BY <1>2, <2>1 DEF Note, TypeInv, TypeOK
  <2>3. ~rows'[cur[p]].notified => rows'[cur[p]].note # None
    BY <1>2, <2>1 DEF Note, TypeInv, TypeOK, Row
  <2>4. tried' = tried \union {cur[p]}
    BY <1>2 DEF Note
  <2>. QED BY <2>2, <2>3, <2>4 DEF UnsentSaysWhy, TypeInv, TypeOK
<1>3. ASSUME NEW p \in Procs, Claim(p)
      PROVE  UnsentSaysWhy'
  <2>1. cur[p] \in Tasks
    BY <1>0, <1>3 DEF Claim, At, Busy
  <2>2. \A t \in Tasks \ {cur[p]} : rows'[t] = rows[t]
    BY <1>3, <2>1 DEF Claim, TypeInv, TypeOK
  <2>3. rows'[cur[p]].notified
    BY <1>3, <2>1 DEF Claim, TypeInv, TypeOK, Row
  <2>4. tried' = tried
    BY <1>3 DEF Claim
  <2>. QED BY <2>2, <2>3, <2>4 DEF UnsentSaysWhy, TypeInv, TypeOK
<1>4. ASSUME NEW p \in Procs, LoseClaim(p)
      PROVE  UnsentSaysWhy'
  BY <1>4 DEF LoseClaim, UnsentSaysWhy
<1>5. ASSUME NEW p \in Procs, Release(p)
      PROVE  UnsentSaysWhy'
  <2>1. cur[p] \in Tasks
    BY <1>0, <1>5 DEF Release, At, Busy
  <2>2. rows' = [rows EXCEPT ![cur[p]] = [@ EXCEPT !.notified = FALSE, !.note = why[p]]]
    BY <1>5 DEF Release
  <2>3. \A t \in Tasks \ {cur[p]} : rows'[t] = rows[t]
    BY <2>1, <2>2 DEF TypeInv, TypeOK
  <2>4. rows'[cur[p]].note = why[p]
    BY <2>1, <2>2 DEF TypeInv, TypeOK, Row
  <2>5. tried' = IF why[p] = None THEN tried \ {cur[p]} ELSE tried \union {cur[p]}
    BY <1>5 DEF Release
  <2>. QED BY <2>3, <2>4, <2>5 DEF UnsentSaysWhy, TypeInv, TypeOK
<1>6. ASSUME NEW p \in Procs, Accept(p)
      PROVE  UnsentSaysWhy'
  <2>1. cur[p] \in Tasks /\ Holding[p] = cur[p] /\ cur[p] # None
    BY <1>0, <1>6 DEF Accept, At, Busy, Holding
  <2>2. rows[cur[p]].notified
    BY <2>1 DEF ClaimInv, Notified
  <2>. QED BY <1>6, <2>2 DEF Accept, UnsentSaysWhy
<1>7. ASSUME NEW p \in Procs, NEW t \in Tasks, NEW state \in CLOSED, Close(p, t, state)
      PROVE  UnsentSaysWhy'
  <2>1. /\ rows' = [rows EXCEPT ![t].state = state] /\ tried' = tried
        /\ state # PENDING
    BY <1>7 DEF Close, CLOSED, PENDING
  <2>2. rows'[t].state # PENDING
    BY <2>1 DEF TypeInv, TypeOK, Row
  <2>3. \A u \in Tasks \ {t} : rows'[u] = rows[u]
    BY <2>1 DEF TypeInv, TypeOK
  <2>. QED BY <2>1, <2>2, <2>3 DEF UnsentSaysWhy, TypeInv, TypeOK
<1>8. CASE UNCHANGED <<rows, tried>>
  BY <1>8 DEF UnsentSaysWhy
<1>9. ASSUME NEW p \in Procs,
             \/ \E failing \in SUBSET Tasks : Begin(p, failing)
             \/ \E t \in Tasks : Unroutable(p, t) \/ Routable(p, t)
             \/ Refuse(p) \/ AcceptThenFail(p) \/ Defect(p)
             \/ \E table \in RouteTables : Restart(p, table)
      PROVE  UNCHANGED <<rows, tried>>
  BY <1>9 DEF Begin, Unroutable, Routable, Refuse, AcceptThenFail, Defect, Restart
<1>10. CASE UNCHANGED vars
  BY <1>8, <1>10 DEF vars
<1>. QED
  BY <1>1, <1>2, <1>3, <1>4, <1>5, <1>6, <1>7, <1>8, <1>9, <1>10 DEF Next, Step, Undisturbed, Work

\* Nothing is silently dropped: a pending task whose rule asks for an email, and
\* which a dispatch has returned for without sending, says why on itself, whatever
\* other dispatches did to it since.
THEOREM NothingIsSilentlyDropped == Spec => []UnsentSaysWhy
<1>1. Init => UnsentSaysWhy
  BY DEF Init, UnsentSaysWhy
<1>2. TypeInv /\ ClaimInv /\ [Next]_vars => ClaimInv'
  BY EffectOfStep, ClaimInvNext
<1>. QED BY <1>1, <1>2, WhyNext, InitTypes, StepTypes, ClaimInvInit, PTL DEF Spec

\* What the marker means, in terms of who holds what.
HonestByHolding ==
  \A t \in Tasks : Notified[t] <=> (\E p \in Procs : Holding[p] = t) \/ accepted[t] > 0

LEMMA HonestInit == Init => HonestByHolding
<1>. SUFFICES ASSUME Init PROVE HonestByHolding
  OBVIOUS
<1>1. \A p \in Procs : Holding[p] = None
  BY DEF Init, Holding
<1>2. \A t \in Tasks : ~\E p \in Procs : Holding[p] = t
  BY <1>1, NoneAssumption
<1>3. \A t \in Tasks : ~Notified[t]
  BY DEF Init, Notified
<1>4. \A t \in Tasks : ~(accepted[t] > 0)
  <2>1. \A t \in Tasks : accepted[t] = 0
    BY DEF Init
  <2>2. ~(0 > 0)
    OBVIOUS
  <2>. QED BY <2>1, <2>2
<1>. QED BY <1>2, <1>3, <1>4, Zenon DEF HonestByHolding

LEMMA HonestNext ==
  TypeInv /\ ClaimInv /\ HonestByHolding /\ LivingEffect => HonestByHolding'
<1>. SUFFICES ASSUME TypeInv, ClaimInv, HonestByHolding, LivingEffect
              PROVE  HonestByHolding'
  OBVIOUS
<1>. USE NoneAssumption, Shapes
<1>1. CASE Quiet
  BY <1>1 DEF Quiet, HonestByHolding
<1>2. ASSUME NEW p \in Procs, NEW t \in Tasks, Taken(p, t) PROVE HonestByHolding'
  BY <1>2 DEF Taken, HonestByHolding
<1>3. ASSUME NEW p \in Procs, NEW t \in Tasks, Posted(p, t) PROVE HonestByHolding'
  BY <1>3 DEF Posted, Dropped, HonestByHolding, ClaimInv
<1>4. ASSUME NEW p \in Procs, NEW t \in Tasks, Returned(p, t) PROVE HonestByHolding'
  BY <1>4 DEF Returned, Dropped, HonestByHolding, ClaimInv
<1>. QED BY <1>1, <1>2, <1>3, <1>4 DEF LivingEffect

LEMMA HonestSays == HonestByHolding => MarkerIsHonest
BY NoneAssumption DEF HonestByHolding, MarkerIsHonest, Held, Holds, Holding, Notified

\* While no process ends in the middle of a dispatch, the sent marker is set on
\* the tasks that are being sent or were sent, and on no other: no failure of the
\* backend leaves a claim behind.
THEOREM MarkersAreHonest == ~CanCrash => (Spec => []MarkerIsHonest)
<1>. SUFFICES ASSUME ~CanCrash PROVE Spec => []MarkerIsHonest
  OBVIOUS
<1>1. TypeInv /\ ClaimInv /\ [Next]_vars => ClaimInv'
  BY EffectOfStep, ClaimInvNext
<1>2. TypeInv /\ ClaimInv /\ HonestByHolding /\ [Next]_vars => HonestByHolding'
  BY EffectOfStep, HonestNext DEF Effect, Lost
<1>. QED BY <1>1, <1>2, HonestInit, HonestSays, InitTypes, StepTypes, ClaimInvInit, PTL DEF Spec

\* Both worlds are Dispatch: what holds of it holds in them.
THEOREM WorldIsDispatch == WorldSpec => Spec
<1>1. [WorldNext]_world => [Next]_vars
  BY DEF WorldNext, world, Next, Step
<1>. QED BY <1>1, PTL DEF WorldSpec, WorldInit, Spec

\* Where processes may end mid-dispatch, those of the calm world do not, and
\* there the marker is set exactly on the tasks that are being sent or were sent.
THEOREM CalmMarkersAreHonest == WorldSpec => []CalmMarkerIsHonest
<1>. DEFINE CalmHonest == calm => HonestByHolding
<1>1. WorldInit => CalmHonest
  BY HonestInit DEF WorldInit
<1>2. TypeInv /\ ClaimInv /\ [Next]_vars => ClaimInv'
  BY EffectOfStep, ClaimInvNext
<1>3. TypeInv /\ ClaimInv /\ CalmHonest /\ [WorldNext]_world => CalmHonest'
  <2>. SUFFICES ASSUME TypeInv, ClaimInv, CalmHonest, [WorldNext]_world, calm'
                PROVE  HonestByHolding'
    OBVIOUS
  <2>1. calm /\ ((\E p \in Procs : Undisturbed(p)) \/ UNCHANGED vars)
    BY DEF WorldNext, world
  <2>. QED BY <2>1, EffectOfLiving, HonestNext
<1>4. CalmHonest => CalmMarkerIsHonest
  BY HonestSays DEF CalmMarkerIsHonest
<1>. HIDE DEF CalmHonest
<1>. QED BY <1>1, <1>2, <1>3, <1>4, WorldIsDispatch, InitTypes, StepTypes, ClaimInvInit, PTL
         DEF WorldSpec, Spec
==============================================================================
