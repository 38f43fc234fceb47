----------------------------- MODULE MCGuestDesk -----------------------------
(* Instances of GuestDesk for TLC: an hour of three minutes, and policies    *)
(* whose bands all have an inside and two edges in so short an afternoon.    *)
(* One process decides everything there is to decide, or, in a crowd, all    *)
(* of them decide the one request that two policies and three look-ups can   *)
(* answer in every way.                                                      *)
EXTENDS GuestDesk, TLC

CONSTANTS guest, p1

VARIABLE crowd

Stating(free, from, approval, maximum, rounding) ==
  [free_until |-> free, charge_from |-> from, approval_required_after |-> approval,
   maximum_time |-> maximum, fee_per_hour |-> 5, hour_rounding |-> rounding]

Started   == Stating(2, 1, 6, 8, "started_hour")
Completed == Stating(2, 2, 6, 6, "completed_hour")
Unordered == Stating(2, 2, 8, 6, "started_hour")
HalfDecided == [Started EXCEPT !.maximum_time = None]

AllPolicies == {Started, Completed, Unordered, HalfDecided}
TwoPolicies == {Started, HalfDecided}

Sees(status, departure) == [absent |-> FALSE, status |-> status, departure |-> departure]
NotFound == [absent |-> TRUE, status |-> None, departure |-> None]

Today == 5
Afternoon == (1 .. 7) \union {9}

AllLookups == {NotFound, Sees(None, Today), Sees("checked_in", None),
               Sees("cancelled", Today), Sees("waitlist", Today),
               Sees("checked_in", Today), Sees("checked_in", Today - 1),
               Sees("confirmed", Today - 1), Sees("checked_in", Today + 1),
               Sees("checked_out", Today)}
FewLookups == {NotFound, Sees("checked_in", Today), Sees("cancelled", Today)}

Alone   == \A p \in Procs \ {p1} : pc[p] = "idle"
Crowded ==
  /\ policy \in TwoPolicies
  /\ \A p \in Procs :
       /\ request[p] # None => request[p].asked = 4
       /\ draft[p] # None => draft[p].evidence \in FewLookups
Bounds  == IF crowd THEN Crowded ELSE Alone

MCInit == Init /\ crowd \in BOOLEAN /\ Bounds
MCNext == Next /\ UNCHANGED crowd /\ Bounds'
MCSpec == MCInit /\ [][MCNext]_<<vars, crowd>>
==============================================================================
