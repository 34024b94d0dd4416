---------------------------- MODULE TokenLimiter ----------------------------
(***************************************************************************)
(* What a rate limiter promises (api/app.py): every caller has an          *)
(* allowance of its own that refills all the time up to a full one, and a  *)
(* request is let through, and paid for, if there is one request's worth   *)
(* left.                                                                   *)
(***************************************************************************)
EXTENDS Allowance

VARIABLES
    level,      \* caller -> units left
    answer      \* whether the last request was let through

vars == <<level, answer>>

----------------------------------------------------------------------------

Init == level = [k \in Peers |-> Capacity] /\ answer = TRUE

Tick == /\ level' = [k \in Peers |-> AtMost(Capacity, level[k] + PerMinute)]
        /\ UNCHANGED answer

Pass(k) == /\ level[k] >= Cost
           /\ level' = [level EXCEPT ![k] = @ - Cost]
           /\ answer' = TRUE

Refuse(k) == level[k] < Cost /\ answer' = FALSE /\ UNCHANGED level

Next == Tick \/ \E k \in Peers : Pass(k) \/ Refuse(k)

Spec == Init /\ [][Next]_vars
=============================================================================
