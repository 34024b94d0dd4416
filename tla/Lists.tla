------------------------------- MODULE Lists -------------------------------
(***************************************************************************)
(* What a list comprehension with a condition, a sum and a concatenation   *)
(* compute.                                                                *)
(***************************************************************************)
EXTENDS Integers, Sequences

\* The list s without the members of S, in order.
Filtered(s, S) ==
    LET kept[n \in 0..Len(s)] ==
            IF n = 0 THEN <<>>
            ELSE IF s[n] \in S THEN kept[n - 1] ELSE Append(kept[n - 1], s[n])
    IN  kept[Len(s)]

\* The sum of a list.
Total(s) ==
    LET upTo[n \in 0..Len(s)] == IF n = 0 THEN 0 ELSE upTo[n - 1] + s[n]
    IN  upTo[Len(s)]

\* The lists one after the other.
Flat(lists) ==
    LET joined[n \in 0..Len(lists)] == IF n = 0 THEN <<>> ELSE joined[n - 1] \o lists[n]
    IN  joined[Len(lists)]

\* The places of the list s that are in P, in order.
PlacesIn(s, P) == Filtered([n \in DOMAIN s |-> n], DOMAIN s \ P)

Injective(s) == \A i, j \in DOMAIN s : s[i] = s[j] => i = j
=============================================================================
