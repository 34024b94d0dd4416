---------------------------- MODULE EventStream ----------------------------
(***************************************************************************)
(* What a client of POST /v1/query/stream is promised (README.md and       *)
(* api/routes_query.py): the token events in order and then one done       *)
(* event, which ends the stream; a stream that ends without it is broken.  *)
(***************************************************************************)
EXTENDS Integers, Sequences

VARIABLES
    length,     \* how many events the answer has, the done event included
    delivered,  \* the events the client has, by number
    outcome     \* "open", "complete", "broken", or "left" by the client

vars == <<length, delivered, outcome>>

Init == length \in Nat \ {0} /\ delivered = <<>> /\ outcome = "open"

Deliver == /\ outcome = "open" /\ Len(delivered) < length
           /\ delivered' = Append(delivered, Len(delivered) + 1)
           /\ UNCHANGED <<length, outcome>>

Complete == /\ outcome = "open" /\ Len(delivered) = length
            /\ outcome' = "complete"
            /\ UNCHANGED <<length, delivered>>

\* An error is no end of an answer: nothing of it was sent.
Break == /\ outcome = "open" /\ delivered = <<>>
         /\ outcome' = "broken"
         /\ UNCHANGED <<length, delivered>>

Leave == /\ outcome = "open"
         /\ outcome' = "left"
         /\ UNCHANGED <<length, delivered>>

Next == Deliver \/ Complete \/ Break \/ Leave

Spec == Init /\ [][Next]_vars
=============================================================================
