---------------------------- MODULE AnswerStream ----------------------------
(***************************************************************************)
(* One streamed query (api/routes_query.py): _stream_answer produces the   *)
(* events, and with_heartbeat takes them one by one from a task it shields *)
(* from its own timeout, writing a heartbeat at each timeout.              *)
(*                                                                         *)
(* Events are numbered, the last is the done event.  Heartbeats are a bit  *)
(* that flips: only that another one was written is told.                  *)
(***************************************************************************)
EXTENDS Integers, Sequences

CONSTANT
    Lengths     \* how many events answers have

ASSUME LengthsAssumption == Lengths \subseteq Nat \ {0}

VARIABLES
    length,     \* of the answer
    made,       \* events that _stream_answer has yielded
    pending,    \* the task around __anext__: "none", "running", or how it ended:
                \* with the event made last, the "end", or an error
    delivered,  \* events written to the client
    beat,       \* heartbeats written, modulo 2
    outcome     \* of the response

streamVars == <<length, made, pending, delivered, beat, outcome>>

StreamInit ==
    /\ length \in Lengths /\ made = 0 /\ pending = "none"
    /\ delivered = <<>> /\ beat = 0 /\ outcome = "open"

Ended == outcome # "open"

\* ensure_future(__anext__()).
Pull == /\ ~Ended /\ pending = "none"
        /\ pending' = "running"
        /\ UNCHANGED <<length, made, delivered, beat, outcome>>

\* The source yields its next event; the first one awaits the whole answer.
Yield == /\ pending = "running" /\ made < length
         /\ made' = made + 1
         /\ pending' = "event"
         /\ UNCHANGED <<length, delivered, beat, outcome>>

Exhaust == /\ pending = "running" /\ made = length
           /\ pending' = "end"
           /\ UNCHANGED <<length, made, delivered, beat, outcome>>

\* Answering raises; a TimeoutError is one of the errors that can be raised.
RaiseError(kind) == /\ pending = "running" /\ made = 0
                    /\ pending' = kind
                    /\ UNCHANGED <<length, made, delivered, beat, outcome>>

\* Mutant: the timeout cancels the task.
Unshielded == pending' = "none"
Shielded == UNCHANGED pending

\* wait_for raises TimeoutError: its own timeout, which may come in the very turn
\* in which the task ends, or the one that the source raised.
Heartbeat == /\ ~Ended /\ pending # "none"
             /\ beat' = 1 - beat
             /\ Shielded
             /\ UNCHANGED <<length, made, delivered, outcome>>

Take == /\ ~Ended /\ pending = "event"
        /\ delivered' = Append(delivered, made)
        /\ pending' = "none"
        /\ UNCHANGED <<length, made, beat, outcome>>

\* Mutant: every error is taken for a timeout.
EndOnly == pending = "end"
EndOrError == pending \in {"end", "error"}

\* StopAsyncIteration ends the response; another error leaves it unfinished.
Finish == /\ ~Ended
          /\ EndOrError
          /\ outcome' = IF pending = "end" THEN "complete" ELSE "broken"
          /\ UNCHANGED <<length, made, pending, delivered, beat>>

\* The client goes away: the generator is cancelled, its shielded task is not.
Disconnect == /\ ~Ended
              /\ outcome' = "left"
              /\ UNCHANGED <<length, made, pending, delivered, beat>>

----------------------------------------------------------------------------

\* The client gets the events of the answer, each once and in order, and the
\* response ends with the done event or visibly without it, whenever heartbeats,
\* errors and timeouts come (routes_query.py:92-114).
EventStream == INSTANCE EventStream
ImplementsEventStream == EventStream!Spec
=============================================================================
