---------------------------- MODULE AtLeastOnce ----------------------------
(***************************************************************************)
(* What a stage of the pipeline promises about the messages sent to it,    *)
(* whatever happens to the processes that do the work (the docstrings of   *)
(* consume_concurrent and _recover_stale_messages): a message settles only *)
(* after it was handled or written to the dead-letter stream, and nobody   *)
(* is handed a settled one.  A message may be in several hands, be handled *)
(* twice, and be finished after it settled by those it was handed before.  *)
(***************************************************************************)
EXTENDS Naturals

CONSTANTS
    NumMsgs,    \* how many messages are ever sent
    Workers     \* who works on them

VARIABLES
    sent,       \* messages 1..sent have been sent
    held,       \* those each worker was handed and has not finished with
    handled,    \* those whose processing has succeeded at least once
    parked,     \* those in the dead-letter stream
    settled     \* those the queue will never deliver again

vars == <<sent, held, handled, parked, settled>>

Init ==
    /\ sent = 0
    /\ held = [w \in Workers |-> {}]
    /\ handled = {} /\ parked = {} /\ settled = {}

Send ==
    /\ sent < NumMsgs
    /\ sent' = sent + 1
    /\ UNCHANGED <<held, handled, parked, settled>>

Open == (1..sent) \ settled

\* Empty hands are given messages that are still open, ...
Take(w) ==
    /\ held[w] = {}
    /\ \E S \in SUBSET Open : held' = [held EXCEPT ![w] = S]
    /\ UNCHANGED <<sent, handled, parked, settled>>

Handle(w) ==
    /\ \E m \in held[w] : handled' = handled \cup {m}
    /\ UNCHANGED <<sent, held, parked, settled>>

Park(w) ==
    /\ \E m \in held[w] : parked' = parked \cup {m}
    /\ UNCHANGED <<sent, held, handled, settled>>

\* ... and let go of some, settled or not.
Settle(w) ==
    /\ \E m \in held[w] :
          /\ m \in handled \cup parked
          /\ settled' = settled \cup {m}
          /\ \E S \in SUBSET (held[w] \ {m}) : held' = [held EXCEPT ![w] = S]
    /\ UNCHANGED <<sent, handled, parked>>

LetGo(w) ==
    /\ \E S \in SUBSET held[w] : held' = [held EXCEPT ![w] = S]
    /\ UNCHANGED <<sent, handled, parked, settled>>

Next == Send \/ \E w \in Workers : Take(w) \/ Handle(w) \/ Park(w) \/ Settle(w) \/ LetGo(w)

Spec == Init /\ [][Next]_vars
=============================================================================
