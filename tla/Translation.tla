---------------------------- MODULE Translation ----------------------------
(***************************************************************************)
(* The translation worker and one speaker.  Messages of stt:results are    *)
(* read in spoken order and handled at once; each is split into sentences  *)
(* and translated into every language listened to, a lane per language     *)
(* working through the sentences.  A piece - a sentence in a language - is *)
(* published when the speaker's previous message is out, or has kept it    *)
(* waiting too long, and after its key was claimed in Redis, so that a     *)
(* message handled again does not publish it again.                        *)
(***************************************************************************)
EXTENDS Integers, Sequences, FiniteSets

CONSTANTS
    Langs,       \* target languages
    Scenes,      \* what is said: sentences of each message, the messages that only end a turn,
                 \* the languages listened to at first, and how much of MaxFaults may go wrong
    MaxMessages, \* bound: messages of the speaker
    MaxLength,   \* bound: sentences of a message
    MaxInFlight, \* _MAX_IN_FLIGHT
    MaxTries,    \* max_delivery_attempts
    MaxFaults    \* bound: errors, timeouts, crashes, sentences out of scope, changes of the room

ASSUME Bounds ==
    /\ {MaxMessages, MaxLength, MaxInFlight, MaxTries} \subseteq Nat \ {0} /\ MaxFaults \in Nat
ASSUME Shapes == \A s \in Scenes :
    /\ DOMAIN s.len \subseteq 1..MaxMessages /\ s.len \in Seq(0..MaxLength)
    /\ s.marks \subseteq {m \in DOMAIN s.len : s.len[m] = 0}
    /\ s.langs \subseteq Langs /\ s.faults \in 0..MaxFaults

VARIABLES
    scene,
    wanted,    \* languages listened to; none while the room is paused, not started or suspended
    unread,    \* the next message of the stream
    state,     \* of each message
    tries,     \* of each message: deliveries
    ticket,    \* of each message: the one its first handler must not overtake, or 0
    tail,      \* tails: the message of the speaker that began last, or 0
    over,      \* messages whose first handler ended
    waived,    \* messages that waited for their turn in vain
    lane,      \* of each message, delivery and language: where it stands, and at which sentence
    claims,    \* translate:published:{segment_id} keys
    sent,      \* of each piece: how often it went out
    dropped,   \* pieces found out of scope
    stranded,  \* pieces claimed by whoever will not send them, or may not
    doubt,     \* pieces Redis gave no answer about
    faults

room == <<scene, wanted>>
work == <<unread, state, tries>>
turns == <<ticket, tail, over, waived>>
ghosts == <<dropped, stranded, doubt>>
vars == <<room, work, turns, lane, claims, sent, ghosts, faults>>

Messages == 1..MaxMessages
Sentences == 1..MaxLength
Tries == 1..(MaxFaults + 1)
Lanes == Messages \X Tries \X Langs
Pieces == Messages \X Langs \X Sentences

Marker(m) == m \in scene.marks
\* A message that only ends a turn is one empty piece in each language.
Length(m) == IF Marker(m) THEN 1 ELSE IF m \in DOMAIN scene.len THEN scene.len[m] ELSE 0
Piece(t) == <<t[1], t[3], lane[t].i>>
Same(t) == {u \in Lanes : u[1] = t[1] /\ u[2] = t[2]}
Of(m) == {t \in Lanes : t[1] = m /\ t[2] = tries[m]}
Handled(m) == state[m] \in {"started", "running"}
Stray(t) == ~(Handled(t[1]) /\ tries[t[1]] = t[2])
\* Mutant: a message parked for good still counts as being recovered.
RecoveringParked == \E m \in Messages : state[m] # "acked" /\ tries[m] > 1

Recovering == \E m \in Messages : Handled(m) /\ tries[m] > 1

NoLane == [at |-> "none", i |-> 1]

Init ==
    /\ scene \in Scenes /\ wanted = scene.langs
    /\ unread = 1 /\ tries = [m \in Messages |-> 0]
    /\ state = [m \in Messages |-> IF m \in DOMAIN scene.len THEN "unread" ELSE "acked"]
    /\ ticket = [m \in Messages |-> 0] /\ tail = 0 /\ over = {} /\ waived = {}
    /\ lane = [t \in Lanes |-> NoLane] /\ claims = {} /\ sent = [p \in Pieces |-> 0]
    /\ dropped = {} /\ stranded = {} /\ doubt = {} /\ faults = 0

Fault == faults < scene.faults /\ faults' = faults + 1

\* Listeners come and go; the room is paused, stopped or suspended.
Change ==
    /\ Fault /\ wanted' \in SUBSET Langs \ {wanted}
    /\ UNCHANGED <<scene, work, turns, lane, claims, sent, ghosts>>

(***************************************************************************)
(* A message.                                                              *)
(***************************************************************************)
\* The recovery of old messages runs between two reads.
Read ==
    LET m == unread IN
    /\ m \in DOMAIN scene.len /\ ~Recovering
    /\ Cardinality({k \in Messages : Handled(k)}) < MaxInFlight
    /\ unread' = m + 1 /\ state' = [state EXCEPT ![m] = "started"] /\ tries' = [tries EXCEPT ![m] = 1]
    /\ ticket' = [ticket EXCEPT ![m] = tail] /\ tail' = m
    /\ UNCHANGED <<room, over, waived, lane, claims, sent, ghosts, faults>>

Enter(m) ==
    /\ state[m] = "started" /\ state' = [state EXCEPT ![m] = "running"]
    /\ lane' = IF Length(m) = 0 THEN lane ELSE
               [t \in Lanes |-> IF t \in Of(m) /\ t[3] \in wanted
                                THEN [at |-> IF Marker(m) THEN "queued" ELSE "working", i |-> 1]
                                ELSE lane[t]]
    /\ UNCHANGED <<room, unread, tries, turns, claims, sent, ghosts, faults>>

\* The handler's ticket is good from here on, however the handler ended.
\* Mutant: the place of the last message is given up by whoever ends.
StopAnyTail(m) ==
    IF tries[m] = 1
    THEN over' = over \cup {m} /\ tail' = 0
    ELSE UNCHANGED <<over, tail>>

Stop(m) ==
    IF tries[m] = 1
    THEN over' = over \cup {m} /\ tail' = IF tail = m THEN 0 ELSE tail
    ELSE UNCHANGED <<over, tail>>

Failed(m) == IF tries[m] < MaxTries THEN "failed" ELSE "dead"

Finish(m) ==
    /\ state[m] = "running" /\ \A t \in Of(m) : lane[t].at \in {"none", "ended"}
    /\ state' = [state EXCEPT ![m] = "acked"] /\ Stop(m)
    /\ UNCHANGED <<room, unread, tries, ticket, waived, lane, claims, sent, ghosts, faults>>

\* A message taken over has no ticket.
Reclaim(m) ==
    /\ state[m] = "failed" /\ ~Recovering
    /\ state' = [state EXCEPT ![m] = "started"] /\ tries' = [tries EXCEPT ![m] = @ + 1]
    /\ UNCHANGED <<room, unread, turns, lane, claims, sent, ghosts, faults>>

(***************************************************************************)
(* A lane.                                                                 *)
(***************************************************************************)
At(t, where) == lane' = [lane EXCEPT ![t].at = where]

Free(t) == t[2] > 1 \/ t[1] \in waived \/ ticket[t[1]] \in over \cup {0}

\* The sentence is ready: it goes out in its turn.
Ready(t) == At(t, IF Free(t) THEN "turn" ELSE "held")

Onward(t) ==
    lane' = [lane EXCEPT ![t] = IF @.i < Length(t[1]) THEN [at |-> "working", i |-> @.i + 1]
                                ELSE [@ EXCEPT !.at = "ended"]]

\* The error ends the delivery; the lanes of the other languages go on without it,
\* but for the empty pieces, which go one after the other.
Raise(t) ==
    LET m == t[1] IN
    /\ lane' = [u \in Lanes |-> IF u = t \/ (u \in Same(t) /\ lane[u].at = "queued")
                                THEN [lane[u] EXCEPT !.at = "ended"] ELSE lane[u]]
    /\ IF Stray(t) THEN UNCHANGED <<state, over, tail>>
       ELSE state' = [state EXCEPT ![m] = Failed(m)] /\ Stop(m)
    /\ UNCHANGED <<room, unread, tries, ticket, waived>>

Queue(t) ==
    /\ lane[t].at = "queued" /\ \A u \in Same(t) : lane[u].at \in {"none", "queued", "ended"}
    /\ Ready(t)
    /\ UNCHANGED <<room, work, turns, claims, sent, ghosts, faults>>

Translated(t) ==
    /\ lane[t].at = "working" /\ Ready(t)
    /\ UNCHANGED <<room, work, turns, claims, sent, ghosts, faults>>

\* Judged out of scope; asked again without the context, so is it again, or the call fails.
Suppressed(t) ==
    /\ lane[t].at = "working" /\ Fault /\ Onward(t) /\ dropped' = dropped \cup {Piece(t)}
    /\ UNCHANGED <<room, work, turns, claims, sent, stranded, doubt>>

NotTranslated(t) ==
    /\ lane[t].at = "working" /\ Fault /\ Raise(t)
    /\ UNCHANGED <<claims, sent, ghosts>>

Woken(t) ==
    /\ lane[t].at = "held" /\ ticket[t[1]] \in over /\ At(t, "turn")
    /\ UNCHANGED <<room, work, turns, claims, sent, ghosts, faults>>

WaitedLong(t) ==
    /\ lane[t].at = "held" /\ ticket[t[1]] \notin over
    /\ At(t, "turn") /\ waived' = waived \cup {t[1]}
    /\ UNCHANGED <<room, work, ticket, tail, over, claims, sent, ghosts, faults>>

\* Mutant: the claim is read and not set.
ClaimUnset(t) ==
    /\ lane[t].at = "turn" /\ Piece(t) \notin claims /\ At(t, "publishing")
    /\ UNCHANGED <<room, work, turns, claims, sent, ghosts, faults>>

\* SET NX: the claim is this lane's, or another delivery has, or had, the piece.
Claim(t) ==
    /\ lane[t].at = "turn" /\ Piece(t) \notin claims
    /\ claims' = claims \cup {Piece(t)} /\ At(t, "publishing")
    /\ UNCHANGED <<room, work, turns, sent, ghosts, faults>>

PassOver(t) ==
    /\ lane[t].at = "turn" /\ Piece(t) \in claims /\ Onward(t)
    /\ stranded' = IF \E u \in Lanes \ {t} : lane[u].at = "publishing" /\ Piece(u) = Piece(t) /\ Stray(u)
                   THEN stranded \cup {Piece(t)} ELSE stranded
    /\ UNCHANGED <<room, work, turns, claims, sent, dropped, doubt, faults>>

\* _retry repeats a SET NX that landed unheard, and finds the key: passed over as another's.
ClaimUnheard(t) ==
    /\ lane[t].at = "turn" /\ Piece(t) \notin claims /\ Fault /\ Onward(t)
    /\ claims' = claims \cup {Piece(t)} /\ stranded' = stranded \cup {Piece(t)}
    /\ UNCHANGED <<room, work, turns, sent, dropped, doubt>>

\* Redis does not answer: the piece goes out nevertheless.
ClaimFails(t) == \E landed \in BOOLEAN :
    /\ lane[t].at = "turn" /\ Fault /\ At(t, "publishing")
    /\ claims' = IF landed THEN claims \cup {Piece(t)} ELSE claims
    /\ doubt' = doubt \cup {Piece(t)}
    /\ UNCHANGED <<room, work, turns, sent, dropped, stranded>>

Publish(t) ==
    /\ lane[t].at = "publishing" /\ Onward(t) /\ sent' = [sent EXCEPT ![Piece(t)] = @ + 1]
    /\ UNCHANGED <<room, work, turns, claims, ghosts, faults>>

\* _retry repeats an XADD that landed unheard.
PublishTwice(t) ==
    /\ lane[t].at = "publishing" /\ Fault /\ Onward(t) /\ sent' = [sent EXCEPT ![Piece(t)] = @ + 2]
    /\ doubt' = doubt \cup {Piece(t)}
    /\ UNCHANGED <<room, work, turns, claims, dropped, stranded>>

\* Pieces written although nobody heard so.
Landed(ps) ==
    /\ sent' = [p \in Pieces |-> IF p \in ps THEN sent[p] + 1 ELSE sent[p]]
    /\ doubt' = doubt \cup ps

\* Mutant: the claim is given back for no failure.
KeepClaims(ps) == claims' = claims

\* The claims of what was not published are given back.
GiveBack(ps) == claims' = claims \ ps

\* The error that kept a piece from being published may keep its claim from being deleted.
NotPublished(t) == \E landed \in BOOLEAN, kept \in SUBSET {Piece(t)} :
    /\ lane[t].at = "publishing" /\ Fault /\ Raise(t) /\ GiveBack({Piece(t)} \ kept)
    /\ Landed(IF landed THEN {Piece(t)} ELSE {}) /\ stranded' = stranded \cup kept
    /\ UNCHANGED dropped

(***************************************************************************)
(* The end of a handler, or of the worker, in the middle.                  *)
(***************************************************************************)
Pending(ts, where) == {Piece(t) : t \in {u \in ts : lane[u].at = where}}
Ended(ts) == lane' = [t \in Lanes |-> IF t \in ts /\ lane[t].at # "none"
                                      THEN [lane[t] EXCEPT !.at = "ended"] ELSE lane[t]]

\* Cancelled: what it was publishing is given back, what it was claiming is not.
TimesOut(m) == \E claimed \in SUBSET (Pending(Of(m), "turn") \ claims),
                  written, kept \in SUBSET Pending(Of(m), "publishing") :
    /\ Handled(m) /\ Fault /\ Ended(Of(m))
    /\ claims' = (claims \cup claimed) \ (Pending(Of(m), "publishing") \ kept)
    /\ stranded' = stranded \cup claimed \cup kept /\ Landed(written)
    /\ state' = [state EXCEPT ![m] = Failed(m)] /\ Stop(m)
    /\ UNCHANGED <<room, unread, tries, ticket, waived, dropped>>

Crash ==
    /\ Fault /\ \E m \in Messages : Handled(m)
    /\ Ended(Lanes) /\ stranded' = stranded \cup Pending(Lanes, "publishing")
    /\ state' = [m \in Messages |-> IF Handled(m) THEN "failed" ELSE state[m]]
    /\ over' = over \cup {m \in Messages : Handled(m)} /\ tail' = 0
    /\ UNCHANGED <<room, unread, tries, ticket, waived, claims, sent, dropped, doubt>>

Handle(m) == Enter(m) \/ Finish(m) \/ Reclaim(m)
Work(t) ==
    \/ Queue(t) \/ Translated(t) \/ NotTranslated(t) \/ Suppressed(t) \/ Woken(t) \/ WaitedLong(t)
    \/ Claim(t) \/ PassOver(t) \/ ClaimUnheard(t) \/ ClaimFails(t)
    \/ Publish(t) \/ PublishTwice(t) \/ NotPublished(t)

Next ==
    \/ Change \/ Read \/ Crash
    \/ \E m \in Messages : Handle(m) \/ TimesOut(m)
    \/ \E t \in Lanes : Work(t)

Spec == Init /\ [][Next]_vars
FairSpec ==
    /\ Spec /\ WF_vars(Read) /\ WF_vars(\E m \in Messages : Handle(m))
    /\ WF_vars(\E t \in Lanes : Work(t))

(***************************************************************************)
(* Properties.                                                             *)
(***************************************************************************)
\* Every variable has its type.
TypeOK ==
    /\ scene \in Scenes /\ wanted \subseteq Langs /\ unread \in 1..(Len(scene.len) + 1)
    /\ state \in [Messages -> {"unread", "started", "running", "failed", "acked", "dead"}]
    /\ tries \in [Messages -> Tries \cup {0}] /\ ticket \in [Messages -> Messages \cup {0}]
    /\ tail \in Messages \cup {0} /\ over \cup waived \subseteq Messages
    /\ \A m \in Messages : ticket[m] < m
    /\ lane \in [Lanes -> [at : {"none", "queued", "working", "held", "turn", "publishing", "ended"},
                           i : Sentences]]
    /\ claims \cup dropped \cup stranded \cup doubt \subseteq Pieces
    /\ sent \in [Pieces -> 0..(MaxFaults + 1)] /\ faults \in 0..MaxFaults

\* However a message is handled, by whom and how often, a piece of it goes out
\* once, unless Redis left it open whether it did (translation_worker/worker.py:703).
OnceUnlessInDoubt == \A p \in Pieces : sent[p] > 1 => p \in doubt

\* An acknowledged message has all its pieces out, but for those judged out of scope
\* (a judgement that could not be confirmed counts) and those stranded: claimed and
\* not published, for a crash, a cancellation, a claim that could not be deleted or
\* one whose answer was lost, or passed over while a superseded delivery held the
\* claim. A publication that fails is made up for (translation_worker/worker.py:717).
Out(m, excepted) == \A t \in Of(m) : lane[t].at = "ended" => \A i \in 1..Length(m) :
    LET p == <<m, t[3], i>> IN sent[p] > 0 \/ p \in dropped \cup excepted
CompleteUnlessStranded == \A m \in Messages : state[m] = "acked" => Out(m, stranded)

\* The same with none stranded, as translation_worker/worker.py:717 has it.
NothingMissing == \A m \in Messages : state[m] = "acked" => Out(m, {})

\* While a message is handled for the first time, no later one of the speaker goes
\* out before it: only one that waited in vain does, or one after a message that
\* itself had nothing to say in its turn (translation_worker/worker.py:667).
Overtaken(t) == {k \in 1..(t[1] - 1) : Handled(k) /\ tries[k] = 1}
HadItsTurn(m) == m \notin waived /\ tries[m] = 1 /\ \E p \in Pieces : p[1] = m /\ sent[p] > 0
InTurn == [][\A t \in Lanes :
    (lane[t].at = "publishing" /\ t[2] = 1 /\ sent'[Piece(t)] > sent[Piece(t)]) =>
        \/ t[1] \in waived
        \/ \A k \in Overtaken(t) : \E j \in (k + 1)..(t[1] - 1) : ~HadItsTurn(j)]_vars

\* Every message is acknowledged or parked, and every lane comes to its end
\* (translation_worker/worker.py:684).
AllSettled == <>[](/\ \A m \in Messages : state[m] \in {"acked", "dead"}
                   /\ \A t \in Lanes : lane[t].at \in {"none", "ended"})
=============================================================================
