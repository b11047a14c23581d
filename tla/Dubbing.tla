------------------------------ MODULE Dubbing ------------------------------
(***************************************************************************)
(* The dubbing worker: translated sentences become speech on the           *)
(* interpreter track of their speaker and language.  Sentences of one      *)
(* track are handled one at a time, in the order they arrived; those of    *)
(* different tracks in parallel, within the Slots the vendor's plan        *)
(* allows.  A sentence is spoken on a streaming context, which an already  *)
(* queued one may continue, or, when that fails, in one shot.              *)
(*                                                                         *)
(* One process and one room, whose end may be announced while sentences    *)
(* are in hand.  How entries are read, acknowledged and reclaimed is       *)
(* PipelinedQueue; the tracks themselves are InterpreterTracks.            *)
(***************************************************************************)
EXTENDS Integers, FiniteSets

CONSTANTS
    Tracks,       \* (meeting, speaker, target language)
    Sentences,    \* numbered in the order of translate:results
    Says,         \* of each: its track, position in the turn, whether it ends it or is mute, and in how many voices it is needed
    Batches,      \* which of them there are in a behaviour, and how much of MaxFaults may go wrong
    Slots,        \* cartesia_max_concurrency
    MaxRetries,   \* synthesis_max_retries
    MaxAttempts,  \* max_delivery_attempts
    MaxVoices,    \* bound: variants a sentence is rendered in, the first of them everybody's
    Contexts,     \* bound: contexts alive at a time
    MaxFaults,    \* bound: failed calls, timeouts and crashes
    MaxTurns      \* bound: ends of the room and changes of its route

Fields == {"track", "position", "final", "mute", "voices"}
Voices == 1..MaxVoices
Default == 1
None == 0

ASSUME WellFormed ==
    /\ Sentences \subseteq Nat \ {None} /\ DOMAIN Says = Sentences
    /\ \A b \in Batches : b.says \subseteq Sentences /\ b.faults \in 0..MaxFaults
    /\ Contexts \subseteq Nat \ {None}
    /\ \A s \in Sentences :
          /\ DOMAIN Says[s] = Fields /\ Says[s].track \in Tracks
          /\ Says[s].position \in Nat /\ Says[s].voices \in Voices /\ {Says[s].final, Says[s].mute} \subseteq BOOLEAN
ASSUME Bounds ==
    /\ {Slots, MaxRetries, MaxAttempts, MaxVoices, MaxFaults, MaxTurns} \subseteq Nat
    /\ 1 <= Slots /\ 1 <= MaxAttempts /\ 1 <= MaxVoices

VARIABLES
    job,       \* what the process is doing about each sentence
    context,   \* the vendor's contexts
    open,      \* _contexts: the one a track and voice may continue, None without
    free,      \* slots the semaphore has left
    speaker,   \* of each track and voice: the sentence that holds the publisher's lock
    newest,    \* _dub_position_by_key: the furthest sentence a track has started
    era,       \* how often the room was forgotten: the locks are new after each
    route,     \* the room's route: "on", "text" or "paused"
    outcome,   \* of each sentence: what became known of it outside
    tries,     \* how often it was delivered
    aired,     \* of each: the era this process last spoke it in, None if it did not
    faults,
    turns

world == <<era, route, turns>>
record == <<outcome, tries, aired>>
vars == <<job, context, open, free, speaker, newest, world, record, faults>>

Track(s) == Says[s].track
Lines == Tracks \X Voices
Line(s) == <<Track(s), job[s].voice>>

Working == {"late", "taken", "ready", "dialling", "slot", "track", "speaking", "playing", "draining",
            "fallback", "oneshot", "backoff", "giving up", "result", "push", "event"}
Steps == Working \cup {"absent", "unread", "queued", "handled", "pending", "acked"}

\* ahead: who was in hand before it, and not yet done; slice: its first slice is on
\* its way to the track; spoken: spoken_bytes says that some of it was heard;
\* sounds: how often its opening was heard in this voice, cuts: how often the
\* drain was cut short in it; results: how often it was published, repeats: how
\* often only because the answer was lost.
Out(step) == [at |-> step, era |-> 1, again |-> FALSE, ahead |-> {}, voice |-> 1,
              fails |-> 0, ctx |-> None, slice |-> FALSE, spoken |-> FALSE,
              sounds |-> 0, cuts |-> 0, results |-> 0, repeats |-> 0]
Blank == [slot |-> FALSE, closed |-> TRUE, retired |-> TRUE, timer |-> FALSE, ended |-> TRUE]
Fresh == [slot |-> FALSE, closed |-> FALSE, retired |-> FALSE, timer |-> FALSE, ended |-> FALSE]

Init ==
    /\ \E batch \in Batches :
          /\ job = [s \in Sentences |-> Out(IF s \in batch.says THEN "unread" ELSE "absent")]
          /\ faults = MaxFaults - batch.faults
    /\ context = [c \in Contexts |-> Blank]
    /\ open = [l \in Lines |-> None]
    /\ free = Slots
    /\ speaker = [l \in Lines |-> None]
    /\ newest = [t \in Tracks |-> 0]
    /\ era = 1 /\ route = "on" /\ turns = 0
    /\ outcome = [s \in Sentences |-> {}]
    /\ tries = [s \in Sentences |-> 0]
    /\ aired = [s \in Sentences |-> None]

Now(s, step) == job[s].at = step
InHand(s) == Now(s, "queued") \/ job[s].at \in Working
Queued(t) == {s \in Sentences : Track(s) = t /\ InHand(s)}
Go(s, step) == job' = [job EXCEPT ![s].at = step]
Fault == faults < MaxFaults /\ faults' = faults + 1
Turn == turns < MaxTurns /\ turns' = turns + 1
Note(s, what) == outcome' = [outcome EXCEPT ![s] = @ \cup {what}]

(***************************************************************************)
(* Contexts and their slots.                                               *)
(***************************************************************************)
\* Taken out of service at once; ended, and its slot returned, in the background.
Retire(cs) ==
    /\ context' = [c \in Contexts |-> IF c \in cs /\ ~context[c].retired
                     THEN [context[c] EXCEPT !.retired = TRUE, !.timer = FALSE] ELSE context[c]]
    /\ open' = [l \in Lines |-> IF open[l] \in cs THEN None ELSE open[l]]

EndContext(c) ==
    /\ context[c].retired /\ ~context[c].ended
    /\ free' = free + (IF context[c].slot THEN 1 ELSE 0)
    /\ context' = [context EXCEPT ![c] = Blank]
    /\ UNCHANGED <<job, open, speaker, newest, world, record, faults>>

ExpireIdle(c) ==
    /\ context[c].timer /\ Retire({c})
    /\ UNCHANGED <<job, free, speaker, newest, world, record, faults>>

\* The vendor ends a context nobody speaks on.
ServerEnds(c) ==
    /\ context[c].timer /\ ~context[c].closed
    /\ context' = [context EXCEPT ![c].closed = TRUE]
    /\ UNCHANGED <<job, open, free, speaker, newest, world, record, faults>>

Waiting(t) == Cardinality(Queued(t)) > 1

\* What is left open for a track nothing more is queued for.
Drained(t) == IF Waiting(t) THEN {} ELSE {open[<<t, v>>] : v \in Voices} \ {None}

(***************************************************************************)
(* From the stream to the track's lock, and out of it.                     *)
(***************************************************************************)
Enter(s, again) ==
    /\ job' = [job EXCEPT ![s] =
         [Out("queued") EXCEPT !.era = era, !.again = again,
                               !.ahead = {u \in Queued(Track(s)) : job[u].era = era}]]
    /\ tries' = [tries EXCEPT ![s] = @ + 1]
    /\ UNCHANGED <<context, open, free, speaker, newest, world, outcome, aired, faults>>

Read(s) == Now(s, "unread") /\ (\A u \in Sentences : u < s => ~Now(u, "unread")) /\ Enter(s, FALSE)

Reclaim(s) == Now(s, "pending") /\ tries[s] < MaxAttempts /\ Enter(s, TRUE)

Spent(s) ==
    /\ Now(s, "pending") /\ tries[s] >= MaxAttempts
    /\ Note(s, "parked") /\ Go(s, "acked")
    /\ UNCHANGED <<context, open, free, speaker, newest, world, tries, aired, faults>>

\* Whatever it held of its track goes with it.
Leave(s, step, cs) ==
    /\ job' = [u \in Sentences |-> IF u = s THEN Out(step) ELSE [job[u] EXCEPT !.ahead = @ \ {s}]]
    /\ Retire(cs \cup Drained(Track(s)))
    /\ speaker' = [l \in Lines |-> IF speaker[l] = s THEN None ELSE speaker[l]]

\* Mutant: a redelivered sentence is compared with nothing.
SupersededNever(s) == FALSE

\* A later sentence was started since: said now, it would be out of place.
Superseded(s) == job[s].again /\ Says[s].position > 0 /\ newest[Track(s)] > Says[s].position

Turned(s) == Now(s, "queued") /\ job[s].ahead = {}

TakeLate(s) ==
    /\ Turned(s) /\ Superseded(s) /\ Go(s, "late")
    /\ UNCHANGED <<context, open, free, speaker, newest, world, record, faults>>

TakePaused(s) ==
    /\ Turned(s) /\ ~Superseded(s) /\ route = "paused"
    /\ Leave(s, "handled", {}) /\ Note(s, "paused")
    /\ UNCHANGED <<free, newest, world, tries, aired, faults>>

TakeMute(s) ==
    /\ Turned(s) /\ ~Superseded(s) /\ route # "paused" /\ (route = "text" \/ Says[s].mute)
    /\ Go(s, "event") /\ Note(s, "silent")
    /\ UNCHANGED <<context, open, free, speaker, newest, world, tries, aired, faults>>

Take(s) ==
    /\ Turned(s) /\ ~Superseded(s) /\ route = "on" /\ ~Says[s].mute
    /\ Go(s, "taken")
    /\ UNCHANGED <<context, open, free, speaker, newest, world, record, faults>>

ParkLate(s) ==
    /\ Now(s, "late") /\ Leave(s, "handled", {}) /\ Note(s, "parked")
    /\ UNCHANGED <<free, newest, world, tries, aired, faults>>

Larger(a, b) == IF a > b THEN a ELSE b

\* The voices its listeners need it in are known.
Prepare(s) ==
    /\ Now(s, "taken")
    /\ Go(s, "ready")
    /\ newest' = [newest EXCEPT ![Track(s)] = Larger(@, Says[s].position)]
    /\ UNCHANGED <<context, open, free, speaker, world, record, faults>>

(***************************************************************************)
(* One voice of one sentence.                                              *)
(***************************************************************************)
CacheHit(s) ==
    /\ Now(s, "ready") /\ Go(s, "result")
    /\ UNCHANGED <<context, open, free, speaker, newest, world, record, faults>>

Continue(s) ==
    LET c == open[Line(s)] IN
    /\ Now(s, "ready") /\ c # None /\ ~context[c].closed
    /\ context' = [context EXCEPT ![c].timer = FALSE]
    /\ job' = [job EXCEPT ![s].at = "track", ![s].ctx = c]
    /\ UNCHANGED <<open, free, speaker, newest, world, record, faults>>

\* None is open, or a spent one, which is retired.
Dial(s) ==
    LET c == open[Line(s)] IN
    /\ Now(s, "ready") /\ (c # None => context[c].closed)
    /\ Retire({c} \ {None}) /\ Go(s, "dialling")
    /\ UNCHANGED <<free, speaker, newest, world, record, faults>>

Unused(c) == context[c].ended /\ \A s \in Sentences : job[s].ctx # c

Dialled(s) == \E c \in Contexts :
    /\ Now(s, "dialling") /\ Unused(c) /\ \A d \in Contexts : d < c => ~Unused(d)
    /\ context' = [context EXCEPT ![c] = Fresh]
    /\ open' = [open EXCEPT ![Line(s)] = c]
    /\ job' = [job EXCEPT ![s].at = "slot", ![s].ctx = c]
    /\ UNCHANGED <<free, speaker, newest, world, record, faults>>

DialFails(s) ==
    /\ Now(s, "dialling") /\ Go(s, "fallback") /\ Fault
    /\ UNCHANGED <<context, open, free, speaker, newest, world, record>>

TakeSlot(s) ==
    LET c == job[s].ctx IN
    /\ Now(s, "slot") /\ free > 0 /\ ~context[c].retired
    /\ free' = free - 1
    /\ context' = [context EXCEPT ![c].slot = TRUE]
    /\ Go(s, "track")
    /\ UNCHANGED <<open, speaker, newest, world, record, faults>>

\* The room ended meanwhile: what ends the context may be over already.
SlotTooLate(s) ==
    /\ Now(s, "slot") /\ free > 0 /\ context[job[s].ctx].retired
    /\ job' = [job EXCEPT ![s].at = "fallback", ![s].ctx = None]
    /\ UNCHANGED <<context, open, free, speaker, newest, world, record, faults>>

\* The publisher's lock, held until the sentence has been played.
Stream(s) ==
    /\ Now(s, "track") /\ speaker[Line(s)] = None
    /\ speaker' = [speaker EXCEPT ![Line(s)] = s]
    /\ Go(s, "speaking")
    /\ UNCHANGED <<context, open, free, newest, world, record, faults>>

Heard(s, slice) ==
    /\ job' = [job EXCEPT ![s].slice = slice, ![s].spoken = ~slice, ![s].sounds = @ + 1]
    /\ aired' = [aired EXCEPT ![s] = job[s].era]

\* The first of its audio reaches the track, or what is queued of a failed one.
Sound(s) ==
    /\ job[s].at \in {"speaking", "playing", "draining"} /\ ~job[s].slice /\ ~job[s].spoken
    /\ Heard(s, TRUE)
    /\ UNCHANGED <<context, open, free, speaker, newest, world, outcome, tries, faults>>

\* Bytes are counted when their slice is through.
SliceDone(s) ==
    /\ job[s].slice
    /\ job' = [job EXCEPT ![s].slice = FALSE, ![s].spoken = TRUE]
    /\ UNCHANGED <<context, open, free, speaker, newest, world, record, faults>>

\* Mutant: no idle timer is armed.
KeptForever(s, c) ==
    /\ ~Says[s].final /\ Waiting(Track(s)) /\ ~context[c].closed
    /\ UNCHANGED <<context, open>>

\* The context stays open for a sentence already queued, and for nothing else.
Kept(s, c) ==
    /\ ~Says[s].final /\ Waiting(Track(s)) /\ ~context[c].closed
    /\ context' = [context EXCEPT ![c].timer = TRUE] /\ UNCHANGED open

\* Generation ends and playout goes on.  The context ends here also when the
\* vendor ended it with this sentence or the next is out of its timer's reach.
Flushed(s) ==
    LET c == job[s].ctx IN
    /\ Now(s, "speaking") /\ ~context[c].closed
    /\ Kept(s, c) \/ Retire({c})
    /\ Go(s, "playing")
    /\ UNCHANGED <<free, speaker, newest, world, record, faults>>

SpeakFails(s) ==
    LET c == job[s].ctx IN
    /\ Now(s, "speaking")
    /\ IF context[c].closed THEN UNCHANGED faults ELSE Fault
    /\ Retire({c})
    /\ job' = [job EXCEPT ![s].at = "draining", ![s].ctx = None]
    /\ UNCHANGED <<free, speaker, newest, world, record>>

Quiet(s) == speaker' = [speaker EXCEPT ![Line(s)] = None]

Played(s) ==
    /\ Now(s, "playing") /\ ~job[s].slice /\ Quiet(s)
    /\ job' = [job EXCEPT ![s].at = "result", ![s].ctx = None]
    /\ UNCHANGED <<context, open, free, newest, world, record, faults>>

Drains(s) ==
    /\ Now(s, "draining") /\ ~job[s].slice /\ Quiet(s) /\ Go(s, "fallback")
    /\ UNCHANGED <<context, open, free, newest, world, record, faults>>

\* Closing the stream gives up: the pump is cancelled in its first slice, which
\* was heard and is never counted.
DrainTimesOut(s) ==
    /\ job[s].at \in {"playing", "draining"} /\ job[s].slice /\ Quiet(s) /\ Fault
    /\ job' = [job EXCEPT ![s].at = IF Now(s, "playing") THEN "result" ELSE "fallback",
                          ![s].ctx = None, ![s].slice = FALSE, ![s].cuts = @ + 1]
    /\ UNCHANGED <<context, open, free, newest, world, record>>

NextVoice(s) ==
    IF job[s].voice < Says[s].voices
    THEN [job[s] EXCEPT !.at = "ready", !.voice = @ + 1, !.fails = 0, !.spoken = FALSE,
                           !.sounds = 0, !.cuts = 0]
    ELSE [job[s] EXCEPT !.at = "event", !.voice = 1, !.spoken = FALSE, !.sounds = 0, !.cuts = 0]

OneShot(s) ==
    /\ Now(s, "fallback") /\ free > 0
    /\ free' = free - 1 /\ Go(s, "oneshot")
    /\ UNCHANGED <<context, open, speaker, newest, world, record, faults>>

OneShotDone(s) ==
    /\ Now(s, "oneshot") /\ free' = free + 1 /\ Go(s, "result")
    /\ UNCHANGED <<context, open, speaker, newest, world, record, faults>>

\* The vendor answers with no audio: nothing is published or parked.
OneShotEmpty(s) ==
    /\ Now(s, "oneshot") /\ free' = free + 1 /\ Fault
    /\ job' = [job EXCEPT ![s] = NextVoice(s)] /\ Note(s, "empty")
    /\ UNCHANGED <<context, open, speaker, newest, world, tries, aired>>

\* Mutant: what failed is retried, half-spoken or not.
OneShotRetried(s) ==
    /\ Now(s, "oneshot") /\ Fault /\ free' = free + 1
    /\ \/ Go(s, "giving up")
       \/ /\ job[s].fails < MaxRetries
          /\ job' = [job EXCEPT ![s].at = "backoff", ![s].fails = @ + 1, ![s].spoken = FALSE]
    /\ UNCHANGED <<context, open, speaker, newest, world, record>>

\* A half-spoken sentence is never retried, nor one the vendor refused.
OneShotFails(s) ==
    /\ Now(s, "oneshot") /\ Fault /\ free' = free + 1
    /\ \/ Go(s, "giving up")
       \/ /\ ~job[s].spoken /\ job[s].fails < MaxRetries
          /\ job' = [job EXCEPT ![s].at = "backoff", ![s].fails = @ + 1]
    /\ UNCHANGED <<context, open, speaker, newest, world, record>>

Retry(s) ==
    /\ Now(s, "backoff") /\ Go(s, "ready")
    /\ UNCHANGED <<context, open, free, speaker, newest, world, record, faults>>

\* Mutant: what is given up is only logged.
GiveUpLogged(s) ==
    /\ Now(s, "giving up")
    /\ job' = [job EXCEPT ![s] = NextVoice(s)]
    /\ UNCHANGED <<context, open, free, speaker, newest, world, record, faults>>

GiveUp(s) ==
    /\ Now(s, "giving up") /\ Note(s, "parked")
    /\ job' = [job EXCEPT ![s] = NextVoice(s)]
    /\ UNCHANGED <<context, open, free, speaker, newest, world, tries, aired, faults>>

\* Everybody's voice is what billing and the transcript are told of.
Tell(s, times) ==
    /\ Now(s, "result")
    /\ LET told == job[s].results + (IF job[s].voice = Default THEN times ELSE 0)
       IN  job' = [job EXCEPT ![s] = IF job[s].spoken
             THEN [NextVoice(s) EXCEPT !.results = told, !.repeats = @ + times - 1]
             ELSE [job[s] EXCEPT !.at = "push", !.results = told, !.repeats = @ + times - 1]]
    /\ IF job[s].voice = Default THEN Note(s, "result") ELSE UNCHANGED outcome
    /\ UNCHANGED <<context, open, free, speaker, newest, world, tries, aired>>

Result(s) == Tell(s, 1) /\ UNCHANGED faults

\* Its answer is lost on the way, and _retry appends it once more.
ResultRepeated(s) == job[s].voice = Default /\ Tell(s, 2) /\ Fault

\* The whole sentence at once; a track that cannot be joined is only logged.
Push(s) ==
    /\ Now(s, "push") /\ speaker[Line(s)] = None
    /\ \/ job' = [job EXCEPT ![s] = NextVoice(s)] /\ UNCHANGED <<aired, speaker>>
       \/ /\ Heard(s, FALSE)
          /\ speaker' = [speaker EXCEPT ![Line(s)] = s]
    /\ UNCHANGED <<context, open, free, newest, world, outcome, tries, faults>>

Pushed(s) ==
    /\ Now(s, "push") /\ speaker[Line(s)] = s
    /\ job' = [job EXCEPT ![s] = NextVoice(s)] /\ Quiet(s)
    /\ UNCHANGED <<context, open, free, newest, world, record, faults>>

(***************************************************************************)
(* The end of a handling.                                                  *)
(***************************************************************************)
Finish(s) ==
    /\ Now(s, "event") /\ Leave(s, "handled", {})
    /\ IF Says[s].final THEN Note(s, "final") ELSE UNCHANGED outcome
    /\ UNCHANGED <<free, newest, world, tries, aired, faults>>

Ack(s) ==
    /\ Now(s, "handled") /\ Go(s, "acked")
    /\ UNCHANGED <<context, open, free, speaker, newest, world, record, faults>>

\* The processing timeout, or a call nothing retries, which may have gone through.
Break(s) ==
    /\ job[s].at \in Working /\ Fault
    /\ free' = free + (IF Now(s, "oneshot") THEN 1 ELSE 0)
    /\ Leave(s, "pending", {job[s].ctx} \ {None})
    /\ UNCHANGED outcome \/ (Now(s, "result") /\ job[s].voice = Default /\ Note(s, "result"))
    /\ UNCHANGED <<newest, world, tries, aired>>

Crash ==
    /\ \E s \in Sentences : InHand(s) \/ Now(s, "handled")
    /\ Fault
    /\ job' = [s \in Sentences |-> IF InHand(s) \/ Now(s, "handled") THEN Out("pending") ELSE job[s]]
    /\ context' = [c \in Contexts |-> Blank]
    /\ open' = [l \in Lines |-> None] /\ speaker' = [l \in Lines |-> None]
    /\ free' = Slots
    /\ newest' = [t \in Tracks |-> 0]
    /\ aired' = [s \in Sentences |-> None]
    /\ era' = 1 /\ route' = "on"
    /\ UNCHANGED <<turns, outcome, tries>>

(***************************************************************************)
(* The room.                                                               *)
(***************************************************************************)
Reroute ==
    /\ Turn /\ \E to \in {"on", "text", "paused"} \ {route} : route' = to
    /\ UNCHANGED <<job, context, open, free, speaker, newest, era, record, faults>>

\* The room is forgotten with its locks, which those in hand still hold or await.
CleanupRoom ==
    /\ Turn /\ era' = era + 1 /\ route' = "on"
    /\ Retire({open[l] : l \in Lines} \ {None})
    /\ newest' = [t \in Tracks |-> 0]
    /\ UNCHANGED <<job, free, speaker, record, faults>>

Next ==
    \/ \E s \in Sentences :
          \/ Read(s) \/ Reclaim(s) \/ Spent(s) \/ TakeLate(s) \/ TakePaused(s) \/ TakeMute(s) \/ Take(s)
          \/ ParkLate(s) \/ Prepare(s) \/ CacheHit(s) \/ Continue(s) \/ Dial(s) \/ Dialled(s)
          \/ DialFails(s) \/ TakeSlot(s) \/ SlotTooLate(s) \/ Stream(s) \/ Sound(s) \/ SliceDone(s) \/ Flushed(s)
          \/ SpeakFails(s) \/ Played(s) \/ Drains(s) \/ DrainTimesOut(s) \/ OneShot(s) \/ OneShotDone(s)
          \/ OneShotEmpty(s) \/ OneShotFails(s)
          \/ Retry(s) \/ GiveUp(s) \/ Result(s) \/ ResultRepeated(s) \/ Push(s) \/ Pushed(s) \/ Finish(s) \/ Ack(s) \/ Break(s)
    \/ \E c \in Contexts : EndContext(c) \/ ExpireIdle(c) \/ ServerEnds(c)
    \/ Crash \/ Reroute \/ CleanupRoom

Spec == Init /\ [][Next]_vars

(***************************************************************************)
(* Properties.                                                             *)
(***************************************************************************)
\* Every variable has its type.
TypeOK ==
    /\ job \in [Sentences -> [at : Steps, era : 1..MaxTurns + 1, again : BOOLEAN, ahead : SUBSET Sentences,
                              voice : Voices, fails : 0..MaxRetries,
                              ctx : Contexts \cup {None}, slice : BOOLEAN, spoken : BOOLEAN, sounds : Nat, cuts : Nat,
                              results : Nat, repeats : Nat]]
    /\ context \in [Contexts -> [slot : BOOLEAN, closed : BOOLEAN, retired : BOOLEAN,
                                 timer : BOOLEAN, ended : BOOLEAN]]
    /\ open \in [Lines -> Contexts \cup {None}]
    /\ free \in Int
    /\ speaker \in [Lines -> Sentences \cup {None}]
    /\ newest \in [Tracks -> Nat]
    /\ era \in 1..MaxTurns + 1 /\ route \in {"on", "text", "paused"} /\ turns \in 0..MaxTurns
    /\ outcome \in [Sentences -> SUBSET {"result", "parked", "paused", "silent", "empty", "final"}]
    /\ tries \in [Sentences -> 0..MaxAttempts]
    /\ aired \in [Sentences -> 0..MaxTurns + 1]
    /\ faults \in 0..MaxFaults

\* However a sentence or a room ends, each slot of the vendor's plan is free or
\* held once, by a request in flight or by a context, and what holds one will
\* give it back: a sentence is about to speak on it, its idle timer runs, or it
\* is being ended (tts_worker/worker.py:1362, synthesizer.py:33).
SlotsComeBack ==
    /\ free = Slots - Cardinality({c \in Contexts : context[c].slot})
                    - Cardinality({s \in Sentences : Now(s, "oneshot")})
    /\ \A c \in Contexts : context[c].slot =>
          \/ context[c].retired \/ context[c].timer
          \/ \E s \in Sentences : job[s].ctx = c /\ job[s].at \in {"track", "speaking"}

\* However often its synthesis fails, falls back or is retried, a listener hears
\* the opening of a sentence once in one handling (tts_worker/worker.py:1735, 2797),
\* and once more only for each drain cut short in its first slice; billing and the
\* transcript are told of it once, and once more only for each lost answer.
SaidOnce == \A s \in Sentences :
    /\ job[s].sounds <= 1 + job[s].cuts
    /\ job[s].results <= 1 + job[s].repeats

\* Violated: spoken_bytes of zero says that nothing was heard
\* (tts_worker/livekit_publisher.py:186).
ZeroIsSilence == \A s \in Sentences : job[s].at \in {"fallback", "result"} /\ ~job[s].spoken => job[s].sounds = 0

\* Until its room is forgotten, a track says its sentences in the order they
\* arrived; a redelivered one is never said after a sentence that comes later in
\* the conversation (tts_worker/worker.py:877, 1029).
InOrder == [][\A s, u \in Sentences :
    /\ job'[s].sounds > job[s].sounds
    /\ Track(u) = Track(s) /\ u # s /\ aired[u] = era /\ job[s].era = era
    => IF job[s].again THEN Says[s].position = 0 \/ Says[u].position <= Says[s].position
                       ELSE u < s]_vars

\* An acknowledged sentence was published, parked where it can be replayed, had
\* nothing to be said, or the vendor sent no audio for it; and the end of its turn
\* was announced unless its room was paused or it is parked
\* (tts_worker/worker.py:2643, 1933).
NothingDropped == \A s \in Sentences : Now(s, "acked") =>
    /\ outcome[s] \ {"final"} # {}
    /\ Says[s].final => outcome[s] \cap {"final", "paused", "parked"} # {}

\* Violated: a sentence that is acknowledged reached somebody or is kept, also one
\* the vendor sent nothing for (tts_worker/worker.py:2715, against 2648).
NothingVanishes == \A s \in Sentences : Now(s, "acked") => outcome[s] \ {"final", "empty"} # {}
=============================================================================
