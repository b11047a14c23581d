--------------------------- MODULE DubbingProofs ---------------------------
(***************************************************************************)
(* What holds of the dubbing worker for any sentences, batch, plan and     *)
(* bounds: each slot of the plan is free or held once and will come back,  *)
(* a listener hears a sentence once in a handling, nothing acknowledged    *)
(* was dropped, and a track says its sentences in order.                   *)
(***************************************************************************)
EXTENDS Dubbing, FiniteSetTheorems, TLAPS

\* An epoch of the room's is one of those its ends make, and an unread sentence is new.
Elapsed == era <= turns + 1 /\ \A s \in Sentences : job[s].era <= era
Aside == \A s \in Sentences : (~InHand(s) => job[s].era = 1) /\ (Now(s, "unread") => tries[s] = 0)

(***************************************************************************)
(* Slots.                                                                  *)
(***************************************************************************)
Connected == \A s \in Sentences : job[s].at \in {"slot", "track", "speaking", "playing"} => job[s].ctx \in Contexts
Ended == \A c \in Contexts : context[c].ended => ~context[c].slot /\ context[c].retired

\* Who waits for a slot waits for a context of its own, and has none yet.
Unslotted ==
    \A s \in Sentences : Now(s, "slot") =>
        /\ context[job[s].ctx].retired \/ ~context[job[s].ctx].slot
        /\ \A u \in Sentences : Now(u, "slot") /\ job[u].ctx = job[s].ctx => u = s

Held == {c \in Contexts : context[c].slot}
Shots == {s \in Sentences : Now(s, "oneshot")}
Counted == IsFiniteSet(Held) /\ IsFiniteSet(Shots) /\ free = Slots - Cardinality(Held) - Cardinality(Shots)
Uses(j, c) == j.ctx = c /\ j.at \in {"track", "speaking"}
Returning(k) == k.retired \/ k.timer
Kindled == \A c \in Contexts : context[c].slot =>
    Returning(context[c]) \/ \E s \in Sentences : Uses(job[s], c)

(***************************************************************************)
(* What is said, and told.                                                 *)
(***************************************************************************)
\* Whoever is being played holds the publisher's lock of its track and voice.
Audible(j) == j.at \in {"speaking", "playing", "draining"} \/ (j.at = "push" /\ j.spoken)
Locked == \A s \in Sentences : Audible(job[s]) => speaker[<<Track(s), job[s].voice>>] = s

Playing == {"speaking", "playing", "draining"}
Counts(j) ==
    /\ j.sounds = j.cuts + (IF j.spoken \/ j.slice THEN 1 ELSE 0)
    /\ j.slice => ~j.spoken /\ j.at \in Playing
Once == \A s \in Sentences : Counts(job[s])

\* Everybody's voice is told of when it ends, and not before.
Begun == {"queued"} \cup (Working \ {"push", "event"})
Early(j) == j.at \in Begun /\ j.voice = Default
Bounded(j) == j.results <= 1 + j.repeats
NotYetTold ==
    \A s \in Sentences :
        /\ Bounded(job[s]) /\ (Early(job[s]) => job[s].results = 0)
        /\ Now(s, "queued") => job[s].voice = Default

Told(j) == j.at \in {"push", "event", "handled", "acked"} \/ (j.at \in Working /\ j.voice # Default)
Over(j) == j.at \in {"handled", "acked"}
Heeded(what) == what \cap {"result", "parked", "paused", "silent", "empty"} # {}
Closed(what) == what \cap {"final", "paused", "parked"} # {}
Accounted ==
    \A s \in Sentences :
        /\ Told(job[s]) => Heeded(outcome[s])
        /\ Over(job[s]) /\ Says[s].final => Closed(outcome[s])

(***************************************************************************)
(* Order.                                                                  *)
(***************************************************************************)
ReadInOrder == \A s, u \in Sentences : Now(s, "unread") /\ s < u => job[u].at \in {"unread", "absent"}
Unsaid == \A s \in Sentences : job[s].at \in {"unread", "absent"} => aired[s] = None
Past == \A s \in Sentences : aired[s] <= era

\* A track is one sentence's at a time.
Front == \A s \in Sentences : job[s].at \in Working => job[s].ahead = {}
InLine ==
    \A s, u \in Sentences :
        s # u /\ Track(s) = Track(u) /\ InHand(s) /\ InHand(u) /\ job[s].era = job[u].era
            => s \in job[u].ahead \/ u \in job[s].ahead

\* What came after a sentence delivered once waits for it.
Later ==
    \A s, u \in Sentences :
        InHand(s) /\ ~job[s].again /\ job[s].era = era /\ Track(s) = Track(u) /\ s < u =>
            aired[u] # era /\ (InHand(u) /\ job[u].era = era => s \in job[u].ahead)

\* The position a track has reached is that of the furthest sentence said.
Voicing == Working \ {"late", "taken", "event"}
Marked ==
    \A s \in Sentences :
        aired[s] = era \/ (job[s].at \in Voicing /\ job[s].era = era) => newest[Track(s)] >= Says[s].position
Foremost ==
    \A s, u \in Sentences :
        /\ job[s].at \in Working \ {"late"} /\ job[s].again /\ job[s].era = era /\ Says[s].position > 0
        /\ Track(u) = Track(s) /\ u # s /\ aired[u] = era
        => Says[u].position <= Says[s].position

SlotInv == Connected /\ Ended /\ Unslotted /\ Counted /\ Kindled
VoiceInv == Locked /\ Once /\ NotYetTold /\ Accounted
OrderInv == ReadInOrder /\ Unsaid /\ Past /\ Front /\ InLine /\ Later /\ Marked /\ Foremost
IInv == TypeOK /\ Elapsed /\ Aside /\ SlotInv /\ VoiceInv /\ OrderInv

-----------------------------------------------------------------------------
(* Handlings, and how a step changes one.                                  *)

Job == [at : Steps, era : 1..MaxTurns + 1, again : BOOLEAN, ahead : SUBSET Sentences,
        voice : Voices, fails : 0..MaxRetries,
        ctx : Contexts \cup {None}, slice : BOOLEAN, spoken : BOOLEAN, sounds : Nat, cuts : Nat,
        results : Nat, repeats : Nat]

LEMMA Numbers ==
    /\ Slots \in Nat \ {0} /\ MaxRetries \in Nat /\ MaxAttempts \in Nat \ {0} /\ MaxVoices \in Nat \ {0}
    /\ MaxFaults \in Nat /\ MaxTurns \in Nat
    /\ \A s \in Sentences : /\ s \in Nat /\ s # None /\ Track(s) \in Tracks /\ Says[s].position \in Nat
                            /\ Says[s].voices \in Voices
    /\ \A c \in Contexts : c \in Nat /\ c # None
BY WellFormed, Bounds DEF Track

LEMMA Jobs == TypeOK => job \in [Sentences -> Job]
BY DEF TypeOK, Job

\* What changes of s is of s alone.
Becomes(s, j) == j \in Job /\ job' = [job EXCEPT ![s] = j]
Place(s, j) == j.era = job[s].era /\ j.again = job[s].again /\ j.ahead = job[s].ahead

LEMMA Alone ==
    ASSUME TypeOK, NEW s \in Sentences, NEW j, Becomes(s, j)
    PROVE  job' \in [Sentences -> Job] /\ job'[s] = j /\ \A u \in Sentences \ {s} : job'[u] = job[u]
BY Jobs DEF Becomes

\* A new handling, or the end of one.
LEMMA Outside ==
    ASSUME NEW step \in Steps
    PROVE  /\ Out(step) \in Job /\ Out(step).at = step /\ Out(step).ahead = {} /\ Out(step).era = 1
           /\ ~Out(step).spoken /\ ~Out(step).slice /\ Out(step).sounds = 0 /\ Out(step).cuts = 0
           /\ Out(step).results = 0 /\ Out(step).repeats = 0 /\ Out(step).ctx = None
           /\ Out(step).voice = 1
BY Numbers DEF Out, Job, Voices

\* Nothing more was heard, or told.
Unheard(s, j) == j.slice = job[s].slice /\ j.spoken = job[s].spoken /\ j.sounds = job[s].sounds /\ j.cuts = job[s].cuts
Untold(s, j) == j.results = job[s].results /\ j.repeats = job[s].repeats

\* Only where it stands changes.
Same(s, j) == Place(s, j) /\ j.voice = job[s].voice /\ j.fails = job[s].fails /\ Unheard(s, j) /\ Untold(s, j)

LEMMA StillCounts ==
    ASSUME NEW s, NEW j, Unheard(s, j), Counts(job[s]), job[s].at \in Playing => j.at \in Playing \/ ~job[s].slice
    PROVE  Counts(j)
BY DEF Unheard, Counts

LEMMA Goes ==
    ASSUME TypeOK, NEW s \in Sentences, NEW step \in Steps, Go(s, step)
    PROVE  \E j : Becomes(s, j) /\ j.at = step /\ Same(s, j) /\ j.ctx = job[s].ctx
<1> DEFINE j == [job[s] EXCEPT !.at = step]
<1>1. job[s] \in Job  BY Jobs
<1>2. j \in Job /\ j.at = step  BY <1>1 DEF Job
<1>3. Same(s, j) /\ j.ctx = job[s].ctx  BY <1>1 DEF Job, Same, Place, Unheard, Untold
<1>4. job' = [job EXCEPT ![s] = j]  BY DEF Go
<1> HIDE DEF j
<1> QED  BY <1>2, <1>3, <1>4 DEF Becomes

LEMMA Connects ==
    ASSUME TypeOK, NEW s \in Sentences, NEW step \in Steps, NEW c \in Contexts \cup {None},
           job' = [job EXCEPT ![s].at = step, ![s].ctx = c]
    PROVE  \E j : Becomes(s, j) /\ j.at = step /\ Same(s, j) /\ j.ctx = c
<1> DEFINE j == [job[s] EXCEPT !.at = step, !.ctx = c]
<1>1. job[s] \in Job  BY Jobs
<1>2. j \in Job /\ j.at = step /\ j.ctx = c  BY <1>1 DEF Job
<1>3. Same(s, j)  BY <1>1 DEF Job, Same, Place, Unheard, Untold
<1>4. job' = [job EXCEPT ![s] = j]  BY Jobs
<1> HIDE DEF j
<1> QED  BY <1>2, <1>3, <1>4 DEF Becomes

\* The next voice, with what was told so far.
Turns(s, j) ==
    /\ Place(s, j) /\ ~j.spoken /\ ~j.slice /\ j.sounds = 0 /\ j.cuts = 0 /\ j.ctx = job[s].ctx
    /\ \/ j.at = "ready" /\ j.voice # Default
       \/ j.at = "event" /\ j.voice = Default

LEMMA Continues ==
    ASSUME TypeOK, NEW s \in Sentences, NEW c \in Contexts, job' = [job EXCEPT ![s].at = "track", ![s].ctx = c]
    PROVE  \E j : Becomes(s, j) /\ j.at = "track" /\ Same(s, j) /\ j.ctx = c
<1> DEFINE j == [job[s] EXCEPT !.at = "track", !.ctx = c]
<1>1. job[s] \in Job /\ "track" \in Steps  BY Jobs DEF Steps, Working
<1>2. j \in Job /\ j.at = "track" /\ j.ctx = c  BY <1>1 DEF Job
<1>3. Same(s, j)  BY <1>1 DEF Job, Same, Place, Unheard, Untold
<1>4. job' = [job EXCEPT ![s] = j]  BY Jobs
<1> HIDE DEF j
<1> QED  BY <1>2, <1>3, <1>4 DEF Becomes

LEMMA NextVoices ==
    ASSUME TypeOK, NEW s \in Sentences, ~job[s].slice
    PROVE  NextVoice(s) \in Job /\ Turns(s, NextVoice(s)) /\ Untold(s, NextVoice(s))
<1>1. job[s] \in Job /\ Says[s].voices \in 1..MaxVoices /\ 1 \in Voices /\ {"ready", "event"} \subseteq Steps
  BY Jobs, Numbers DEF Voices, Steps, Working
<1> 0 \in 0..MaxRetries  BY Numbers
<1>2. CASE job[s].voice < Says[s].voices
  <2> DEFINE v == job[s].voice + 1
  <2>1. v \in Voices /\ v # Default  BY <1>1, <1>2, Numbers DEF Job, Voices, Default
  <2>2. NextVoice(s) = [job[s] EXCEPT !.at = "ready", !.voice = v, !.fails = 0, !.spoken = FALSE, !.sounds = 0, !.cuts = 0]
    BY <1>2 DEF NextVoice
  <2> HIDE DEF v
  <2> DEFINE j == NextVoice(s)
  <2>3. "ready" \in Steps /\ j = [job[s] EXCEPT !.at = "ready", !.voice = v, !.fails = 0, !.spoken = FALSE, !.sounds = 0, !.cuts = 0]
    BY <1>1, <2>2
  <2> HIDE DEF j
  <2>4. /\ j \in Job /\ Place(s, j) /\ j.at = "ready" /\ j.voice = v /\ ~j.spoken /\ ~j.slice /\ j.sounds = 0
        /\ j.cuts = 0 /\ j.ctx = job[s].ctx /\ Untold(s, j)
    <3>1. j \in Job  BY <1>1, <2>1, <2>3 DEF Job
    <3>2. Place(s, j)  BY <1>1, <2>3 DEF Job, Place
    <3> QED  BY <1>1, <2>3, <3>1, <3>2 DEF Job, Untold
  <2>5. Turns(s, j)  BY <2>1, <2>4 DEF Turns
  <2> QED  BY <2>4, <2>5 DEF j
<1>3. CASE ~(job[s].voice < Says[s].voices)
  <2>1. NextVoice(s) = [job[s] EXCEPT !.at = "event", !.voice = 1, !.spoken = FALSE, !.sounds = 0, !.cuts = 0]
    BY <1>3 DEF NextVoice
  <2> DEFINE j == NextVoice(s)
  <2>2. "event" \in Steps /\ j = [job[s] EXCEPT !.at = "event", !.voice = 1, !.spoken = FALSE, !.sounds = 0, !.cuts = 0]
    BY <1>1, <2>1
  <2> HIDE DEF j
  <2>3. /\ j \in Job /\ Place(s, j) /\ j.at = "event" /\ j.voice = 1 /\ ~j.spoken /\ ~j.slice /\ j.sounds = 0
        /\ j.cuts = 0 /\ j.ctx = job[s].ctx /\ Untold(s, j)
    <3>1. j \in Job  BY <1>1, <2>2 DEF Job
    <3>2. Place(s, j)  BY <1>1, <2>2 DEF Job, Place
    <3> QED  BY <1>1, <2>2, <3>1, <3>2 DEF Job, Untold
  <2>4. Turns(s, j)  BY <2>3 DEF Turns, Default
  <2> QED  BY <2>3, <2>4 DEF j
<1> QED  BY <1>2, <1>3

LEMMA Hears ==
    ASSUME TypeOK, Once, NEW s \in Sentences, NEW slice \in BOOLEAN, ~job[s].spoken, ~job[s].slice,
           slice => job[s].at \in Playing, Heard(s, slice)
    PROVE  \E j : /\ Becomes(s, j) /\ Place(s, j) /\ j.at = job[s].at /\ j.voice = job[s].voice
                  /\ j.ctx = job[s].ctx /\ j.slice = slice /\ j.spoken = ~slice /\ Counts(j) /\ Untold(s, j)
<1> DEFINE n == job[s].sounds + 1
           j == [job[s] EXCEPT !.slice = slice, !.spoken = ~slice, !.sounds = n]
<1>1. job[s] \in Job /\ Counts(job[s])  BY Jobs DEF Once
<1>2. job' = [job EXCEPT ![s] = j]  BY Jobs DEF Heard
<1>3. n \in Nat /\ n = job[s].cuts + 1  BY <1>1 DEF Job, Counts
<1> HIDE DEF n
<1>4. j \in Job  BY <1>1, <1>3 DEF Job
<1>5. /\ Place(s, j) /\ j.at = job[s].at /\ j.voice = job[s].voice /\ j.ctx = job[s].ctx /\ Untold(s, j)
      /\ j.sounds = n /\ j.cuts = job[s].cuts /\ j.slice = slice /\ j.spoken = ~slice
  BY <1>1 DEF Job, Place, Untold
<1> HIDE DEF j
<1>6. Counts(j)
  <2>1. j.sounds = j.cuts + 1  BY <1>3, <1>5
  <2>2. j.spoken \/ j.slice  BY <1>5
  <2>3. j.slice => ~j.spoken /\ j.at \in Playing  BY <1>5
  <2> QED  BY <2>1, <2>2, <2>3 DEF Counts
<1> QED  BY <1>2, <1>4, <1>5, <1>6 DEF Becomes

\* A slice that is through was heard and is counted; one that is cut was heard only.
LEMMA SliceEnds ==
    ASSUME TypeOK, Once, NEW s \in Sentences, SliceDone(s)
    PROVE  \E j : /\ Becomes(s, j) /\ Place(s, j) /\ j.at = job[s].at /\ j.at \in Playing /\ j.voice = job[s].voice
                  /\ j.ctx = job[s].ctx /\ Counts(j) /\ Untold(s, j)
<1> DEFINE j == [job[s] EXCEPT !.slice = FALSE, !.spoken = TRUE]
<1>1. job[s] \in Job /\ Counts(job[s]) /\ job[s].slice  BY Jobs DEF Once, SliceDone
<1>2. job' = [job EXCEPT ![s] = j]  BY Jobs DEF SliceDone
<1>3. j \in Job  BY <1>1 DEF Job
<1>4. /\ Place(s, j) /\ j.at = job[s].at /\ j.voice = job[s].voice /\ j.ctx = job[s].ctx /\ Untold(s, j)
      /\ j.sounds = job[s].sounds /\ j.cuts = job[s].cuts /\ ~j.slice /\ j.spoken
  BY <1>1 DEF Job, Place, Untold
<1> HIDE DEF j
<1>5. Counts(j) /\ j.at \in Playing  BY <1>1, <1>4 DEF Counts
<1> QED  BY <1>2, <1>3, <1>4, <1>5 DEF Becomes

LEMMA CutsShort ==
    ASSUME TypeOK, Once, NEW s \in Sentences, DrainTimesOut(s)
    PROVE  \E j : /\ Becomes(s, j) /\ Place(s, j) /\ j.at \in {"result", "fallback"} /\ j.voice = job[s].voice
                  /\ Counts(j) /\ Untold(s, j)
<1> DEFINE step == IF Now(s, "playing") THEN "result" ELSE "fallback"
           n == job[s].cuts + 1
           j == [job[s] EXCEPT !.at = step, !.ctx = None, !.slice = FALSE, !.cuts = n]
<1>1. job[s] \in Job /\ Counts(job[s]) /\ job[s].slice  BY Jobs DEF Once, DrainTimesOut
<1>2. job' = [job EXCEPT ![s] = j]  BY Jobs DEF DrainTimesOut
<1>3. n \in Nat /\ n = job[s].sounds /\ step \in {"result", "fallback"}  BY <1>1 DEF Job, Counts
<1>4. step \in Steps  BY <1>3 DEF Steps, Working
<1> HIDE DEF n, step
<1>5. j \in Job  BY <1>1, <1>3, <1>4 DEF Job
<1>6. /\ Place(s, j) /\ j.at = step /\ j.voice = job[s].voice /\ Untold(s, j)
      /\ j.sounds = job[s].sounds /\ j.cuts = n /\ ~j.slice /\ ~j.spoken
  <2>1. ~job[s].spoken  BY <1>1 DEF Counts
  <2> QED  BY <1>1, <2>1 DEF Job, Place, Untold
<1> HIDE DEF j
<1>7. Counts(j)  BY <1>3, <1>6 DEF Counts
<1> QED  BY <1>2, <1>3, <1>5, <1>6, <1>7 DEF Becomes

LEMMA FailsAgain ==
    ASSUME TypeOK, NEW s \in Sentences, OneShotFails(s)
    PROVE  \E j : /\ Becomes(s, j) /\ Place(s, j) /\ j.at \in {"giving up", "backoff"} /\ j.voice = job[s].voice
                  /\ j.ctx = job[s].ctx /\ Unheard(s, j) /\ Untold(s, j)
<1>1. CASE Go(s, "giving up")
  <2>1. "giving up" \in Steps  BY DEF Steps, Working
  <2>2. PICK j : Becomes(s, j) /\ j.at = "giving up" /\ Same(s, j) /\ j.ctx = job[s].ctx  BY <1>1, <2>1, Goes
  <2> QED  BY <2>2 DEF Same
<1>2. CASE job[s].fails < MaxRetries /\ job' = [job EXCEPT ![s].at = "backoff", ![s].fails = @ + 1]
  <2> DEFINE j == [job[s] EXCEPT !.at = "backoff", !.fails = @ + 1]
  <2>1. job[s] \in Job  BY Jobs
  <2>2. job[s].fails + 1 \in 0..MaxRetries  BY <1>2, <2>1, Numbers DEF Job
  <2>3. j \in Job /\ j.at = "backoff"  BY <2>1, <2>2 DEF Job, Steps, Working
  <2>4. Place(s, j) /\ j.voice = job[s].voice /\ j.ctx = job[s].ctx /\ Unheard(s, j) /\ Untold(s, j)
    BY <2>1 DEF Job, Place, Unheard, Untold
  <2>5. job' = [job EXCEPT ![s] = j]  BY <1>2, Jobs
  <2> HIDE DEF j
  <2> QED  BY <2>3, <2>4, <2>5 DEF Becomes
<1> QED  BY <1>1, <1>2 DEF OneShotFails

LEMMA Tells ==
    ASSUME TypeOK, NEW s \in Sentences, NEW times \in {1, 2}, ~job[s].slice, Tell(s, times)
    PROVE  \E j : /\ Becomes(s, j) /\ Place(s, j) /\ j.repeats = job[s].repeats + times - 1
                  /\ j.results = job[s].results + (IF job[s].voice = Default THEN times ELSE 0)
                  /\ \/ job[s].spoken /\ Turns(s, j)
                     \/ ~job[s].spoken /\ j.at = "push" /\ j.voice = job[s].voice /\ j.ctx = job[s].ctx /\ Unheard(s, j)
<1> DEFINE n == job[s].results + (IF job[s].voice = Default THEN times ELSE 0)
           m == job[s].repeats + times - 1
           v == NextVoice(s)
<1>1. job[s] \in Job  BY Jobs
<1>2. n \in Nat /\ m \in Nat  BY <1>1 DEF Job
<1>3. v \in Job /\ Turns(s, v) /\ Untold(s, v)  BY NextVoices
<1>4. /\ job' = [job EXCEPT ![s] = IF job[s].spoken
             THEN [NextVoice(s) EXCEPT !.results = n, !.repeats = @ + times - 1]
             ELSE [job[s] EXCEPT !.at = "push", !.results = n, !.repeats = @ + times - 1]]
  BY DEF Tell
<1>5. v.repeats = job[s].repeats  BY <1>3 DEF Untold
<1>6. CASE job[s].spoken
  <2> DEFINE j == [v EXCEPT !.results = n, !.repeats = m]
  <2>1. job' = [job EXCEPT ![s] = j]
    <3>1. [v EXCEPT !.results = n, !.repeats = @ + times - 1] = j  BY <1>3, <1>5 DEF Job
    <3>2. job' = [job EXCEPT ![s] = [v EXCEPT !.results = n, !.repeats = @ + times - 1]]  BY <1>4, <1>6
    <3> QED  BY <3>1, <3>2
  <2> HIDE DEF n, m, v
  <2>2. j \in Job /\ j.results = n /\ j.repeats = m  BY <1>2, <1>3 DEF Job
  <2>3. Turns(s, j) /\ Place(s, j)  BY <1>3 DEF Turns, Place, Job
  <2> HIDE DEF j
  <2> USE DEF n, m
  <2> QED  BY <1>6, <2>1, <2>2, <2>3 DEF Becomes
<1>7. CASE ~job[s].spoken
  <2> DEFINE j == [job[s] EXCEPT !.at = "push", !.results = n, !.repeats = m]
  <2>1. job' = [job EXCEPT ![s] = j]
    <3>1. [job[s] EXCEPT !.at = "push", !.results = n, !.repeats = @ + times - 1] = j  BY <1>1 DEF Job
    <3>2. job' = [job EXCEPT ![s] = [job[s] EXCEPT !.at = "push", !.results = n, !.repeats = @ + times - 1]]
      BY <1>4, <1>7
    <3> QED  BY <3>1, <3>2
  <2> HIDE DEF n, m
  <2>2. j \in Job /\ j.results = n /\ j.repeats = m /\ j.at = "push"  BY <1>1, <1>2 DEF Job, Steps, Working
  <2>3. Place(s, j) /\ j.voice = job[s].voice /\ j.ctx = job[s].ctx /\ Unheard(s, j)
    BY <1>1 DEF Place, Job, Unheard
  <2> HIDE DEF j
  <2> USE DEF n, m
  <2> QED  BY <1>7, <2>1, <2>2, <2>3 DEF Becomes
<1> QED  BY <1>6, <1>7

\* The steps of saying and telling.
Telling(s) == Result(s) \/ ResultRepeated(s)
Voicings(s) == \/ Sound(s) \/ SliceDone(s) \/ DrainTimesOut(s) \/ OneShotEmpty(s) \/ OneShotFails(s)
               \/ GiveUp(s) \/ Telling(s) \/ Push(s) \/ Pushed(s)

LEMMA TellsOnce ==
    ASSUME NEW s, Telling(s)
    PROVE  \E times \in {1, 2} : Tell(s, times) /\ (times = 2 => job[s].voice = Default)
BY DEF Telling, Result, ResultRepeated

LEMMA NoSlice == ASSUME Once, NEW s \in Sentences, job[s].at \notin Playing PROVE ~job[s].slice
BY DEF Once, Counts

-----------------------------------------------------------------------------
(* Types.                                                                  *)

Slip == [slot : BOOLEAN, closed : BOOLEAN, retired : BOOLEAN, timer : BOOLEAN, ended : BOOLEAN]
Outcomes == {"result", "parked", "paused", "silent", "empty", "final"}

Types ==
    /\ job \in [Sentences -> Job] /\ context \in [Contexts -> Slip] /\ open \in [Lines -> Contexts \cup {None}]
    /\ free \in Int /\ speaker \in [Lines -> Sentences \cup {None}] /\ newest \in [Tracks -> Nat]
    /\ era \in 1..MaxTurns + 1 /\ route \in {"on", "text", "paused"} /\ turns \in 0..MaxTurns
    /\ outcome \in [Sentences -> SUBSET Outcomes] /\ tries \in [Sentences -> 0..MaxAttempts]
    /\ aired \in [Sentences -> 0..MaxTurns + 1] /\ faults \in 0..MaxFaults

LEMMA Typed == TypeOK => Types
BY DEF TypeOK, Types, Job, Slip, Outcomes

LEMMA TypedNext == Types' => TypeOK'
BY DEF TypeOK, Types, Job, Slip, Outcomes

LEMMA TypedNow == Types => TypeOK
BY DEF TypeOK, Types, Job, Slip, Outcomes

LEMMA Slips == Blank \in Slip /\ Fresh \in Slip
BY DEF Blank, Fresh, Slip

LEMMA LineOf == ASSUME TypeOK, NEW s \in Sentences PROVE Line(s) \in Lines /\ job[s].voice \in Voices
BY Jobs, Numbers DEF Line, Lines, Job

\* What is taken out of service keeps its slot until it is ended.
LEMMA Retires ==
    ASSUME TypeOK, NEW cs, Retire(cs)
    PROVE  /\ context' \in [Contexts -> Slip] /\ open' \in [Lines -> Contexts \cup {None}]
           /\ \A c \in Contexts :
                 /\ context'[c].slot = context[c].slot /\ context'[c].ended = context[c].ended
                 /\ context'[c].retired <=> context[c].retired \/ c \in cs
                 /\ c \notin cs => context'[c] = context[c]
<1>1. context \in [Contexts -> Slip]  BY Typed DEF Types
<1>2. open \in [Lines -> Contexts \cup {None}]  BY Typed DEF Types
<1>3. \A c \in Contexts : context[c] \in Slip  BY <1>1
<1>4. \A c \in Contexts :
         /\ context'[c] \in Slip
         /\ context'[c].slot = context[c].slot /\ context'[c].ended = context[c].ended
         /\ context'[c].retired <=> context[c].retired \/ c \in cs
         /\ c \notin cs => context'[c] = context[c]
  <2> TAKE c \in Contexts
  <2>1. context[c] \in Slip  BY <1>3
  <2>2. context'[c] = IF c \in cs /\ ~context[c].retired
                        THEN [context[c] EXCEPT !.retired = TRUE, !.timer = FALSE] ELSE context[c]
    BY Zenon DEF Retire
  <2>3. CASE c \in cs /\ ~context[c].retired
    <3> DEFINE k == [context[c] EXCEPT !.retired = TRUE, !.timer = FALSE]
    <3>1. k \in Slip /\ k.slot = context[c].slot /\ k.ended = context[c].ended /\ k.retired = TRUE
      BY <2>1 DEF Slip
    <3>2. context'[c] = k  BY <2>2, <2>3
    <3> HIDE DEF k
    <3> QED  BY <2>3, <3>1, <3>2
  <2>4. CASE ~(c \in cs /\ ~context[c].retired)
    <3>1. context'[c] = context[c]  BY <2>2, <2>4
    <3> QED  BY <2>1, <2>4, <3>1
  <2> QED  BY <2>3, <2>4
<1>5. context' \in [Contexts -> Slip]
  <2>1. \E f : context' = [c \in Contexts |-> f[c]]
    <3> DEFINE f == [c \in Contexts |-> IF c \in cs /\ ~context[c].retired
                     THEN [context[c] EXCEPT !.retired = TRUE, !.timer = FALSE] ELSE context[c]]
    <3>1. context' = f  BY Zenon DEF Retire
    <3>2. f = [c \in Contexts |-> f[c]]  OBVIOUS
    <3> HIDE DEF f
    <3> QED  BY <3>1, <3>2
  <2> QED  BY <2>1, <1>4
<1>6. open' \in [Lines -> Contexts \cup {None}]
  <2>1. open' = [l \in Lines |-> IF open[l] \in cs THEN None ELSE open[l]]  BY Zenon DEF Retire
  <2> QED  BY <1>2, <2>1
<1> QED  BY <1>4, <1>5, <1>6

LEMMA Marks ==
    ASSUME TypeOK, NEW c \in Contexts, NEW b \in BOOLEAN,
           \/ context' = [context EXCEPT ![c].timer = b]
           \/ context' = [context EXCEPT ![c].closed = b]
    PROVE  /\ context' \in [Contexts -> Slip]
           /\ \A d \in Contexts :
                 /\ context'[d].slot = context[d].slot /\ context'[d].ended = context[d].ended
                 /\ context'[d].retired = context[d].retired
                 /\ d # c => context'[d] = context[d]
<1>1. context \in [Contexts -> Slip]  BY Typed DEF Types
<1>2. context[c] \in Slip  BY <1>1
<1> DEFINE t == [context[c] EXCEPT !.timer = b]
           k == [context[c] EXCEPT !.closed = b]
<1>3. t \in Slip /\ t.slot = context[c].slot /\ t.ended = context[c].ended /\ t.retired = context[c].retired
  BY <1>2 DEF Slip
<1>4. k \in Slip /\ k.slot = context[c].slot /\ k.ended = context[c].ended /\ k.retired = context[c].retired
  BY <1>2 DEF Slip
<1>5. context' = [context EXCEPT ![c] = t] \/ context' = [context EXCEPT ![c] = k]  OBVIOUS
<1> HIDE DEF t, k
<1> QED  BY <1>1, <1>3, <1>4, <1>5

LEMMA TakesSlot ==
    ASSUME TypeOK, NEW c \in Contexts, context' = [context EXCEPT ![c].slot = TRUE]
    PROVE  /\ context' \in [Contexts -> Slip]
           /\ context'[c].slot /\ context'[c].retired = context[c].retired /\ context'[c].ended = context[c].ended
           /\ \A d \in Contexts \ {c} : context'[d] = context[d]
<1>1. context \in [Contexts -> Slip]  BY Typed DEF Types
<1> DEFINE k == [context[c] EXCEPT !.slot = TRUE]
<1>2. k \in Slip /\ k.slot = TRUE /\ k.ended = context[c].ended /\ k.retired = context[c].retired
  BY <1>1 DEF Slip
<1>3. context' = [context EXCEPT ![c] = k]  OBVIOUS
<1> HIDE DEF k
<1> QED  BY <1>1, <1>2, <1>3

-----------------------------------------------------------------------------
(* What a step does to the order of the sentences.                         *)

Entering(s) ==
    /\ job[s].at \in {"unread", "pending"}
    /\ Now(s, "unread") => \A u \in Sentences : u < s => ~Now(u, "unread")
    /\ \E again \in BOOLEAN : (again <=> Now(s, "pending")) /\ Enter(s, again)

\* In hand, and stays there.
Moving(s) ==
    /\ \E j : /\ Becomes(s, j) /\ Place(s, j) /\ j.at \in Working
              /\ j.at = "late" => Now(s, "queued")
              /\ j.at \in Voicing => job[s].at \in Voicing \/ newest'[Track(s)] >= Says[s].position
              /\ j.sounds # job[s].sounds /\ j.sounds # 0 => job[s].at \in Voicing
    /\ \/ Turned(s) /\ (Superseded(s) => job'[s].at = "late")
       \/ job[s].at \in Working \ {"late"}
    /\ newest' \in [Tracks -> Nat] /\ \A t \in Tracks : newest'[t] >= newest[t]
    /\ aired' = aired \/ (job[s].at \in Voicing /\ aired' = [aired EXCEPT ![s] = job[s].era])
    /\ UNCHANGED <<era, turns, tries>>

Leaving(s) ==
    /\ InHand(s)
    /\ \E step \in {"handled", "pending"} :
          job' = [u \in Sentences |-> IF u = s THEN Out(step) ELSE [job[u] EXCEPT !.ahead = @ \ {s}]]
    /\ UNCHANGED <<aired, newest, era, turns, tries>>

Closing(s) ==
    /\ job[s].at \in {"pending", "handled"} /\ Go(s, "acked")
    /\ UNCHANGED <<aired, newest, era, turns, tries>>

Forgetting ==
    /\ era' = era + 1 /\ turns' = turns + 1 /\ newest' = [t \in Tracks |-> 0]
    /\ UNCHANGED <<job, aired, tries>>

Resting == turns' \in {turns, turns + 1} /\ UNCHANGED <<job, aired, newest, era, tries>>

Places == {"late", "taken", "event"}
LEMMA Positions ==
    ASSUME TypeOK
    PROVE  newest \in [Tracks -> Nat] /\ \A t \in Tracks : newest[t] >= newest[t]
BY Typed DEF Types

\* Once its voices are known, a sentence goes on among the steps that say it.
LEMMA Speaks ==
    ASSUME TypeOK, NEW s \in Sentences, NEW j, Becomes(s, j), Place(s, j), j.at \in Working \ {"late", "taken"},
           job[s].at \in Voicing, UNCHANGED <<newest, era, turns, tries>>,
           aired' = aired \/ aired' = [aired EXCEPT ![s] = job[s].era]
    PROVE  Moving(s)
<1>1. newest' \in [Tracks -> Nat] /\ \A t \in Tracks : newest'[t] >= newest[t]  BY Positions
<1>2. job[s].at \in Working \ {"late"} /\ j.at # "late"  BY DEF Voicing, Working
<1>3. j.at \in Working  OBVIOUS
<1> QED  BY <1>1, <1>2, <1>3 DEF Moving

LEMMA Served ==
    ASSUME TypeOK, NEW s \in Sentences,
           \/ CacheHit(s) \/ Dial(s) \/ DialFails(s) \/ TakeSlot(s) \/ Stream(s) \/ Flushed(s) \/ Drains(s)
           \/ OneShot(s) \/ OneShotDone(s) \/ Retry(s)
    PROVE  Moving(s)
<1>1. PICK step \in Voicing : Go(s, step) /\ job[s].at \in Voicing
  BY DEF CacheHit, Dial, DialFails, TakeSlot, Stream, Flushed, Drains, OneShot, OneShotDone, Retry, Now, Voicing, Working
<1>2. UNCHANGED <<newest, era, turns, tries, aired>>
  BY DEF CacheHit, Dial, DialFails, TakeSlot, Stream, Flushed, Drains, OneShot, OneShotDone, Retry, world, record
<1>3. step \in Steps /\ step \in Working \ {"late", "taken"}  BY DEF Steps, Voicing, Working
<1>4. PICK j : Becomes(s, j) /\ j.at = step /\ Same(s, j)  BY <1>1, <1>3, Goes
<1> QED  BY <1>1, <1>2, <1>3, <1>4, Speaks DEF Same

LEMMA Linked ==
    ASSUME TypeOK, NEW s \in Sentences,
           Continue(s) \/ Dialled(s) \/ SlotTooLate(s) \/ SpeakFails(s) \/ Played(s)
    PROVE  Moving(s)
<1>1. PICK step \in Voicing, c \in Contexts \cup {None} :
         job' = [job EXCEPT ![s].at = step, ![s].ctx = c] /\ job[s].at \in Voicing
  <2>1. open[Line(s)] \in Contexts \cup {None}  BY LineOf, Typed DEF Types
  <2>2. CASE Continue(s)  BY <2>1, <2>2 DEF Continue, Now, Voicing, Working
  <2>3. CASE Dialled(s)  BY <2>3 DEF Dialled, Now, Voicing, Working
  <2>4. CASE SlotTooLate(s)  BY <2>4 DEF SlotTooLate, Now, Voicing, Working
  <2>5. CASE SpeakFails(s)  BY <2>5 DEF SpeakFails, Now, Voicing, Working
  <2>6. CASE Played(s)  BY <2>6 DEF Played, Now, Voicing, Working
  <2> QED  BY <2>2, <2>3, <2>4, <2>5, <2>6
<1>2. UNCHANGED <<newest, era, turns, tries, aired>>
  BY DEF Continue, Dialled, SlotTooLate, SpeakFails, Played, world, record
<1>3. step \in Steps /\ step \in Working \ {"late", "taken"}  BY DEF Steps, Voicing, Working
<1>4. PICK j : Becomes(s, j) /\ j.at = step /\ Same(s, j)  BY <1>1, <1>3, Connects
<1> QED  BY <1>1, <1>2, <1>3, <1>4, Speaks DEF Same

LEMMA Unspoken ==
    ASSUME TypeOK, Locked, NEW s \in Sentences, Now(s, "push"), speaker[Line(s)] = None
    PROVE  ~job[s].spoken
BY Numbers DEF Locked, Audible, Now, Line

LEMMA Voiced ==
    ASSUME TypeOK, Locked, Once, NEW s \in Sentences, Voicings(s)
    PROVE  Moving(s)
<1> USE DEF Voicings
<1>1. \E j : Becomes(s, j) /\ Place(s, j) /\ j.at \in Working \ {"late", "taken"}
  <2>1. CASE Sound(s)
    <3>1. /\ ~job[s].spoken /\ ~job[s].slice /\ Heard(s, TRUE) /\ job[s].at \in Playing
      BY <2>1 DEF Sound, Playing
    <3>2. PICK j : Becomes(s, j) /\ Place(s, j) /\ j.at = job[s].at  BY <3>1, Hears
    <3> QED  BY <3>1, <3>2 DEF Working, Playing
  <2>2. CASE OneShotFails(s)  BY <2>2, FailsAgain DEF Working
  <2>3. CASE Telling(s)
    <3>1. ~job[s].slice  BY <2>3, NoSlice DEF Telling, Result, ResultRepeated, Tell, Now, Playing
    <3> QED  BY <2>3, <3>1, TellsOnce, Tells DEF Turns, Working
  <2>4. CASE job' = [job EXCEPT ![s] = NextVoice(s)] /\ job[s].at \notin Playing
    BY <2>4, NoSlice, NextVoices DEF Becomes, Turns, Working
  <2>5. CASE Now(s, "push") /\ speaker[Line(s)] = None /\ Heard(s, FALSE)
    <3>1. ~job[s].slice  BY <2>5, NoSlice DEF Now, Playing
    <3>2. ~job[s].spoken  BY <2>5, Unspoken
    <3>3. PICK j : Becomes(s, j) /\ Place(s, j) /\ j.at = job[s].at  BY <2>5, <3>1, <3>2, Hears
    <3> QED  BY <2>5, <3>3 DEF Now, Working
  <2>6. CASE SliceDone(s)  BY <2>6, SliceEnds DEF Working, Playing
  <2>7. CASE DrainTimesOut(s)  BY <2>7, CutsShort DEF Working
  <2>8. ASSUME OneShotEmpty(s) \/ GiveUp(s) \/ Pushed(s)
        PROVE  job' = [job EXCEPT ![s] = NextVoice(s)] /\ job[s].at \notin Playing
    BY <2>8 DEF OneShotEmpty, GiveUp, Pushed, Now, Playing
  <2>9. ASSUME Push(s)
        PROVE  \/ job' = [job EXCEPT ![s] = NextVoice(s)] /\ job[s].at \notin Playing
               \/ Now(s, "push") /\ speaker[Line(s)] = None /\ Heard(s, FALSE)
    BY <2>9 DEF Push, Now, Playing
  <2> QED  BY <2>1, <2>2, <2>3, <2>4, <2>5, <2>6, <2>7, <2>8, <2>9
<1>2. job[s].at \in Voicing
  <2>1. SliceDone(s) => job[s].at \in Playing  BY DEF SliceDone, Once, Counts
  <2> QED
    BY <2>1 DEF Sound, DrainTimesOut, OneShotEmpty, OneShotFails, GiveUp, Telling, Result, ResultRepeated, Tell, Push,
                Pushed, Now, Voicing, Working, Playing
<1>3. UNCHANGED <<newest, era, turns, tries>>
  BY DEF Sound, SliceDone, DrainTimesOut, OneShotEmpty, OneShotFails, GiveUp, Telling, Result, ResultRepeated, Tell, Push,
         Pushed, world, record
<1>4. aired' = aired \/ aired' = [aired EXCEPT ![s] = job[s].era]
  BY DEF Sound, SliceDone, DrainTimesOut, OneShotEmpty, OneShotFails, GiveUp, Telling, Result, ResultRepeated, Tell, Push,
         Pushed, Heard, world, record
<1> QED  BY <1>1, <1>2, <1>3, <1>4, Speaks

LEMMA TakesUp ==
    ASSUME TypeOK, NEW s \in Sentences, TakeLate(s) \/ TakeMute(s) \/ Take(s) \/ Prepare(s)
    PROVE  Moving(s)
<1>1. CASE Prepare(s)
  <2>1. "ready" \in Steps /\ Go(s, "ready") /\ job[s].at = "taken"  BY <1>1 DEF Prepare, Steps, Working, Now
  <2>2. PICK j : Becomes(s, j) /\ j.at = "ready" /\ Same(s, j)  BY <2>1, Goes
  <2>3. /\ newest' \in [Tracks -> Nat] /\ \A t \in Tracks : newest'[t] >= newest[t]
        /\ newest'[Track(s)] >= Says[s].position
    <3>1. newest \in [Tracks -> Nat] /\ Track(s) \in Tracks /\ Says[s].position \in Nat  BY Positions, Numbers
    <3> QED  BY <3>1, <1>1 DEF Prepare, Larger
  <2>4. UNCHANGED <<era, turns, tries, aired>>  BY <1>1 DEF Prepare, world, record
  <2> QED  BY <2>1, <2>2, <2>3, <2>4 DEF Moving, Same, Unheard, Working
<1>2. CASE TakeLate(s) \/ TakeMute(s) \/ Take(s)
  <2>1. PICK step \in Places : Go(s, step) /\ (Superseded(s) => step = "late")
    BY <1>2 DEF TakeLate, TakeMute, Take, Places
  <2>2. Turned(s) /\ Now(s, "queued")  BY <1>2 DEF TakeLate, TakeMute, Take, Turned
  <2>3. UNCHANGED <<newest, era, turns, tries, aired>>  BY <1>2 DEF TakeLate, TakeMute, Take, world, record
  <2>4. step \in Steps /\ step \in Working /\ step \notin Voicing  BY DEF Places, Steps, Working, Voicing
  <2>5. PICK j : Becomes(s, j) /\ j.at = step /\ Same(s, j)  BY <2>1, <2>4, Goes
  <2>6. job'[s].at = step  BY <2>5, Alone
  <2>7. newest' \in [Tracks -> Nat] /\ \A t \in Tracks : newest'[t] >= newest[t]  BY <2>3, Positions
  <2> QED  BY <2>1, <2>2, <2>3, <2>4, <2>5, <2>6, <2>7 DEF Moving, Same, Unheard
<1> QED  BY <1>1, <1>2

LEMMA Leaves ==
    ASSUME TypeOK, NEW s \in Sentences, TakePaused(s) \/ ParkLate(s) \/ Finish(s) \/ Break(s)
    PROVE  Leaving(s)
<1>1. InHand(s)  BY DEF TakePaused, ParkLate, Finish, Break, Turned, InHand, Now, Working
<1>2. UNCHANGED <<newest, era, turns, tries, aired>>  BY DEF TakePaused, ParkLate, Finish, Break, world, record
<1>3. \E step \in {"handled", "pending"} : \E cs : Leave(s, step, cs)  BY DEF TakePaused, ParkLate, Finish, Break
<1> QED  BY <1>1, <1>2, <1>3 DEF Leaving, Leave

\* Every step is one of these.
LEMMA Kinds ==
    ASSUME TypeOK, Locked, Once, Next
    PROVE  \/ \E s \in Sentences : Entering(s) \/ Moving(s) \/ Leaving(s) \/ Closing(s)
           \/ Crash \/ Forgetting \/ Resting
<1>1. CASE \E s \in Sentences : Read(s) \/ Reclaim(s)
  BY <1>1 DEF Read, Reclaim, Entering, Now
<1>2. CASE \E s \in Sentences : Spent(s) \/ Ack(s)
  BY <1>2 DEF Spent, Ack, Closing, Now, world, record
<1>3. CASE \E s \in Sentences : TakeLate(s) \/ TakeMute(s) \/ Take(s) \/ Prepare(s)
  BY <1>3, TakesUp
<1>4. CASE \E s \in Sentences :
         \/ CacheHit(s) \/ Dial(s) \/ DialFails(s) \/ TakeSlot(s) \/ Stream(s) \/ Flushed(s) \/ Drains(s)
         \/ OneShot(s) \/ OneShotDone(s) \/ Retry(s)
  BY <1>4, Served
<1>5. CASE \E s \in Sentences : Continue(s) \/ Dialled(s) \/ SlotTooLate(s) \/ SpeakFails(s) \/ Played(s)
  BY <1>5, Linked
<1>6. CASE \E s \in Sentences : Voicings(s)
  BY <1>6, Voiced
<1>7. CASE \E s \in Sentences : TakePaused(s) \/ ParkLate(s) \/ Finish(s) \/ Break(s)
  BY <1>7, Leaves
<1>8. CASE \E c \in Contexts : EndContext(c) \/ ExpireIdle(c) \/ ServerEnds(c)
  BY <1>8 DEF EndContext, ExpireIdle, ServerEnds, Resting, world, record
<1>9. CASE Crash  BY <1>9
<1>10. CASE Reroute  BY <1>10 DEF Reroute, Turn, Resting, record
<1>11. CASE CleanupRoom  BY <1>11 DEF CleanupRoom, Turn, Forgetting, record
<1> QED
  BY <1>1, <1>2, <1>3, <1>4, <1>5, <1>6, <1>7, <1>8, <1>9, <1>10, <1>11 DEF Next, Voicings, Telling

-----------------------------------------------------------------------------
(* The order of a track.                                                   *)

LEMMA MovesKeepOrder ==
    ASSUME TypeOK, Elapsed, OrderInv, NEW s \in Sentences, Moving(s)
    PROVE  OrderInv'
<1>1. PICK j : /\ Becomes(s, j) /\ Place(s, j) /\ j.at \in Working
               /\ j.at = "late" => Now(s, "queued")
               /\ j.at \in Voicing => job[s].at \in Voicing \/ newest'[Track(s)] >= Says[s].position
  BY DEF Moving
<1>2. job'[s] = j /\ \A u \in Sentences \ {s} : job'[u] = job[u]  BY <1>1, Alone
<1>3. /\ \/ Turned(s) /\ (Superseded(s) => j.at = "late")
         \/ job[s].at \in Working \ {"late"}
      /\ \A t \in Tracks : newest'[t] >= newest[t]
      /\ era' = era
  BY <1>2 DEF Moving
<1>4. InHand(s) /\ InHand(s)'  BY <1>1, <1>2, <1>3 DEF Turned, InHand, Now
<1>5. \A u \in Sentences : /\ InHand(u)' <=> InHand(u)
                           /\ job'[u].era = job[u].era /\ job'[u].again = job[u].again /\ job'[u].ahead = job[u].ahead
  BY <1>1, <1>2, <1>4 DEF InHand, Now, Place
<1>6. \A u \in Sentences : job'[u].at \in {"unread", "absent"} <=> job[u].at \in {"unread", "absent"}
  BY <1>1, <1>2, <1>3 DEF Turned, Now, Working
<1>7. \A u \in Sentences : Now(u, "unread")' <=> Now(u, "unread")
  BY <1>1, <1>2, <1>3 DEF Turned, Now, Working
<1>8. job[s].ahead = {}  BY <1>3 DEF Turned, OrderInv, Front
<1>9. aired \in [Sentences -> 0..MaxTurns + 1] /\ newest \in [Tracks -> Nat] /\ job[s].era \in Nat /\ era \in Nat
  BY Typed, Numbers DEF Types, Job
<1>10. \A u \in Sentences : aired'[u] = aired[u] \/ (u = s /\ aired'[u] = job[u].era /\ job[u].at \in Voicing)
  BY <1>9 DEF Moving
<1>11. \A u \in Sentences : Track(u) \in Tracks /\ Says[u].position \in Nat /\ u \in Nat /\ newest'[Track(u)] >= newest[Track(u)]
  BY <1>3, Numbers
<1>12. ReadInOrder'  BY <1>6, <1>7 DEF OrderInv, ReadInOrder
<1>13. Unsaid'
  <2>1. job[s].at \notin {"unread", "absent"}  BY <1>3 DEF Turned, Now, Working
  <2> QED  BY <2>1, <1>6, <1>10 DEF OrderInv, Unsaid
<1>14. Past'
  <2>1. job[s].era <= era  BY DEF Elapsed
  <2> QED  BY <2>1, <1>3, <1>10 DEF OrderInv, Past
<1>15. Front'
  <2> SUFFICES ASSUME NEW u \in Sentences, job'[u].at \in Working PROVE job'[u].ahead = {}
    BY DEF Front
  <2> QED  BY <1>2, <1>5, <1>8 DEF OrderInv, Front
<1>16. InLine'  BY <1>5 DEF OrderInv, InLine
<1>17. Later'
  <2> SUFFICES ASSUME NEW v \in Sentences, NEW u \in Sentences,
                      InHand(v)', ~job'[v].again, job'[v].era = era', Track(v) = Track(u), v < u
               PROVE  aired'[u] # era' /\ (InHand(u)' /\ job'[u].era = era' => v \in job'[u].ahead)
    BY DEF Later
  <2>1. aired[u] # era /\ (InHand(u) /\ job[u].era = era => v \in job[u].ahead)
    BY <1>3, <1>5 DEF OrderInv, Later
  <2>2. aired'[u] # era
    <3>1. CASE aired'[u] = aired[u]  BY <2>1, <3>1
    <3>2. CASE u = s /\ aired'[u] = job[u].era  BY <2>1, <3>2, <1>4, <1>8
    <3> QED  BY <3>1, <3>2, <1>10
  <2> QED  BY <2>1, <2>2, <1>3, <1>5
<1>18. Marked'
  <2> SUFFICES ASSUME NEW u \in Sentences,
                      aired'[u] = era' \/ (job'[u].at \in Voicing /\ job'[u].era = era')
               PROVE  newest'[Track(u)] >= Says[u].position
    BY DEF Marked
  <2>1. CASE newest[Track(u)] >= Says[u].position
    <3>1. newest[Track(u)] \in Nat /\ newest'[Track(u)] >= newest[Track(u)]  BY <1>9, <1>11
    <3>2. newest'[Track(u)] \in Int  BY <1>11, <1>9 DEF Moving
    <3> QED  BY <2>1, <3>1, <3>2, <1>11
  <2>2. CASE ~(newest[Track(u)] >= Says[u].position)
    <3>1. aired[u] # era /\ ~(job[u].at \in Voicing /\ job[u].era = era)  BY <2>2 DEF OrderInv, Marked
    <3>2. u = s  BY <3>1, <1>2, <1>3, <1>10
    <3>3. job[s].at \notin Voicing \/ job[s].era # era  BY <3>1, <3>2
    <3>4. aired'[s] # era  BY <3>1, <3>2, <3>3, <1>10
    <3>5. j.at \in Voicing /\ job[s].era = era  BY <3>2, <3>4, <1>2, <1>3, <1>5
    <3> QED  BY <3>2, <3>3, <3>5, <1>1
  <2> QED  BY <2>1, <2>2
<1>19. Foremost'
  <2> SUFFICES ASSUME NEW v \in Sentences, NEW u \in Sentences,
                      job'[v].at \in Working \ {"late"}, job'[v].again, job'[v].era = era', Says[v].position > 0,
                      Track(u) = Track(v), u # v, aired'[u] = era'
               PROVE  Says[u].position <= Says[v].position
    BY DEF Foremost
  <2>1. job[v].again /\ job[v].era = era  BY <1>3, <1>5
  <2>2. InHand(v)' /\ InHand(v)  BY <1>5 DEF InHand
  <2>3. CASE aired[u] = era
    <3>1. CASE job[v].at \in Working \ {"late"}  BY <2>1, <2>3, <3>1 DEF OrderInv, Foremost
    <3>2. CASE job[v].at \notin Working \ {"late"}
      <4>1. v = s /\ Turned(s) /\ ~Superseded(s)  BY <3>2, <1>2, <1>3
      <4>2. ~(newest[Track(v)] > Says[v].position)  BY <4>1, <2>1 DEF Superseded
      <4>3. newest[Track(v)] >= Says[u].position  BY <2>3 DEF OrderInv, Marked
      <4>4. newest[Track(v)] \in Nat /\ Says[u].position \in Nat /\ Says[v].position \in Nat  BY <1>9, <1>11
      <4> QED  BY <4>2, <4>3, <4>4
    <3> QED  BY <3>1, <3>2
  <2>4. CASE aired[u] # era
    <3>1. u = s /\ job[s].era = era  BY <2>4, <1>3, <1>10
    <3>2. v \in Sentences \ {s} /\ job[v].at \in Working  BY <3>1, <1>2
    <3>3. job[v].ahead = {}  BY <3>2 DEF OrderInv, Front
    <3>4. s \in job[v].ahead \/ v \in job[s].ahead  BY <3>1, <3>2, <2>1, <2>2, <1>4 DEF OrderInv, InLine
    <3> QED  BY <3>3, <3>4, <1>8
  <2> QED  BY <2>3, <2>4
<1> QED  BY <1>12, <1>13, <1>14, <1>15, <1>16, <1>17, <1>18, <1>19 DEF OrderInv

LEMMA EntersKeepsOrder ==
    ASSUME TypeOK, OrderInv, NEW s \in Sentences, Entering(s)
    PROVE  OrderInv'
<1>1. PICK again \in BOOLEAN : (again <=> Now(s, "pending")) /\ Enter(s, again)  BY DEF Entering
<1> DEFINE line == {u \in Queued(Track(s)) : job[u].era = era}
           j == [Out("queued") EXCEPT !.era = era, !.again = again, !.ahead = line]
<1>2. job' = [job EXCEPT ![s] = j]  BY <1>1, Zenon DEF Enter
<1>3. j.at = "queued" /\ j.era = era /\ j.again = again /\ j.ahead = line  BY DEF Out
<1>4. job \in [Sentences -> Job]  BY Jobs
<1> HIDE DEF j
<1>5. job'[s] = j /\ \A u \in Sentences \ {s} : job'[u] = job[u]  BY <1>2, <1>4
<1>6. UNCHANGED <<aired, newest, era>>  BY <1>1 DEF Enter, world
<1>7. \A u \in Sentences : u \in line <=> Track(u) = Track(s) /\ InHand(u) /\ job[u].era = era
  BY DEF Queued
<1> HIDE DEF line
<1>8. ~InHand(s)  BY DEF Entering, InHand, Now, Working
<1>9. \A u \in Sentences : u # s => (InHand(u)' <=> InHand(u))  BY <1>5 DEF InHand, Now
<1>10. \A u \in Sentences : job'[u].at \in {"unread", "absent"} => job[u].at \in {"unread", "absent"} /\ u # s
  BY <1>3, <1>5
<1>11. s \in Nat /\ \A u \in Sentences : u \in Nat  BY Numbers
<1>12. ReadInOrder'
  <2> SUFFICES ASSUME NEW v \in Sentences, NEW u \in Sentences, Now(v, "unread")', v < u
               PROVE  job'[u].at \in {"unread", "absent"}
    BY DEF ReadInOrder
  <2>1. v # s /\ Now(v, "unread")  BY <1>10, <1>5 DEF Now
  <2>2. job[u].at \in {"unread", "absent"}  BY <2>1 DEF OrderInv, ReadInOrder
  <2>3. CASE u # s  BY <2>2, <2>3, <1>5
  <2>4. CASE u = s
    <3>1. Now(s, "unread")  BY <2>2, <2>4 DEF Entering, Now
    <3> QED  BY <2>1, <2>4, <3>1 DEF Entering
  <2> QED  BY <2>3, <2>4
<1>13. Unsaid' /\ Past'  BY <1>6, <1>10 DEF OrderInv, Unsaid, Past
<1>14. \A u \in Sentences : job'[u].at \in Working => u # s /\ job[u].at \in Working
  BY <1>3, <1>5 DEF Working
<1>15. Front'  BY <1>5, <1>14 DEF OrderInv, Front
<1>16. InLine'
  <2> SUFFICES ASSUME NEW v \in Sentences, NEW u \in Sentences, v # u, Track(v) = Track(u),
                      InHand(v)', InHand(u)', job'[v].era = job'[u].era
               PROVE  v \in job'[u].ahead \/ u \in job'[v].ahead
    BY DEF InLine
  <2>1. CASE v = s  BY <2>1, <1>3, <1>5, <1>7, <1>9
  <2>2. CASE u = s  BY <2>2, <1>3, <1>5, <1>7, <1>9
  <2>3. CASE v # s /\ u # s  BY <2>3, <1>5, <1>9 DEF OrderInv, InLine
  <2> QED  BY <2>1, <2>2, <2>3
<1>17. Later'
  <2> SUFFICES ASSUME NEW v \in Sentences, NEW u \in Sentences,
                      InHand(v)', ~job'[v].again, job'[v].era = era', Track(v) = Track(u), v < u
               PROVE  aired'[u] # era' /\ (InHand(u)' /\ job'[u].era = era' => v \in job'[u].ahead)
    BY DEF Later
  <2>1. CASE v = s
    <3>1. Now(s, "unread")  BY <2>1, <1>1, <1>3, <1>5 DEF Entering, Now
    <3>2. u # s /\ job[u].at \in {"unread", "absent"}  BY <2>1, <3>1, <1>11 DEF OrderInv, ReadInOrder
    <3>3. aired[u] = None /\ ~InHand(u)  BY <3>2 DEF OrderInv, Unsaid, InHand, Now, Working
    <3>4. era # None  BY Typed, Numbers DEF Types, None
    <3> QED  BY <3>2, <3>3, <3>4, <1>6, <1>9
  <2>2. CASE v # s /\ u = s
    <3>1. InHand(v) /\ ~job[v].again /\ job[v].era = era  BY <2>2, <1>5, <1>6, <1>9
    <3>2. aired[u] # era  BY <3>1 DEF OrderInv, Later
    <3>3. v \in line  BY <3>1, <2>2, <1>7
    <3> QED  BY <3>2, <3>3, <2>2, <1>3, <1>5, <1>6
  <2>3. CASE v # s /\ u # s  BY <2>3, <1>5, <1>6, <1>9 DEF OrderInv, Later
  <2> QED  BY <2>1, <2>2, <2>3
<1>18. Marked'
  <2>1. \A u \in Sentences : job'[u].at \in Voicing => u # s  BY <1>14 DEF Voicing
  <2> QED  BY <2>1, <1>5, <1>6 DEF OrderInv, Marked
<1>19. Foremost'
  <2>1. \A u \in Sentences : job'[u].at \in Working \ {"late"} => u # s  BY <1>14
  <2> QED  BY <2>1, <1>5, <1>6 DEF OrderInv, Foremost
<1> QED  BY <1>12, <1>13, <1>15, <1>16, <1>17, <1>18, <1>19 DEF OrderInv

LEMMA LeavesKeepsOrder ==
    ASSUME TypeOK, OrderInv, NEW s \in Sentences, Leaving(s)
    PROVE  OrderInv'
<1>1. PICK step \in {"handled", "pending"} :
         job' = [u \in Sentences |-> IF u = s THEN Out(step) ELSE [job[u] EXCEPT !.ahead = @ \ {s}]]
  BY DEF Leaving
<1>2. \A u \in Sentences : job[u] \in Job  BY Jobs
<1>3. job'[s].at = step  BY <1>1 DEF Out
<1>4. \A u \in Sentences \ {s} : /\ job'[u].at = job[u].at /\ job'[u].era = job[u].era /\ job'[u].again = job[u].again
                                 /\ job'[u].ahead = job[u].ahead \ {s}
  BY <1>1, <1>2 DEF Job
<1>5. UNCHANGED <<aired, newest, era>>  BY DEF Leaving
<1>6. \A u \in Sentences : InHand(u)' => u # s /\ InHand(u)  BY <1>3, <1>4 DEF InHand, Now, Working
<1>7. \A u \in Sentences : job'[u].at \in {"unread", "absent"} => u # s /\ job[u].at \in {"unread", "absent"}
  BY <1>3, <1>4
<1>8. \A u \in Sentences : job[u].at \in {"unread", "absent"} => u # s
  BY DEF Leaving, InHand, Now, Working
<1>9. \A u \in Sentences : job'[u].at \in Working => u # s /\ job[u].at \in Working
  BY <1>3, <1>4 DEF Working
<1>10. ReadInOrder'
  <2> SUFFICES ASSUME NEW v \in Sentences, NEW u \in Sentences, Now(v, "unread")', v < u
               PROVE  job'[u].at \in {"unread", "absent"}
    BY DEF ReadInOrder
  <2>1. v # s /\ Now(v, "unread")  BY <1>3, <1>4 DEF Now
  <2>2. job[u].at \in {"unread", "absent"}  BY <2>1 DEF OrderInv, ReadInOrder
  <2> QED  BY <2>2, <1>4, <1>8
<1>11. Unsaid' /\ Past'  BY <1>5, <1>7 DEF OrderInv, Unsaid, Past
<1>12. Front'
  <2> SUFFICES ASSUME NEW u \in Sentences, job'[u].at \in Working PROVE job'[u].ahead = {}
    BY DEF Front
  <2>1. u # s /\ job[u].ahead = {}  BY <1>9 DEF OrderInv, Front
  <2> QED  BY <2>1, <1>4
<1>13. InLine'
  <2> SUFFICES ASSUME NEW v \in Sentences, NEW u \in Sentences, v # u, Track(v) = Track(u),
                      InHand(v)', InHand(u)', job'[v].era = job'[u].era
               PROVE  v \in job'[u].ahead \/ u \in job'[v].ahead
    BY DEF InLine
  <2>1. v # s /\ u # s /\ InHand(v) /\ InHand(u)  BY <1>6
  <2>2. v \in job[u].ahead \/ u \in job[v].ahead  BY <2>1, <1>4 DEF OrderInv, InLine
  <2> QED  BY <2>1, <2>2, <1>4
<1>14. Later'
  <2> SUFFICES ASSUME NEW v \in Sentences, NEW u \in Sentences,
                      InHand(v)', ~job'[v].again, job'[v].era = era', Track(v) = Track(u), v < u
               PROVE  aired'[u] # era' /\ (InHand(u)' /\ job'[u].era = era' => v \in job'[u].ahead)
    BY DEF Later
  <2>1. v # s /\ InHand(v) /\ ~job[v].again /\ job[v].era = era  BY <1>4, <1>5, <1>6
  <2>2. aired[u] # era /\ (InHand(u) /\ job[u].era = era => v \in job[u].ahead)  BY <2>1 DEF OrderInv, Later
  <2> QED  BY <2>1, <2>2, <1>4, <1>5, <1>6
<1>15. Marked'
  <2>1. \A u \in Sentences : job'[u].at \in Voicing => u # s /\ job[u].at \in Voicing
    BY <1>4, <1>9 DEF Voicing
  <2> QED  BY <2>1, <1>4, <1>5 DEF OrderInv, Marked
<1>16. Foremost'
  <2>1. \A u \in Sentences : job'[u].at \in Working \ {"late"} => u # s /\ job[u].at \in Working \ {"late"}
    BY <1>4, <1>9
  <2> QED  BY <2>1, <1>4, <1>5 DEF OrderInv, Foremost
<1> QED  BY <1>10, <1>11, <1>12, <1>13, <1>14, <1>15, <1>16 DEF OrderInv

LEMMA ClosesKeepsOrder ==
    ASSUME TypeOK, OrderInv, NEW s \in Sentences, Closing(s)
    PROVE  OrderInv'
<1>1. PICK j : Becomes(s, j) /\ j.at = "acked" /\ Same(s, j)
  <2>1. "acked" \in Steps /\ Go(s, "acked")  BY DEF Steps, Closing
  <2> QED  BY <2>1, Goes
<1>2. job'[s] = j /\ \A u \in Sentences \ {s} : job'[u] = job[u]  BY <1>1, Alone
<1>3. UNCHANGED <<aired, newest, era>> /\ job[s].at \in {"pending", "handled"}  BY DEF Closing
<1>4. \A u \in Sentences : InHand(u)' => u # s  BY <1>1, <1>2 DEF InHand, Now, Working
<1>5. \A u \in Sentences : u # s => (InHand(u)' <=> InHand(u))  BY <1>2 DEF InHand, Now
<1>6. \A u \in Sentences : job'[u].at \in {"unread", "absent"} \/ job[u].at \in {"unread", "absent"} => u # s
  BY <1>1, <1>2, <1>3
<1>7. \A u \in Sentences : job'[u].at \in Working => u # s  BY <1>1, <1>2 DEF Working
<1>8. ReadInOrder'
  <2> SUFFICES ASSUME NEW v \in Sentences, NEW u \in Sentences, Now(v, "unread")', v < u
               PROVE  job'[u].at \in {"unread", "absent"}
    BY DEF ReadInOrder
  <2>1. Now(v, "unread")  BY <1>2, <1>6 DEF Now
  <2>2. job[u].at \in {"unread", "absent"}  BY <2>1 DEF OrderInv, ReadInOrder
  <2> QED  BY <2>2, <1>2, <1>6
<1>9. Unsaid' /\ Past'  BY <1>2, <1>3, <1>6 DEF OrderInv, Unsaid, Past
<1>10. Front'  BY <1>2, <1>7 DEF OrderInv, Front
<1>11. InLine'  BY <1>2, <1>4, <1>5 DEF OrderInv, InLine
<1>12. Later'  BY <1>2, <1>3, <1>4, <1>5 DEF OrderInv, Later
<1>13. Marked'  BY <1>2, <1>3, <1>7 DEF OrderInv, Marked, Voicing
<1>14. Foremost'  BY <1>2, <1>3, <1>7 DEF OrderInv, Foremost
<1> QED  BY <1>8, <1>9, <1>10, <1>11, <1>12, <1>13, <1>14 DEF OrderInv

\* A crash puts down what is in hand, and a room forgotten leaves its locks behind.
LEMMA CrashKeepsOrder == ASSUME TypeOK, OrderInv, Crash PROVE OrderInv'
<1>1. job' = [s \in Sentences |-> IF InHand(s) \/ Now(s, "handled") THEN Out("pending") ELSE job[s]]
  BY DEF Crash
<1>2. \A s \in Sentences : job'[s].at = "pending" \/ (job'[s] = job[s] /\ ~InHand(s))
  BY <1>1 DEF Out
<1>3. \A s \in Sentences : ~InHand(s)'  BY <1>2 DEF InHand, Now, Working
<1>4. \A s \in Sentences : job'[s].at \notin Working  BY <1>3 DEF InHand
<1>5. \A s \in Sentences : aired'[s] = None  BY DEF Crash
<1>6. era' = 1  BY DEF Crash
<1>7. \A s \in Sentences : job[s].at \in {"unread", "absent"} => job'[s] = job[s]
  BY <1>1 DEF InHand, Now, Working
<1>8. ReadInOrder'
  <2> SUFFICES ASSUME NEW v \in Sentences, NEW u \in Sentences, Now(v, "unread")', v < u
               PROVE  job'[u].at \in {"unread", "absent"}
    BY DEF ReadInOrder
  <2>1. Now(v, "unread")  BY <1>2 DEF Now
  <2> QED  BY <2>1, <1>7 DEF OrderInv, ReadInOrder
<1>9. Unsaid' /\ Past'  BY <1>5, <1>6 DEF Unsaid, Past, None
<1>10. Front' /\ Foremost'  BY <1>4 DEF Front, Foremost
<1>11. InLine' /\ Later'  BY <1>3 DEF InLine, Later
<1>12. Marked'  BY <1>4, <1>5, <1>6 DEF Marked, Voicing, None
<1> QED  BY <1>8, <1>9, <1>10, <1>11, <1>12 DEF OrderInv

LEMMA ForgettingKeepsOrder == ASSUME TypeOK, Elapsed, OrderInv, Forgetting PROVE OrderInv'
<1>1. job' = job /\ aired' = aired /\ era' = era + 1 /\ era \in Nat
  BY Typed DEF Forgetting, Types
<1>2. \A s \in Sentences : /\ job[s].era \in Nat /\ job[s].era <= era /\ job[s].era # era'
                           /\ aired[s] \in Nat /\ aired[s] <= era /\ aired[s] # era'
  <2> TAKE s \in Sentences
  <2>1. job[s].era \in Nat /\ aired[s] \in Nat  BY Typed, Numbers DEF Types, Job
  <2>2. job[s].era <= era /\ aired[s] <= era  BY DEF Elapsed, OrderInv, Past
  <2> QED  BY <1>1, <2>1, <2>2
<1>3. \A s \in Sentences : (InHand(s)' <=> InHand(s)) /\ (Now(s, "unread")' <=> Now(s, "unread"))
  BY <1>1 DEF InHand, Now
<1>4. ReadInOrder' /\ Unsaid' /\ Front'  BY <1>1, <1>3 DEF OrderInv, ReadInOrder, Unsaid, Front
<1>5. Past'  BY <1>1, <1>2 DEF Past
<1>6. InLine'  BY <1>1, <1>3 DEF OrderInv, InLine
<1>7. Later' /\ Marked' /\ Foremost'  BY <1>1, <1>2 DEF Later, Marked, Foremost
<1> QED  BY <1>4, <1>5, <1>6, <1>7 DEF OrderInv

LEMMA RestingKeepsOrder == ASSUME OrderInv, UNCHANGED <<job, aired, newest, era>> PROVE OrderInv'
<1>1. \A s \in Sentences : (InHand(s)' <=> InHand(s)) /\ (Now(s, "unread")' <=> Now(s, "unread"))
  BY DEF InHand, Now
<1>2. ReadInOrder' /\ Unsaid' /\ Past' /\ Front'  BY <1>1 DEF OrderInv, ReadInOrder, Unsaid, Past, Front
<1>3. InLine' /\ Later'  BY <1>1 DEF OrderInv, InLine, Later
<1>4. Marked' /\ Foremost'  BY DEF OrderInv, Marked, Foremost
<1> QED  BY <1>2, <1>3, <1>4 DEF OrderInv

LEMMA OrderKept == ASSUME TypeOK, Elapsed, Locked, Once, OrderInv, Next PROVE OrderInv'
<1>1. CASE \E s \in Sentences : Entering(s) \/ Moving(s) \/ Leaving(s) \/ Closing(s)
  BY <1>1, EntersKeepsOrder, MovesKeepOrder, LeavesKeepsOrder, ClosesKeepsOrder
<1>2. CASE Crash  BY <1>2, CrashKeepsOrder
<1>3. CASE Forgetting  BY <1>3, ForgettingKeepsOrder
<1>4. CASE Resting  BY <1>4, RestingKeepsOrder DEF Resting
<1> QED  BY <1>1, <1>2, <1>3, <1>4, Kinds

LEMMA ElapsedKept == ASSUME TypeOK, Elapsed, Aside, Locked, Once, Next PROVE Elapsed' /\ Aside'
<1>1. era \in Nat /\ turns \in Nat /\ 1 <= era /\ tries \in [Sentences -> 0..MaxAttempts] /\ MaxTurns \in Nat
  BY Typed, Numbers DEF Types
<1>2. \A s \in Sentences : job[s].era \in Nat  BY Jobs, Numbers DEF Job
<1>3. CASE \E s \in Sentences : Entering(s)
  <2>1. PICK s \in Sentences : Entering(s)  BY <1>3
  <2>2. PICK again \in BOOLEAN : Enter(s, again)  BY <2>1 DEF Entering
  <2> DEFINE j == [Out("queued") EXCEPT !.era = era, !.again = again,
                                        !.ahead = {u \in Queued(Track(s)) : job[u].era = era}]
  <2>3. job' = [job EXCEPT ![s] = j]  BY <2>2, Zenon DEF Enter
  <2>4. j.at = "queued" /\ j.era = era  BY DEF Out
  <2> HIDE DEF j
  <2>5. job'[s] = j /\ \A u \in Sentences \ {s} : job'[u] = job[u]  BY <2>3, Jobs
  <2>6. UNCHANGED <<era, turns>> /\ \A u \in Sentences \ {s} : tries'[u] = tries[u]
    BY <2>2, <1>1 DEF Enter, world
  <2> QED  BY <1>1, <2>4, <2>5, <2>6 DEF Elapsed, Aside, Now, InHand
<1>4. CASE \E s \in Sentences : Moving(s)
  <2>1. PICK s \in Sentences : Moving(s)  BY <1>4
  <2>2. PICK j : Becomes(s, j) /\ Place(s, j) /\ j.at \in Working  BY <2>1 DEF Moving
  <2>3. job'[s] = j /\ \A u \in Sentences \ {s} : job'[u] = job[u]  BY <2>2, Alone
  <2>4. UNCHANGED <<era, turns, tries>>  BY <2>1 DEF Moving
  <2>5. InHand(s) /\ InHand(s)'  BY <2>1, <2>2, <2>3 DEF Moving, Turned, InHand, Now
  <2>6. \A u \in Sentences : (InHand(u)' <=> InHand(u)) /\ job'[u].era = job[u].era
    BY <2>2, <2>3, <2>5 DEF InHand, Now, Place
  <2>7. \A u \in Sentences : Now(u, "unread")' => Now(u, "unread")  BY <2>2, <2>3 DEF Now, Working
  <2> QED  BY <2>4, <2>6, <2>7 DEF Elapsed, Aside
<1>5. CASE \E s \in Sentences : Leaving(s)
  <2>1. PICK s \in Sentences : Leaving(s)  BY <1>5
  <2>2. PICK step \in {"handled", "pending"} :
          job' = [u \in Sentences |-> IF u = s THEN Out(step) ELSE [job[u] EXCEPT !.ahead = @ \ {s}]]
    BY <2>1 DEF Leaving
  <2>3. job'[s].at = step /\ job'[s].era = 1  BY <2>2 DEF Out
  <2>4. \A u \in Sentences : job[u] \in Job  BY Jobs
  <2>5. \A u \in Sentences \ {s} : job'[u].at = job[u].at /\ job'[u].era = job[u].era
    BY <2>2, <2>4 DEF Job
  <2>6. UNCHANGED <<era, turns, tries>>  BY <2>1 DEF Leaving
  <2> QED  BY <1>1, <2>3, <2>5, <2>6 DEF Elapsed, Aside, Now, InHand
<1>6. CASE \E s \in Sentences : Closing(s)
  <2>1. PICK s \in Sentences : Closing(s)  BY <1>6
  <2>2. "acked" \in Steps /\ Go(s, "acked")  BY <2>1 DEF Closing, Steps
  <2>3. PICK j : Becomes(s, j) /\ j.at = "acked" /\ Same(s, j)  BY <2>2, Goes
  <2>4. job'[s] = j /\ \A u \in Sentences \ {s} : job'[u] = job[u]  BY <2>3, Alone
  <2>5. UNCHANGED <<era, turns, tries>>  BY <2>1 DEF Closing
  <2>6. ~InHand(s) /\ job[s].era = 1  BY <2>1 DEF Closing, InHand, Now, Working, Aside
  <2> QED  BY <2>3, <2>4, <2>5, <2>6 DEF Elapsed, Aside, Now, InHand, Same, Place
<1>7. CASE Crash
  <2>1. \A s \in Sentences : job'[s] = Out("pending") \/ (job'[s] = job[s] /\ ~InHand(s))  BY <1>7 DEF Crash
  <2>2. era' = 1 /\ turns' = turns /\ tries' = tries  BY <1>7 DEF Crash
  <2>3. Out("pending").at = "pending" /\ Out("pending").era = 1  BY DEF Out
  <2>4. \A s \in Sentences : job'[s].era = 1  BY <2>1, <2>3 DEF Elapsed, Aside
  <2>5. \A s \in Sentences : Now(s, "unread")' => Now(s, "unread")  BY <2>1, <2>3 DEF Now
  <2> QED  BY <1>1, <2>2, <2>4, <2>5 DEF Elapsed, Aside
<1>8. CASE Forgetting  BY <1>8, <1>1, <1>2 DEF Forgetting, Elapsed, Aside, Now, InHand
<1>9. CASE Resting
  <2>1. \A s \in Sentences : (InHand(s)' <=> InHand(s)) /\ (Now(s, "unread")' <=> Now(s, "unread"))
    BY <1>9 DEF Resting, InHand, Now
  <2>2. era' <= turns' + 1
    <3>1. era <= turns + 1  BY DEF Elapsed
    <3>2. era' = era /\ (turns' = turns \/ turns' = turns + 1)  BY <1>9 DEF Resting
    <3> QED  BY <1>1, <3>1, <3>2
  <2>3. era' = era /\ job' = job /\ tries' = tries  BY <1>9 DEF Resting
  <2> QED  BY <2>1, <2>2, <2>3 DEF Elapsed, Aside
<1> QED  BY <1>3, <1>4, <1>5, <1>6, <1>7, <1>8, <1>9, Kinds

-----------------------------------------------------------------------------
(* What is said, and what is told.                                         *)

Alright(s, j) ==
    /\ Audible(j) => speaker'[<<Track(s), j.voice>>] = s
    /\ Counts(j) /\ Bounded(j) /\ (Early(j) => j.results = 0)
    /\ j.at = "queued" => j.voice = Default
    /\ Told(j) => Heeded(outcome'[s])
    /\ Over(j) /\ Says[s].final => Closed(outcome'[s])

LEMMA AllRight == (\A s \in Sentences : Alright(s, job'[s])) => VoiceInv'
BY DEF Alright, VoiceInv, Locked, Once, NotYetTold, Accounted, Now

\* Nobody else is in the way of who takes or gives back its own lock.
Lock(s) ==
    \/ speaker' = speaker
    \/ speaker[Line(s)] = None /\ speaker' = [speaker EXCEPT ![Line(s)] = s]
    \/ speaker[Line(s)] = s /\ Quiet(s)

LEMMA Others ==
    ASSUME TypeOK, VoiceInv, NEW s \in Sentences, NEW j, Becomes(s, j), Lock(s),
           outcome' = outcome \/ \E what \in Outcomes : Note(s, what),
           Alright(s, j)
    PROVE  VoiceInv'
<1>1. job'[s] = j /\ \A u \in Sentences \ {s} : job'[u] = job[u]  BY Alone
<1>2. outcome \in [Sentences -> SUBSET Outcomes] /\ speaker \in [Lines -> Sentences \cup {None}]  BY Typed DEF Types
<1>3. \A u \in Sentences \ {s} : outcome'[u] = outcome[u]  BY <1>2 DEF Note
<1>4. \A u \in Sentences \ {s} : Audible(job[u]) => speaker'[<<Track(u), job[u].voice>>] = u
  <2> SUFFICES ASSUME NEW u \in Sentences \ {s}, Audible(job[u])
               PROVE  speaker'[<<Track(u), job[u].voice>>] = u
    OBVIOUS
  <2>1. <<Track(u), job[u].voice>> \in Lines /\ Line(s) \in Lines  BY LineOf DEF Line
  <2>2. speaker[<<Track(u), job[u].voice>>] = u /\ u # s /\ u # None  BY Numbers DEF VoiceInv, Locked
  <2> DEFINE l == <<Track(u), job[u].voice>>
             m == Line(s)
  <2> HIDE DEF l, m
  <2>3. l \in Lines /\ speaker[l] = u  BY <2>1, <2>2 DEF l
  <2>4. speaker' = speaker \/ (speaker[m] = None /\ speaker' = [speaker EXCEPT ![m] = s])
                           \/ (speaker[m] = s /\ speaker' = [speaker EXCEPT ![m] = None])
    BY DEF Lock, Quiet, m
  <2>5. speaker'[l] = u  BY <1>2, <2>2, <2>3, <2>4
  <2> QED  BY <2>5 DEF l
<1>5. \A u \in Sentences \ {s} : Alright(u, job'[u])
  BY <1>1, <1>3, <1>4 DEF Alright, VoiceInv, Locked, Once, NotYetTold, Accounted, Now
<1> QED  BY <1>1, <1>5, AllRight

\* A sentence that goes on in a voice has told nothing new.
LEMMA GoesOn ==
    ASSUME TypeOK, VoiceInv, NEW s \in Sentences, NEW j, job[s].at \in Begun, j.at \in Working \ {"push", "event"},
           j.voice = job[s].voice, Counts(j), Untold(s, j), outcome' = outcome,
           Audible(j) => speaker'[Line(s)] = s
    PROVE  Alright(s, j)
<1>1. Early(j) => Early(job[s])  BY DEF Early
<1>2. Bounded(j) /\ (Early(j) => j.results = 0)  BY <1>1 DEF VoiceInv, NotYetTold, Bounded, Untold
<1>3. Told(j) => Told(job[s])
  <2>1. j.at \notin {"push", "event", "handled", "acked"}  BY DEF Working
  <2>2. job[s].at # "queued" => job[s].at \in Working  BY DEF Begun
  <2>3. job[s].at = "queued" => job[s].voice = Default  BY DEF VoiceInv, NotYetTold, Now
  <2> QED  BY <2>1, <2>2, <2>3 DEF Told
<1>4. Told(j) => Heeded(outcome'[s])  BY <1>3 DEF VoiceInv, Accounted
<1>5. ~Over(j) /\ j.at # "queued"  BY DEF Over, Working
<1> QED  BY <1>2, <1>4, <1>5 DEF Alright, Line

LEMMA TurnsOver ==
    ASSUME TypeOK, VoiceInv, NEW s \in Sentences, NEW j, Turns(s, j), Bounded(j), Heeded(outcome'[s])
    PROVE  Alright(s, j)
<1>1. ~Audible(j) /\ Counts(j) /\ ~Over(j) /\ j.at # "queued"  BY DEF Turns, Audible, Counts, Over
<1>2. ~Early(j)  BY DEF Turns, Early, Begun, Working
<1> QED  BY <1>1, <1>2 DEF Alright

LEMMA ServedSays ==
    ASSUME TypeOK, VoiceInv, NEW s \in Sentences,
           \/ TakeLate(s) \/ Take(s) \/ Prepare(s) \/ CacheHit(s) \/ Dial(s) \/ DialFails(s) \/ TakeSlot(s)
           \/ OneShot(s) \/ OneShotDone(s) \/ Retry(s) \/ Flushed(s) \/ Drains(s) \/ Stream(s)
    PROVE  VoiceInv'
<1> DEFINE quiet == {"late", "taken", "ready", "result", "dialling", "fallback", "track", "oneshot"}
<1>1. \/ \E step \in quiet : Go(s, step) /\ job[s].at \in Begun \ Playing /\ UNCHANGED <<speaker, outcome>>
      \/ Now(s, "speaking") /\ Go(s, "playing") /\ UNCHANGED <<speaker, outcome>>
      \/ Now(s, "draining") /\ ~job[s].slice /\ Go(s, "fallback") /\ Quiet(s) /\ UNCHANGED outcome
      \/ Now(s, "track") /\ Go(s, "speaking") /\ speaker[Line(s)] = None
         /\ speaker' = [speaker EXCEPT ![Line(s)] = s] /\ UNCHANGED outcome
  <2>1. CASE TakeLate(s) \/ Take(s) \/ Prepare(s) \/ CacheHit(s) \/ Dial(s)
    BY <2>1 DEF TakeLate, Take, Prepare, CacheHit, Dial, Turned, Now, Begun, Working, Playing, record
  <2>2. CASE DialFails(s) \/ TakeSlot(s) \/ OneShot(s) \/ OneShotDone(s) \/ Retry(s)
    BY <2>2 DEF DialFails, TakeSlot, OneShot, OneShotDone, Retry, Now, Begun, Working, Playing, record
  <2>3. CASE Flushed(s) \/ Drains(s) \/ Stream(s)  BY <2>3 DEF Flushed, Drains, Stream, record
  <2> QED  BY <2>1, <2>2, <2>3
<1>2. speaker \in [Lines -> Sentences \cup {None}] /\ Line(s) \in Lines  BY LineOf, Typed DEF Types
<1>3. \A j : /\ Same(s, j) => j.voice = job[s].voice /\ Untold(s, j)
             /\ Same(s, j) /\ (job[s].at \in Playing => j.at \in Playing \/ ~job[s].slice) => Counts(j)
  BY StillCounts DEF Same, VoiceInv, Once
<1>4. CASE \E step \in quiet : Go(s, step) /\ job[s].at \in Begun \ Playing /\ UNCHANGED <<speaker, outcome>>
  <2>1. PICK step \in quiet : Go(s, step) /\ job[s].at \in Begun \ Playing /\ UNCHANGED <<speaker, outcome>>  BY <1>4
  <2>2. step \in Steps /\ step \in Working \ {"push", "event"}  BY DEF Steps, Working
  <2>3. PICK j : Becomes(s, j) /\ j.at = step /\ Same(s, j)  BY <2>1, <2>2, Goes
  <2>4. ~Audible(j)  BY <2>1, <2>3 DEF Audible
  <2>5. Counts(j)  BY <1>3, <2>1, <2>3
  <2>6. Alright(s, j)  BY <1>3, <2>1, <2>2, <2>3, <2>4, <2>5, GoesOn
  <2> QED  BY <2>1, <2>3, <2>6, Others DEF Lock
<1>5. CASE Now(s, "speaking") /\ Go(s, "playing") /\ UNCHANGED <<speaker, outcome>>
  <2>1. "playing" \in Steps /\ "playing" \in Working \ {"push", "event"} /\ job[s].at \in Begun
    BY <1>5 DEF Steps, Working, Begun, Now
  <2>2. PICK j : Becomes(s, j) /\ j.at = "playing" /\ Same(s, j)  BY <1>5, <2>1, Goes
  <2>3. speaker'[Line(s)] = s  BY <1>5 DEF VoiceInv, Locked, Audible, Now, Line
  <2>4. Counts(j)  BY <1>3, <2>2 DEF Playing
  <2>5. Alright(s, j)  BY <1>3, <1>5, <2>1, <2>2, <2>3, <2>4, GoesOn
  <2> QED  BY <1>5, <2>2, <2>5, Others DEF Lock
<1>6. CASE Now(s, "draining") /\ ~job[s].slice /\ Go(s, "fallback") /\ Quiet(s) /\ UNCHANGED outcome
  <2>1. "fallback" \in Steps /\ "fallback" \in Working \ {"push", "event"} /\ job[s].at \in Begun
    BY <1>6 DEF Steps, Working, Begun, Now
  <2>2. PICK j : Becomes(s, j) /\ j.at = "fallback" /\ Same(s, j)  BY <1>6, <2>1, Goes
  <2>3. speaker[Line(s)] = s  BY <1>6 DEF VoiceInv, Locked, Audible, Now, Line
  <2>4. ~Audible(j)  BY <2>2 DEF Audible
  <2>5. Counts(j)  BY <1>3, <1>6, <2>2
  <2>6. Alright(s, j)  BY <1>3, <1>6, <2>1, <2>2, <2>4, <2>5, GoesOn
  <2> QED  BY <1>6, <2>2, <2>3, <2>6, Others DEF Lock
<1>7. CASE Now(s, "track") /\ Go(s, "speaking") /\ speaker[Line(s)] = None
           /\ speaker' = [speaker EXCEPT ![Line(s)] = s] /\ UNCHANGED outcome
  <2>1. "speaking" \in Steps /\ "speaking" \in Working \ {"push", "event"} /\ job[s].at \in Begun
    BY <1>7 DEF Steps, Working, Begun, Now
  <2>2. PICK j : Becomes(s, j) /\ j.at = "speaking" /\ Same(s, j)  BY <1>7, <2>1, Goes
  <2>3. speaker'[Line(s)] = s  BY <1>2, <1>7
  <2>4. Counts(j)  BY <1>3, <1>7, <2>2 DEF Now, Playing
  <2>5. Alright(s, j)  BY <1>3, <1>7, <2>1, <2>2, <2>3, <2>4, GoesOn
  <2> QED  BY <1>7, <2>2, <2>5, Others DEF Lock
<1> QED  BY <1>1, <1>4, <1>5, <1>6, <1>7

LEMMA LinkedSays ==
    ASSUME TypeOK, VoiceInv, NEW s \in Sentences,
           Continue(s) \/ Dialled(s) \/ SlotTooLate(s) \/ SpeakFails(s) \/ Played(s)
    PROVE  VoiceInv'
<1> DEFINE steps == {"track", "slot", "fallback", "draining", "result"}
<1>1. PICK step \in steps, c \in Contexts \cup {None} :
         /\ job' = [job EXCEPT ![s].at = step, ![s].ctx = c] /\ job[s].at \in Begun /\ outcome' = outcome
         /\ \/ speaker' = speaker /\ (step = "draining" <=> Now(s, "speaking")) /\ ~Now(s, "playing") /\ ~Now(s, "draining")
            \/ Now(s, "playing") /\ ~job[s].slice /\ Quiet(s) /\ step = "result"
  <2>1. open[Line(s)] \in Contexts \cup {None}  BY LineOf, Typed DEF Types
  <2>2. CASE Continue(s)  BY <2>1, <2>2 DEF Continue, Now, Begun, Working, record
  <2>3. CASE Dialled(s)  BY <2>3 DEF Dialled, Now, Begun, Working, record
  <2>4. CASE SlotTooLate(s)  BY <2>4 DEF SlotTooLate, Now, Begun, Working, record
  <2>5. CASE SpeakFails(s)  BY <2>5 DEF SpeakFails, Now, Begun, Working, record
  <2>6. CASE Played(s)  BY <2>6 DEF Played, Now, Begun, Working, record
  <2> QED  BY <2>2, <2>3, <2>4, <2>5, <2>6
<1>2. step \in Steps /\ step \in Working \ {"push", "event"}  BY DEF Steps, Working
<1>3. PICK j : Becomes(s, j) /\ j.at = step /\ Same(s, j)  BY <1>1, <1>2, Connects
<1>4. Counts(j) /\ j.voice = job[s].voice /\ Untold(s, j)
  <2>1. Unheard(s, j) /\ j.voice = job[s].voice /\ Untold(s, j) /\ Counts(job[s])
    BY <1>3 DEF Same, VoiceInv, Once
  <2>2. job[s].at \in Playing => j.at \in Playing \/ ~job[s].slice  BY <1>1, <1>3 DEF Now, Playing
  <2> QED  BY <2>1, <2>2, StillCounts
<1>5. Now(s, "playing") \/ Now(s, "speaking") => speaker[Line(s)] = s
  BY DEF VoiceInv, Locked, Audible, Now, Line
<1>6. Audible(j) => step = "draining"  BY <1>3 DEF Audible
<1>7. Audible(j) => speaker'[Line(s)] = s  BY <1>1, <1>5, <1>6
<1>8. Alright(s, j)  BY <1>1, <1>2, <1>3, <1>4, <1>7, GoesOn
<1>9. Lock(s)  BY <1>1, <1>5 DEF Lock
<1> QED  BY <1>1, <1>3, <1>8, <1>9, Others

LEMMA Notes ==
    ASSUME TypeOK, NEW s \in Sentences, NEW what \in Outcomes, Note(s, what)
    PROVE  /\ outcome'[s] = outcome[s] \cup {what} /\ \A u \in Sentences \ {s} : outcome'[u] = outcome[u]
           /\ what # "final" => Heeded(outcome'[s])
           /\ what \in {"final", "paused", "parked"} => Closed(outcome'[s])
           /\ Heeded(outcome[s]) => Heeded(outcome'[s])
<1>1. outcome \in [Sentences -> SUBSET Outcomes]  BY Typed DEF Types
<1>2. outcome'[s] = outcome[s] \cup {what} /\ \A u \in Sentences \ {s} : outcome'[u] = outcome[u]  BY <1>1 DEF Note
<1> QED  BY <1>2 DEF Heeded, Closed, Outcomes

LEMMA EndsSay ==
    ASSUME TypeOK, VoiceInv, NEW s \in Sentences, TakeMute(s) \/ Spent(s) \/ Ack(s)
    PROVE  VoiceInv'
<1>1. CASE TakeMute(s)
  <2>1. /\ "event" \in Steps /\ Go(s, "event") /\ Note(s, "silent") /\ "silent" \in Outcomes /\ Lock(s)
        /\ Now(s, "queued")
    BY <1>1 DEF TakeMute, Turned, Steps, Working, Outcomes, Lock
  <2>2. PICK j : Becomes(s, j) /\ j.at = "event" /\ Same(s, j)  BY <2>1, Goes
  <2>3. Heeded(outcome'[s])  BY <2>1, Notes
  <2>4. Counts(j) /\ Bounded(j)
    <3>1. job[s].at \notin Playing  BY <2>1 DEF Now, Playing
    <3>2. Unheard(s, j) /\ Untold(s, j) /\ Counts(job[s]) /\ Bounded(job[s])
      BY <2>2 DEF Same, VoiceInv, Once, NotYetTold
    <3>3. Counts(j)  BY <3>1, <3>2, StillCounts
    <3> QED  BY <3>2, <3>3 DEF Untold, Bounded
  <2>5. ~Audible(j) /\ ~Early(j) /\ ~Over(j)  BY <2>2 DEF Audible, Early, Begun, Working, Over
  <2>6. Alright(s, j)  BY <2>2, <2>3, <2>4, <2>5 DEF Alright
  <2> QED  BY <2>1, <2>2, <2>6, Others
<1>2. CASE Spent(s)
  <2>1. /\ "acked" \in Steps /\ Go(s, "acked") /\ Note(s, "parked") /\ "parked" \in Outcomes /\ Lock(s)
        /\ Now(s, "pending")
    BY <1>2 DEF Spent, Steps, Outcomes, Lock
  <2>2. PICK j : Becomes(s, j) /\ j.at = "acked" /\ Same(s, j)  BY <2>1, Goes
  <2>3. Heeded(outcome'[s]) /\ Closed(outcome'[s])  BY <2>1, Notes
  <2>4. Counts(j) /\ Bounded(j)
    <3>1. job[s].at \notin Playing  BY <2>1 DEF Now, Playing
    <3>2. Unheard(s, j) /\ Untold(s, j) /\ Counts(job[s]) /\ Bounded(job[s])
      BY <2>2 DEF Same, VoiceInv, Once, NotYetTold
    <3>3. Counts(j)  BY <3>1, <3>2, StillCounts
    <3> QED  BY <3>2, <3>3 DEF Untold, Bounded
  <2>5. ~Audible(j) /\ ~Early(j)  BY <2>2 DEF Audible, Early, Begun, Working
  <2>6. Alright(s, j)  BY <2>2, <2>3, <2>4, <2>5 DEF Alright
  <2> QED  BY <2>1, <2>2, <2>6, Others
<1>3. CASE Ack(s)
  <2>1. "acked" \in Steps /\ Go(s, "acked") /\ outcome' = outcome /\ Lock(s) /\ Now(s, "handled")
    BY <1>3 DEF Ack, Steps, Lock, record
  <2>2. PICK j : Becomes(s, j) /\ j.at = "acked" /\ Same(s, j)  BY <2>1, Goes
  <2>3. Told(job[s]) /\ Over(job[s])  BY <2>1 DEF Now, Told, Over
  <2>4. Heeded(outcome'[s]) /\ (Says[s].final => Closed(outcome'[s]))  BY <2>1, <2>3 DEF VoiceInv, Accounted
  <2>5. Counts(j) /\ Bounded(j)
    <3>1. job[s].at \notin Playing  BY <2>1 DEF Now, Playing
    <3>2. Unheard(s, j) /\ Untold(s, j) /\ Counts(job[s]) /\ Bounded(job[s])
      BY <2>2 DEF Same, VoiceInv, Once, NotYetTold
    <3>3. Counts(j)  BY <3>1, <3>2, StillCounts
    <3> QED  BY <3>2, <3>3 DEF Untold, Bounded
  <2>6. ~Audible(j) /\ ~Early(j)  BY <2>2 DEF Audible, Early, Begun, Working
  <2>7. Alright(s, j)  BY <2>2, <2>4, <2>5, <2>6 DEF Alright
  <2> QED  BY <2>1, <2>2, <2>7, Others
<1> QED  BY <1>1, <1>2, <1>3

\* A voice that is over, with the sentence told of or parked.
LEMMA NextSays ==
    ASSUME TypeOK, VoiceInv, NEW s \in Sentences, job' = [job EXCEPT ![s] = NextVoice(s)], Lock(s),
           job[s].at \notin Playing, outcome' = outcome \/ \E what \in Outcomes : Note(s, what), Heeded(outcome'[s])
    PROVE  VoiceInv'
<1>1. ~job[s].slice /\ Bounded(job[s])  BY NoSlice DEF VoiceInv, NotYetTold
<1>2. NextVoice(s) \in Job /\ Turns(s, NextVoice(s)) /\ Untold(s, NextVoice(s))  BY <1>1, NextVoices
<1>3. Becomes(s, NextVoice(s)) /\ Bounded(NextVoice(s))  BY <1>1, <1>2 DEF Becomes, Untold, Bounded
<1>4. Alright(s, NextVoice(s))  BY <1>2, <1>3, TurnsOver
<1> QED  BY <1>3, <1>4, Others

LEMMA VoicedSays ==
    ASSUME TypeOK, VoiceInv, NEW s \in Sentences, Voicings(s)
    PROVE  VoiceInv'
<1>1. job[s] \in Job /\ Bounded(job[s]) /\ Counts(job[s]) /\ Once  BY Jobs DEF VoiceInv, NotYetTold, Once
<1>2. speaker \in [Lines -> Sentences \cup {None}] /\ Line(s) \in Lines  BY LineOf, Typed DEF Types
<1>3. CASE Sound(s) \/ SliceDone(s)
  <2>1. outcome' = outcome /\ speaker' = speaker  BY <1>3 DEF Sound, SliceDone, record
  <2>2. PICK j : /\ Becomes(s, j) /\ j.at = job[s].at /\ j.at \in Playing /\ j.voice = job[s].voice
                 /\ Counts(j) /\ Untold(s, j)
    <3>1. CASE Sound(s)
      <4>1. job[s].at \in Playing /\ ~job[s].spoken /\ ~job[s].slice /\ Heard(s, TRUE)
        BY <3>1 DEF Sound, Playing
      <4> QED  BY <1>1, <4>1, Hears
    <3>2. CASE SliceDone(s)  BY <1>1, <3>2, SliceEnds
    <3> QED  BY <1>3, <3>1, <3>2
  <2>3. speaker'[Line(s)] = s  BY <2>1, <2>2 DEF VoiceInv, Locked, Audible, Line, Playing
  <2>4. job[s].at \in Begun /\ j.at \in Working \ {"push", "event"}  BY <2>2 DEF Begun, Working, Playing
  <2>5. Alright(s, j)  BY <2>1, <2>2, <2>3, <2>4, GoesOn
  <2> QED  BY <2>1, <2>2, <2>5, Others DEF Lock
<1>4. CASE OneShotFails(s)
  <2>1. Now(s, "oneshot") /\ outcome' = outcome /\ speaker' = speaker  BY <1>4 DEF OneShotFails, record
  <2>2. PICK j : /\ Becomes(s, j) /\ j.at \in {"giving up", "backoff"} /\ j.voice = job[s].voice
                 /\ Unheard(s, j) /\ Untold(s, j)
    BY <1>4, FailsAgain
  <2>3. Counts(j) /\ ~Audible(j)
    <3>1. job[s].at \notin Playing  BY <2>1 DEF Now, Playing
    <3> QED  BY <1>1, <2>2, <3>1, StillCounts DEF Audible
  <2>4. job[s].at \in Begun /\ j.at \in Working \ {"push", "event"}  BY <2>1, <2>2 DEF Begun, Working, Now
  <2>5. Alright(s, j)  BY <2>1, <2>2, <2>3, <2>4, GoesOn
  <2> QED  BY <2>1, <2>2, <2>5, Others DEF Lock
<1>5. CASE GiveUp(s) \/ OneShotEmpty(s)
  <2>1. /\ job' = [job EXCEPT ![s] = NextVoice(s)] /\ speaker' = speaker /\ job[s].at \notin Playing
        /\ \E what \in {"parked", "empty"} : Note(s, what)
    BY <1>5 DEF GiveUp, OneShotEmpty, Now, Playing
  <2>2. {"parked", "empty"} \subseteq Outcomes \ {"final"}  BY DEF Outcomes
  <2>3. PICK what \in Outcomes \ {"final"} : Note(s, what)  BY <2>1, <2>2
  <2>4. Heeded(outcome'[s])  BY <2>3, Notes
  <2> QED  BY <2>1, <2>3, <2>4, NextSays DEF Lock
<1>6. CASE Telling(s)
  <2>1. PICK times \in {1, 2} : Tell(s, times) /\ (times = 2 => job[s].voice = Default)  BY <1>6, TellsOnce
  <2>2. /\ Now(s, "result") /\ speaker' = speaker
        /\ IF job[s].voice = Default THEN Note(s, "result") ELSE outcome' = outcome
    BY <2>1 DEF Tell
  <2>3. ~job[s].slice  BY <1>1, <2>2, NoSlice DEF Now, Playing
  <2>4. PICK j : /\ Becomes(s, j) /\ j.repeats = job[s].repeats + times - 1
                 /\ j.results = job[s].results + (IF job[s].voice = Default THEN times ELSE 0)
                 /\ \/ job[s].spoken /\ Turns(s, j)
                    \/ ~job[s].spoken /\ j.at = "push" /\ j.voice = job[s].voice /\ Unheard(s, j)
    BY <2>1, <2>3, Tells
  <2>5. "result" \in Outcomes  BY DEF Outcomes
  <2>6. Heeded(outcome'[s])
    <3>1. CASE job[s].voice = Default  BY <2>2, <2>5, <3>1, Notes
    <3>2. CASE job[s].voice # Default
      <4>1. Told(job[s])  BY <2>2, <3>2 DEF Told, Now, Working
      <4> QED  BY <2>2, <3>2, <4>1 DEF VoiceInv, Accounted
    <3> QED  BY <3>1, <3>2
  <2>7. Bounded(j)
    <3>1. job[s].repeats \in Nat /\ job[s].results \in Nat  BY <1>1 DEF Job
    <3>2. CASE job[s].voice = Default
      <4>1. Early(job[s])  BY <2>2, <3>2 DEF Early, Begun, Working, Now
      <4>2. job[s].results = 0  BY <4>1 DEF VoiceInv, NotYetTold
      <4> QED  BY <2>4, <3>1, <3>2, <4>2 DEF Bounded
    <3>3. CASE job[s].voice # Default
      <4>1. times = 1  BY <2>1, <3>3
      <4> QED  BY <1>1, <2>4, <3>1, <3>3, <4>1 DEF Bounded
    <3> QED  BY <3>2, <3>3
  <2>8. Alright(s, j)
    <3>1. CASE Turns(s, j)  BY <3>1, <2>6, <2>7, TurnsOver
    <3>2. CASE ~job[s].spoken /\ j.at = "push" /\ Unheard(s, j)
      <4>1. Counts(j) /\ ~Audible(j)
        <5>1. job[s].at \notin Playing  BY <2>2 DEF Now, Playing
        <5>2. ~j.spoken  BY <3>2 DEF Unheard
        <5> QED  BY <1>1, <3>2, <5>1, <5>2, StillCounts DEF Audible
      <4>2. ~Early(j) /\ ~Over(j)  BY <3>2 DEF Early, Begun, Working, Over
      <4> QED  BY <2>6, <2>7, <3>2, <4>1, <4>2 DEF Alright
    <3> QED  BY <2>4, <3>1, <3>2
  <2> QED  BY <2>2, <2>4, <2>5, <2>8, Others DEF Lock
<1>7. CASE Push(s) \/ Pushed(s)
  <2>1. Now(s, "push") /\ outcome' = outcome /\ job[s].at \notin Playing  BY <1>7 DEF Push, Pushed, record, Now, Playing
  <2>2. Told(job[s])  BY <2>1 DEF Told, Now
  <2>3. Heeded(outcome'[s])  BY <2>1, <2>2 DEF VoiceInv, Accounted
  <2>4. CASE job' = [job EXCEPT ![s] = NextVoice(s)] /\ Lock(s)  BY <2>1, <2>3, <2>4, NextSays
  <2>5. CASE speaker[Line(s)] = None /\ Heard(s, FALSE) /\ speaker' = [speaker EXCEPT ![Line(s)] = s]
    <3>1. ~job[s].spoken /\ ~job[s].slice  BY <1>1, <2>1, <2>5, Unspoken, NoSlice DEF VoiceInv
    <3>2. PICK j : /\ Becomes(s, j) /\ j.at = job[s].at /\ j.voice = job[s].voice /\ Counts(j) /\ Untold(s, j)
      BY <1>1, <2>5, <3>1, Hears
    <3>3. speaker'[<<Track(s), j.voice>>] = s  BY <1>2, <2>5, <3>2 DEF Line
    <3>4. Bounded(j) /\ ~Early(j) /\ ~Over(j) /\ j.at # "queued"
      BY <1>1, <2>1, <3>2 DEF Bounded, Untold, Early, Begun, Working, Over, Now
    <3>5. Alright(s, j)  BY <2>3, <3>2, <3>3, <3>4 DEF Alright
    <3> QED  BY <2>1, <2>5, <3>2, <3>5, Others DEF Lock
  <2> QED  BY <1>7, <2>4, <2>5 DEF Push, Pushed, Lock
<1>8. CASE DrainTimesOut(s)
  <2>1. outcome' = outcome /\ Quiet(s) /\ job[s].at \in {"playing", "draining"}  BY <1>8 DEF DrainTimesOut, record
  <2>2. PICK j : /\ Becomes(s, j) /\ j.at \in {"result", "fallback"} /\ j.voice = job[s].voice
                 /\ Counts(j) /\ Untold(s, j)
    BY <1>1, <1>8, CutsShort
  <2>3. speaker[Line(s)] = s  BY <2>1 DEF VoiceInv, Locked, Audible, Line
  <2>4. job[s].at \in Begun /\ j.at \in Working \ {"push", "event"} /\ ~Audible(j)
    BY <2>1, <2>2 DEF Begun, Working, Audible
  <2>5. Alright(s, j)  BY <2>1, <2>2, <2>4, GoesOn
  <2> QED  BY <2>1, <2>2, <2>3, <2>5, Others DEF Lock
<1> QED  BY <1>3, <1>4, <1>5, <1>6, <1>7, <1>8 DEF Voicings

LEMMA OutsideSays == Counts(Out("handled")) /\ Counts(Out("pending")) /\ Counts(Out("queued"))
BY DEF Counts, Out

LEMMA LeavesSay ==
    ASSUME TypeOK, VoiceInv, NEW s \in Sentences, TakePaused(s) \/ ParkLate(s) \/ Finish(s) \/ Break(s)
    PROVE  VoiceInv'
<1>1. PICK step \in {"handled", "pending"} :
         /\ \E cs : Leave(s, step, cs)
         /\ outcome' = outcome \/ \E what \in Outcomes : Note(s, what)
         /\ step = "handled" => Heeded(outcome'[s]) /\ (Says[s].final => Closed(outcome'[s]))
  <2>1. {"paused", "parked", "final"} \subseteq Outcomes  BY DEF Outcomes
  <2>2. CASE TakePaused(s)
    <3>1. Note(s, "paused") /\ \E cs : Leave(s, "handled", cs)  BY <2>2 DEF TakePaused
    <3> QED  BY <2>1, <3>1, Notes
  <2>3. CASE ParkLate(s)
    <3>1. Note(s, "parked") /\ \E cs : Leave(s, "handled", cs)  BY <2>3 DEF ParkLate
    <3> QED  BY <2>1, <3>1, Notes
  <2>4. CASE Finish(s)
    <3>1. /\ Now(s, "event") /\ \E cs : Leave(s, "handled", cs)
          /\ IF Says[s].final THEN Note(s, "final") ELSE outcome' = outcome
      BY <2>4 DEF Finish
    <3>2. Heeded(outcome[s])  BY <3>1 DEF VoiceInv, Accounted, Told, Now
    <3>3. CASE Says[s].final
      <4>1. Note(s, "final")  BY <3>1, <3>3
      <4> QED  BY <2>1, <3>1, <3>2, <4>1, Notes
    <3>4. CASE ~Says[s].final  BY <3>1, <3>2, <3>4
    <3> QED  BY <3>3, <3>4
  <2>5. CASE Break(s)
    <3>1. /\ outcome' = outcome \/ Note(s, "result")
          /\ \E cs : Leave(s, "pending", cs)
      BY <2>5 DEF Break
    <3>2. "result" \in Outcomes  BY DEF Outcomes
    <3> QED  BY <3>1, <3>2
  <2> QED  BY <2>2, <2>3, <2>4, <2>5
<1>2. /\ job' = [u \in Sentences |-> IF u = s THEN Out(step) ELSE [job[u] EXCEPT !.ahead = @ \ {s}]]
      /\ speaker' = [l \in Lines |-> IF speaker[l] = s THEN None ELSE speaker[l]]
  BY <1>1, Zenon DEF Leave
<1>3. \A u \in Sentences : job[u] \in Job  BY Jobs
<1>4. job'[s] = Out(step)  BY <1>2
<1>5. \A u \in Sentences \ {s} :
         /\ job'[u].at = job[u].at /\ job'[u].voice = job[u].voice
         /\ Unheard(u, job'[u]) /\ Untold(u, job'[u])
  BY <1>2, <1>3 DEF Job, Unheard, Untold
<1>6. \A u \in Sentences \ {s} : outcome'[u] = outcome[u]  BY <1>1, Notes
<1>7. \A u \in Sentences \ {s} : Alright(u, job'[u])
  <2> TAKE u \in Sentences \ {s}
  <2>1. Audible(job'[u]) => speaker'[<<Track(u), job'[u].voice>>] = u
    <3> SUFFICES ASSUME Audible(job'[u]) PROVE speaker'[<<Track(u), job'[u].voice>>] = u  OBVIOUS
    <3>1. Audible(job[u]) /\ job'[u].voice = job[u].voice  BY <1>5 DEF Audible, Unheard
    <3>2. speaker[<<Track(u), job[u].voice>>] = u  BY <3>1 DEF VoiceInv, Locked
    <3>3. <<Track(u), job[u].voice>> \in Lines  BY LineOf DEF Line
    <3> QED  BY <1>2, <3>1, <3>2, <3>3
  <2>2. Counts(job'[u])
    <3>1. Counts(job[u])  BY DEF VoiceInv, Once
    <3> QED  BY <1>5, <3>1 DEF Counts, Unheard
  <2>3. /\ Bounded(job'[u]) /\ (Early(job'[u]) => job'[u].results = 0)
        /\ job'[u].at = "queued" => job'[u].voice = Default
    BY <1>5 DEF VoiceInv, NotYetTold, Early, Now, Bounded, Untold
  <2>4. (Told(job'[u]) => Heeded(outcome'[u])) /\ (Over(job'[u]) /\ Says[u].final => Closed(outcome'[u]))
    BY <1>5, <1>6 DEF VoiceInv, Accounted, Told, Over
  <2> QED  BY <2>1, <2>2, <2>3, <2>4 DEF Alright
<1>8. Alright(s, Out(step))
  <2>1. step \in Steps  BY DEF Steps
  <2>2. /\ Out(step).at = step /\ ~Out(step).spoken /\ Out(step).results = 0 /\ Out(step).voice = Default
        /\ Bounded(Out(step))
    BY <2>1, Outside DEF Default, Bounded
  <2>3. Counts(Out(step)) /\ ~Audible(Out(step)) /\ ~Early(Out(step))
    BY <2>2, OutsideSays DEF Audible, Early, Begun, Working
  <2>4. Told(Out(step)) \/ Over(Out(step)) => step = "handled"  BY <2>2 DEF Told, Over, Working
  <2> QED  BY <1>1, <2>2, <2>3, <2>4 DEF Alright
<1> QED  BY <1>4, <1>7, <1>8, AllRight

LEMMA EntersSays ==
    ASSUME TypeOK, VoiceInv, NEW s \in Sentences, Read(s) \/ Reclaim(s)
    PROVE  VoiceInv'
<1>1. PICK again \in BOOLEAN : Enter(s, again)  BY DEF Read, Reclaim
<1> DEFINE j == [Out("queued") EXCEPT !.era = era, !.again = again,
                                      !.ahead = {u \in Queued(Track(s)) : job[u].era = era}]
<1>2. job' = [job EXCEPT ![s] = j] /\ outcome' = outcome /\ speaker' = speaker  BY <1>1, Zenon DEF Enter
<1>3. /\ j.at = "queued" /\ j.voice = Default /\ j.results = 0 /\ j.repeats = 0 /\ j.sounds = 0 /\ j.cuts = 0
      /\ ~j.spoken /\ ~j.slice
  BY DEF Out, Default
<1> HIDE DEF j
<1>4. job'[s] = j /\ \A u \in Sentences \ {s} : job'[u] = job[u]  BY <1>2, Jobs
<1>5. Counts(j) /\ Bounded(j) /\ ~Audible(j) /\ ~Told(j) /\ ~Over(j)
  BY <1>3 DEF Counts, Bounded, Audible, Told, Over, Working
<1>6. Alright(s, j)  BY <1>3, <1>5 DEF Alright
<1>7. \A u \in Sentences \ {s} : Alright(u, job'[u])
  BY <1>2, <1>4 DEF Alright, VoiceInv, Locked, Once, NotYetTold, Accounted, Now
<1> QED  BY <1>4, <1>6, <1>7, AllRight

LEMMA CrashSays == ASSUME TypeOK, VoiceInv, Crash PROVE VoiceInv'
<1>1. \A s \in Sentences : job'[s] = Out("pending") \/ (job'[s] = job[s] /\ ~InHand(s))  BY DEF Crash
<1>2. outcome' = outcome  BY DEF Crash
<1>3. \A s \in Sentences : Alright(s, job'[s])
  <2> TAKE s \in Sentences
  <2>1. CASE job'[s] = Out("pending")
    <3>1. "pending" \in Steps  BY DEF Steps
    <3>2. Out("pending").at = "pending" /\ Bounded(Out("pending"))  BY <3>1, Outside DEF Bounded
    <3> DEFINE o == Out("pending")
    <3>4. o.at = "pending" /\ Bounded(o) /\ Counts(o)  BY <3>2, OutsideSays
    <3> HIDE DEF o
    <3>5. /\ ~Audible(o) /\ ~Early(o) /\ ~Told(o) /\ ~Over(o)
          /\ o.at # "queued"
      BY <3>4 DEF Audible, Early, Begun, Told, Over, Working
    <3>6. job'[s] = o  BY <2>1 DEF o
    <3>3. /\ Counts(job'[s]) /\ ~Audible(job'[s]) /\ ~Early(job'[s]) /\ ~Told(job'[s]) /\ ~Over(job'[s])
          /\ job'[s].at # "queued" /\ Bounded(job'[s])
      BY <3>4, <3>5, <3>6
    <3> QED  BY <3>3 DEF Alright
  <2>2. CASE job'[s] = job[s] /\ ~InHand(s)
    <3>1. ~Audible(job[s])  BY <2>2 DEF InHand, Audible, Working
    <3> QED  BY <1>2, <2>2, <3>1 DEF Alright, VoiceInv, Locked, Once, NotYetTold, Accounted, Now
  <2> QED  BY <1>1, <2>1, <2>2
<1> QED  BY <1>3, AllRight

LEMMA RestSays == ASSUME VoiceInv, UNCHANGED <<job, speaker, outcome>> PROVE VoiceInv'
BY DEF VoiceInv, Locked, Once, NotYetTold, Accounted, Now

LEMMA VoiceKept == ASSUME TypeOK, VoiceInv, Next PROVE VoiceInv'
<1>1. CASE \E s \in Sentences : Read(s) \/ Reclaim(s)  BY <1>1, EntersSays
<1>2. CASE \E s \in Sentences : TakeMute(s) \/ Spent(s) \/ Ack(s)  BY <1>2, EndsSay
<1>3. CASE \E s \in Sentences :
         \/ TakeLate(s) \/ Take(s) \/ Prepare(s) \/ CacheHit(s) \/ Dial(s) \/ DialFails(s) \/ TakeSlot(s)
         \/ OneShot(s) \/ OneShotDone(s) \/ Retry(s) \/ Flushed(s) \/ Drains(s) \/ Stream(s)
  BY <1>3, ServedSays
<1>4. CASE \E s \in Sentences : Continue(s) \/ Dialled(s) \/ SlotTooLate(s) \/ SpeakFails(s) \/ Played(s)
  BY <1>4, LinkedSays
<1>5. CASE \E s \in Sentences : Voicings(s)
  BY <1>5, VoicedSays
<1>6. CASE \E s \in Sentences : TakePaused(s) \/ ParkLate(s) \/ Finish(s) \/ Break(s)
  BY <1>6, LeavesSay
<1>7. CASE \E c \in Contexts : EndContext(c) \/ ExpireIdle(c) \/ ServerEnds(c)
  BY <1>7, RestSays DEF EndContext, ExpireIdle, ServerEnds, record
<1>8. CASE Crash  BY <1>8, CrashSays
<1>9. CASE Reroute \/ CleanupRoom  BY <1>9, RestSays DEF Reroute, CleanupRoom, record
<1> QED  BY <1>1, <1>2, <1>3, <1>4, <1>5, <1>6, <1>7, <1>8, <1>9 DEF Next, Voicings, Telling

-----------------------------------------------------------------------------
(* The slots of the plan.                                                  *)

\* A step that gives no context a slot or takes one from it, and leaves what will return one.
LEMMA SlotsStay ==
    ASSUME TypeOK, SlotInv, Counted',
           \A u \in Sentences : /\ job'[u].at = "slot" => job[u].at = "slot" /\ job'[u].ctx = job[u].ctx
                                /\ job'[u].at \in {"track", "speaking", "playing"} => job'[u].ctx \in Contexts,
           \A u \in Sentences, c \in Contexts : Uses(job[u], c) => Uses(job'[u], c) \/ Returning(context'[c]),
           \A c \in Contexts : /\ context'[c].slot = context[c].slot /\ context'[c].ended = context[c].ended
                               /\ context[c].retired => context'[c].retired
                               /\ context[c].timer =>
                                     Returning(context'[c]) \/ \E u \in Sentences : Uses(job'[u], c)
    PROVE  SlotInv'
<1>1. Connected'
  <2> SUFFICES ASSUME NEW u \in Sentences, job'[u].at \in {"slot", "track", "speaking", "playing"}
               PROVE  job'[u].ctx \in Contexts
    BY DEF Connected
  <2>1. job'[u].at = "slot" => job[u].ctx \in Contexts  BY DEF SlotInv, Connected
  <2> QED  BY <2>1
<1>2. Ended'  BY DEF SlotInv, Ended
<1>3. Unslotted'
  <2> SUFFICES ASSUME NEW u \in Sentences, job'[u].at = "slot"
               PROVE  /\ context'[job'[u].ctx].retired \/ ~context'[job'[u].ctx].slot
                      /\ \A v \in Sentences : job'[v].at = "slot" /\ job'[v].ctx = job'[u].ctx => v = u
    BY DEF Unslotted, Now
  <2>1. job[u].at = "slot" /\ job'[u].ctx = job[u].ctx /\ job[u].ctx \in Contexts
    BY DEF SlotInv, Connected
  <2>2. /\ context[job[u].ctx].retired \/ ~context[job[u].ctx].slot
        /\ \A v \in Sentences : job[v].at = "slot" /\ job[v].ctx = job[u].ctx => v = u
    BY <2>1 DEF SlotInv, Unslotted, Now
  <2> QED  BY <2>1, <2>2
<1>4. Kindled'
  <2> SUFFICES ASSUME NEW c \in Contexts, context'[c].slot
               PROVE  Returning(context'[c]) \/ \E u \in Sentences : Uses(job'[u], c)
    BY DEF Kindled
  <2>1. Returning(context[c]) \/ \E u \in Sentences : Uses(job[u], c)  BY DEF SlotInv, Kindled
  <2>2. CASE Returning(context[c])  BY <2>2 DEF Returning
  <2>3. CASE \E u \in Sentences : Uses(job[u], c)  BY <2>3
  <2> QED  BY <2>1, <2>2, <2>3
<1> QED  BY <1>1, <1>2, <1>3, <1>4 DEF SlotInv

\* Who takes a slot, or gives it back, is one more or one less.
LEMMA OneMore ==
    ASSUME NEW S, NEW x, IsFiniteSet(S), x \notin S
    PROVE  IsFiniteSet(S \cup {x}) /\ Cardinality(S \cup {x}) = Cardinality(S) + 1 /\ Cardinality(S) \in Nat
BY FS_AddElement, FS_CardinalityType

LEMMA OneLess ==
    ASSUME NEW S, NEW x, IsFiniteSet(S), x \in S
    PROVE  IsFiniteSet(S \ {x}) /\ Cardinality(S \ {x}) = Cardinality(S) - 1 /\ Cardinality(S) \in Nat
BY FS_RemoveElement, FS_CardinalityType

LEMMA ShotsStay ==
    ASSUME SlotInv, NEW s \in Sentences, \A u \in Sentences \ {s} : job'[u].at = job[u].at, free \in Int, Held' = Held,
           \/ job[s].at # "oneshot" /\ job'[s].at # "oneshot" /\ free' = free
           \/ job[s].at # "oneshot" /\ job'[s].at = "oneshot" /\ free' = free - 1
           \/ job[s].at = "oneshot" /\ job'[s].at # "oneshot" /\ free' = free + 1
    PROVE  Counted'
<1>1. IsFiniteSet(Held) /\ IsFiniteSet(Shots) /\ free = Slots - Cardinality(Held) - Cardinality(Shots)
  BY DEF SlotInv, Counted
<1>2. Cardinality(Held) \in Nat /\ Cardinality(Shots) \in Nat /\ Slots \in Nat  BY <1>1, FS_CardinalityType, Numbers
<1>3. CASE job[s].at # "oneshot" /\ job'[s].at # "oneshot" /\ free' = free
  <2>1. Shots' = Shots  BY <1>3 DEF Shots, Now
  <2> QED  BY <1>1, <1>3, <2>1 DEF Counted
<1>4. CASE job[s].at # "oneshot" /\ job'[s].at = "oneshot" /\ free' = free - 1
  <2>1. Shots' = Shots \cup {s} /\ s \notin Shots  BY <1>4 DEF Shots, Now
  <2>2. IsFiniteSet(Shots') /\ Cardinality(Shots') = Cardinality(Shots) + 1  BY <1>1, <2>1, OneMore
  <2>3. free' = Slots - Cardinality(Held') - Cardinality(Shots')  BY <1>1, <1>2, <1>4, <2>2
  <2> QED  BY <1>1, <2>2, <2>3 DEF Counted
<1>5. CASE job[s].at = "oneshot" /\ job'[s].at # "oneshot" /\ free' = free + 1
  <2>1. Shots' = Shots \ {s} /\ s \in Shots  BY <1>5 DEF Shots, Now
  <2>2. IsFiniteSet(Shots') /\ Cardinality(Shots') = Cardinality(Shots) - 1  BY <1>1, <2>1, OneLess
  <2>3. free' = Slots - Cardinality(Held') - Cardinality(Shots')  BY <1>1, <1>2, <1>5, <2>2
  <2> QED  BY <1>1, <2>2, <2>3 DEF Counted
<1> QED  BY <1>3, <1>4, <1>5

\* What a sentence's own step does to the contexts, its slot aside.
Softly(s, j) ==
    /\ \A c \in Contexts : /\ context'[c].slot = context[c].slot /\ context'[c].ended = context[c].ended
                           /\ context[c].retired => context'[c].retired
                           /\ context[c].timer => Returning(context'[c]) \/ Uses(j, c)
                           /\ Uses(job[s], c) => Uses(j, c) \/ Returning(context'[c])
    /\ j.at \in {"track", "speaking", "playing"} => j.ctx \in Contexts
    /\ j.at # "slot"

LEMMA SoftStep ==
    ASSUME TypeOK, SlotInv, NEW s \in Sentences, NEW j, Becomes(s, j), Softly(s, j),
           \/ job[s].at # "oneshot" /\ j.at # "oneshot" /\ free' = free
           \/ job[s].at # "oneshot" /\ j.at = "oneshot" /\ free' = free - 1
           \/ job[s].at = "oneshot" /\ j.at # "oneshot" /\ free' = free + 1
    PROVE  SlotInv'
<1>1. job'[s] = j /\ \A u \in Sentences \ {s} : job'[u] = job[u]  BY Alone
<1>2. Held' = Held  BY DEF Held, Softly
<1>3. free \in Int  BY Typed DEF Types
<1>4. Counted'  BY <1>1, <1>2, <1>3, ShotsStay
<1>5. \A u \in Sentences : /\ job'[u].at = "slot" => job[u].at = "slot" /\ job'[u].ctx = job[u].ctx
                           /\ job'[u].at \in {"track", "speaking", "playing"} => job'[u].ctx \in Contexts
  BY <1>1 DEF Softly, SlotInv, Connected
<1>6. \A u \in Sentences, c \in Contexts : Uses(job[u], c) => Uses(job'[u], c) \/ Returning(context'[c])
  BY <1>1 DEF Softly
<1>7. \A c \in Contexts : /\ context'[c].slot = context[c].slot /\ context'[c].ended = context[c].ended
                          /\ context[c].retired => context'[c].retired
                          /\ context[c].timer =>
                                Returning(context'[c]) \/ \E u \in Sentences : Uses(job'[u], c)
  BY <1>1 DEF Softly
<1> QED  BY <1>4, <1>5, <1>6, <1>7, SlotsStay

\* Contexts as they were, or some taken out of service.
LEMMA Steady == ASSUME TypeOK, context' = context
    PROVE \A c \in Contexts : /\ context'[c].slot = context[c].slot /\ context'[c].ended = context[c].ended
                              /\ context[c].retired => context'[c].retired
                              /\ context[c].timer => Returning(context'[c])
BY DEF Returning

LEMMA Retiring == ASSUME TypeOK, NEW cs, Retire(cs)
    PROVE \A c \in Contexts : /\ context'[c].slot = context[c].slot /\ context'[c].ended = context[c].ended
                              /\ context[c].retired => context'[c].retired
                              /\ context[c].timer => Returning(context'[c])
                              /\ c \in cs => Returning(context'[c])
BY Retires DEF Returning

LEMMA PlainSlots ==
    ASSUME TypeOK, SlotInv, NEW s \in Sentences,
           \/ TakeLate(s) \/ TakeMute(s) \/ Take(s) \/ Prepare(s) \/ CacheHit(s) \/ DialFails(s) \/ Dial(s)
           \/ Drains(s) \/ OneShot(s) \/ OneShotDone(s) \/ Retry(s) \/ Spent(s) \/ Ack(s)
    PROVE  SlotInv'
<1> DEFINE steps == {"late", "event", "taken", "ready", "result", "fallback", "dialling", "oneshot", "acked"}
<1>1. /\ \E step \in steps : Go(s, step) /\ job[s].at \notin {"track", "speaking"}
                               /\ \/ job[s].at # "oneshot" /\ step # "oneshot" /\ free' = free
                                  \/ job[s].at # "oneshot" /\ step = "oneshot" /\ free' = free - 1
                                  \/ job[s].at = "oneshot" /\ step # "oneshot" /\ free' = free + 1
      /\ context' = context \/ \E cs : Retire(cs)
  <2>1. CASE TakeLate(s) \/ TakeMute(s) \/ Take(s)
    BY <2>1 DEF TakeLate, TakeMute, Take, Turned, Now
  <2>2. CASE Prepare(s) \/ CacheHit(s) \/ DialFails(s)  BY <2>2 DEF Prepare, CacheHit, DialFails, Now
  <2>3. CASE Drains(s) \/ OneShot(s) \/ OneShotDone(s)  BY <2>3 DEF Drains, OneShot, OneShotDone, Now
  <2>4. CASE Retry(s) \/ Spent(s) \/ Ack(s)  BY <2>4 DEF Retry, Spent, Ack, Now
  <2>5. CASE Dial(s)
    <3>1. Now(s, "ready") /\ Go(s, "dialling") /\ free' = free /\ \E cs : Retire(cs)  BY <2>5 DEF Dial
    <3> QED  BY <3>1 DEF Now
  <2> QED  BY <2>1, <2>2, <2>3, <2>4, <2>5
<1>2. PICK step \in steps :
         /\ Go(s, step) /\ job[s].at \notin {"track", "speaking"}
         /\ \/ job[s].at # "oneshot" /\ step # "oneshot" /\ free' = free
            \/ job[s].at # "oneshot" /\ step = "oneshot" /\ free' = free - 1
            \/ job[s].at = "oneshot" /\ step # "oneshot" /\ free' = free + 1
  BY <1>1
<1>3. step \in Steps /\ step \notin {"track", "speaking", "playing", "slot"}  BY DEF Steps, Working
<1>4. PICK j : Becomes(s, j) /\ j.at = step  BY <1>2, <1>3, Goes
<1>5. \A c \in Contexts : /\ context'[c].slot = context[c].slot /\ context'[c].ended = context[c].ended
                          /\ context[c].retired => context'[c].retired
                          /\ context[c].timer => Returning(context'[c])
  BY <1>1, Steady, Retiring
<1>6. Softly(s, j)  BY <1>2, <1>3, <1>4, <1>5 DEF Softly, Uses
<1> QED  BY <1>2, <1>4, <1>6, SoftStep

LEMMA StreamSlots == ASSUME TypeOK, SlotInv, NEW s \in Sentences, Stream(s) PROVE SlotInv'
<1>1. Now(s, "track") /\ Go(s, "speaking") /\ context' = context /\ free' = free /\ "speaking" \in Steps
  BY DEF Stream, Steps, Working
<1>2. PICK j : Becomes(s, j) /\ j.at = "speaking" /\ j.ctx = job[s].ctx  BY <1>1, Goes
<1>3. job[s].ctx \in Contexts  BY <1>1 DEF SlotInv, Connected, Now
<1>4. Softly(s, j)  BY <1>1, <1>2, <1>3, Steady DEF Softly, Uses
<1> QED  BY <1>1, <1>2, <1>4, SoftStep DEF Now

LEMMA VoicedSlots ==
    ASSUME TypeOK, Locked, Once, SlotInv, NEW s \in Sentences,
           Voicings(s)
    PROVE  SlotInv'
<1> DEFINE steps == {"giving up", "backoff", "ready", "event", "push", "result", "fallback"}
<1>1. context' = context
  BY DEF Voicings, Sound, SliceDone, DrainTimesOut, OneShotEmpty, OneShotFails, GiveUp, Telling, Result, ResultRepeated,
         Tell, Push, Pushed
<1>2. CASE Sound(s) \/ SliceDone(s) \/ (Push(s) /\ Heard(s, FALSE))
  <2>1. PICK j : Becomes(s, j) /\ j.at = job[s].at /\ j.ctx = job[s].ctx
    <3>1. CASE Sound(s)
      <4>1. job[s].at \in Playing /\ ~job[s].spoken /\ ~job[s].slice /\ Heard(s, TRUE)
        BY <3>1 DEF Sound, Playing
      <4> QED  BY <4>1, Hears
    <3>2. CASE SliceDone(s)  BY <3>2, SliceEnds
    <3>3. CASE Push(s) /\ Heard(s, FALSE)
      <4>1. job[s].at \notin Playing /\ ~job[s].slice  BY <3>3, NoSlice DEF Push, Now, Playing
      <4>2. ~job[s].spoken \/ job' = [job EXCEPT ![s] = NextVoice(s)]  BY <3>3, Unspoken DEF Push
      <4>3. CASE ~job[s].spoken  BY <3>3, <4>1, <4>3, Hears
      <4>4. CASE job[s].spoken  BY <3>3, <4>4, Unspoken DEF Push
      <4> QED  BY <4>3, <4>4
    <3> QED  BY <1>2, <3>1, <3>2, <3>3
  <2>2. job[s].at \in {"speaking", "playing", "draining", "push"} /\ free' = free
    <3>1. SliceDone(s) => job[s].at \in Playing  BY DEF SliceDone, Once, Counts
    <3> QED  BY <1>2, <3>1 DEF Sound, SliceDone, Push, Now, Playing
  <2>3. Softly(s, j)  BY <1>1, <2>1, <2>2, Steady DEF Softly, Uses, SlotInv, Connected
  <2> QED  BY <2>1, <2>2, <2>3, SoftStep
<1>3. CASE /\ \E j : Becomes(s, j) /\ j.at \in steps
           /\ job[s].at \notin {"track", "speaking"}
           /\ \/ free' = free /\ job[s].at # "oneshot"
              \/ free' = free + 1 /\ job[s].at = "oneshot"
  <2>1. PICK j : Becomes(s, j) /\ j.at \in steps  BY <1>3
  <2>2. j.at \notin {"track", "speaking", "playing", "slot", "oneshot"}  BY <2>1
  <2>3. Softly(s, j)  BY <1>1, <1>3, <2>2, Steady DEF Softly, Uses
  <2> QED  BY <1>3, <2>1, <2>2, <2>3, SoftStep
<1>4. CASE OneShotFails(s)
  <2>1. \E j : Becomes(s, j) /\ j.at \in steps  BY <1>4, FailsAgain
  <2>2. job[s].at = "oneshot" /\ free' = free + 1  BY <1>4 DEF OneShotFails, Now
  <2> QED  BY <1>3, <2>1, <2>2
<1>5. CASE Telling(s)
  <2>1. PICK times \in {1, 2} : Tell(s, times)  BY <1>5, TellsOnce
  <2>2. job[s].at = "result" /\ free' = free  BY <2>1 DEF Tell, Now
  <2>3. ~job[s].slice  BY <2>2, NoSlice DEF Playing
  <2>4. \E j : Becomes(s, j) /\ j.at \in steps  BY <2>1, <2>3, Tells DEF Turns
  <2> QED  BY <1>3, <2>2, <2>4
<1>6. CASE job' = [job EXCEPT ![s] = NextVoice(s)] /\ (GiveUp(s) \/ Push(s) \/ Pushed(s) \/ OneShotEmpty(s))
  <2>1. job[s].at \in {"giving up", "push", "oneshot"} /\ free' = IF job[s].at = "oneshot" THEN free + 1 ELSE free
    BY <1>6 DEF GiveUp, Push, Pushed, OneShotEmpty, Now
  <2>2. ~job[s].slice  BY <2>1, NoSlice DEF Playing
  <2>3. \E j : Becomes(s, j) /\ j.at \in steps  BY <1>6, <2>2, NextVoices DEF Becomes, Turns
  <2> QED  BY <1>3, <2>1, <2>3
<1>7. CASE DrainTimesOut(s)
  <2>1. \E j : Becomes(s, j) /\ j.at \in steps  BY <1>7, CutsShort
  <2>2. job[s].at \in {"playing", "draining"} /\ free' = free  BY <1>7 DEF DrainTimesOut
  <2> QED  BY <1>3, <2>1, <2>2
<1>8. Push(s) => Heard(s, FALSE) \/ job' = [job EXCEPT ![s] = NextVoice(s)]  BY DEF Push
<1>9. GiveUp(s) \/ Pushed(s) \/ OneShotEmpty(s) => job' = [job EXCEPT ![s] = NextVoice(s)]
  BY DEF GiveUp, Pushed, OneShotEmpty
<1> QED  BY <1>2, <1>4, <1>5, <1>6, <1>7, <1>8, <1>9 DEF Voicings

LEMMA LinkedSlots ==
    ASSUME TypeOK, SlotInv, NEW s \in Sentences,
           Continue(s) \/ SlotTooLate(s) \/ SpeakFails(s) \/ Played(s) \/ Flushed(s)
    PROVE  SlotInv'
<1>1. CASE Continue(s)
  <2>1. PICK c \in Contexts \cup {None} :
           /\ c # None /\ Now(s, "ready") /\ free' = free /\ context' = [context EXCEPT ![c].timer = FALSE]
           /\ job' = [job EXCEPT ![s].at = "track", ![s].ctx = c]
    <3>1. open[Line(s)] \in Contexts \cup {None}  BY LineOf, Typed DEF Types
    <3> QED  BY <1>1, <3>1 DEF Continue
  <2>2. c \in Contexts  BY <2>1
  <2>3. "track" \in Steps /\ c \in Contexts \cup {None}  BY DEF Steps, Working
  <2>9. job' = [job EXCEPT ![s].at = "track", ![s].ctx = c]  BY <2>1
  <2>10. \E j : Becomes(s, j) /\ j.at = "track" /\ Same(s, j) /\ j.ctx = c
    BY <2>2, <2>9, Continues
  <2>4. PICK j : Becomes(s, j) /\ j.at = "track" /\ j.ctx = c  BY <2>10
  <2>5. \A d \in Contexts : /\ context'[d].slot = context[d].slot /\ context'[d].ended = context[d].ended
                            /\ context'[d].retired = context[d].retired /\ (d # c => context'[d] = context[d])
    BY <2>1, <2>2, Marks
  <2>6. ~Uses(job[s], c) /\ \A d \in Contexts : ~Uses(job[s], d)  BY <2>1 DEF Uses, Now
  <2>7. Uses(j, c)  BY <2>4 DEF Uses
  <2>8. Softly(s, j)  BY <2>2, <2>4, <2>5, <2>6, <2>7 DEF Softly, Returning
  <2> QED  BY <2>1, <2>4, <2>8, SoftStep DEF Now
<1>2. CASE SlotTooLate(s)
  <2>1. /\ job' = [job EXCEPT ![s].at = "fallback", ![s].ctx = None] /\ job[s].at = "slot"
        /\ context' = context /\ free' = free
    BY <1>2 DEF SlotTooLate, Now
  <2>2. "fallback" \in Steps /\ None \in Contexts \cup {None}  BY DEF Steps, Working
  <2>9. job' = [job EXCEPT ![s].at = "fallback", ![s].ctx = None]  BY <2>1
  <2>3. PICK j : Becomes(s, j) /\ j.at = "fallback"  BY <2>9, <2>2, Connects
  <2>4. Softly(s, j)  BY <2>1, <2>3, Steady DEF Softly, Uses
  <2> QED  BY <2>1, <2>3, <2>4, SoftStep
<1>5. CASE Played(s)
  <2>1. /\ job' = [job EXCEPT ![s].at = "result", ![s].ctx = None] /\ job[s].at = "playing"
        /\ context' = context /\ free' = free
    BY <1>5 DEF Played, Now
  <2>2. "result" \in Steps /\ None \in Contexts \cup {None}  BY DEF Steps, Working
  <2>9. job' = [job EXCEPT ![s].at = "result", ![s].ctx = None]  BY <2>1
  <2>3. PICK j : Becomes(s, j) /\ j.at = "result"  BY <2>9, <2>2, Connects
  <2>4. Softly(s, j)  BY <2>1, <2>3, Steady DEF Softly, Uses
  <2> QED  BY <2>1, <2>3, <2>4, SoftStep
<1>3. CASE SpeakFails(s)
  <2>1. /\ Now(s, "speaking") /\ Retire({job[s].ctx}) /\ free' = free
        /\ job' = [job EXCEPT ![s].at = "draining", ![s].ctx = None]
    BY <1>3 DEF SpeakFails
  <2>2. "draining" \in Steps /\ None \in Contexts \cup {None}  BY DEF Steps, Working
  <2>3. PICK j : Becomes(s, j) /\ j.at = "draining"  BY <2>1, <2>2, Connects
  <2>4. Softly(s, j)  BY <2>1, <2>3, Retiring DEF Softly, Uses
  <2> QED  BY <2>1, <2>3, <2>4, SoftStep DEF Now
<1>4. CASE Flushed(s)
  <2> DEFINE c == job[s].ctx
  <2>1. Now(s, "speaking") /\ Go(s, "playing") /\ free' = free /\ (Kept(s, c) \/ Retire({c}))
    BY <1>4 DEF Flushed
  <2>2. c \in Contexts  BY <2>1 DEF SlotInv, Connected, Now
  <2>3. "playing" \in Steps  BY DEF Steps, Working
  <2>4. PICK j : Becomes(s, j) /\ j.at = "playing" /\ j.ctx = c  BY <2>1, <2>3, Goes
  <2> HIDE DEF c
  <2>5. \A d \in Contexts : /\ context'[d].slot = context[d].slot /\ context'[d].ended = context[d].ended
                            /\ context[d].retired => context'[d].retired
                            /\ context[d].timer => Returning(context'[d])
                            /\ d = c => Returning(context'[d])
    <3>1. CASE Retire({c})  BY <3>1, Retiring
    <3>2. CASE context' = [context EXCEPT ![c].timer = TRUE]
      <4>1. context \in [Contexts -> Slip]  BY Typed DEF Types
      <4>2. context'[c].timer  BY <2>2, <3>2, <4>1 DEF Slip
      <4> QED  BY <2>2, <3>2, <4>2, Marks DEF Returning
    <3> QED  BY <2>1, <3>1, <3>2 DEF Kept
  <2>6. \A d \in Contexts : Uses(job[s], d) => d = c  BY DEF Uses, c
  <2>7. Softly(s, j)  BY <2>2, <2>4, <2>5, <2>6 DEF Softly
  <2> QED  BY <2>1, <2>4, <2>7, SoftStep DEF Now
<1> QED  BY <1>1, <1>2, <1>3, <1>4, <1>5

LEMMA TakeSlotSlots == ASSUME TypeOK, SlotInv, NEW s \in Sentences, TakeSlot(s) PROVE SlotInv'
<1> DEFINE c == job[s].ctx
<1>1. /\ Now(s, "slot") /\ ~context[c].retired /\ free' = free - 1
      /\ context' = [context EXCEPT ![c].slot = TRUE] /\ Go(s, "track")
  BY DEF TakeSlot
<1>2. c \in Contexts  BY <1>1 DEF SlotInv, Connected, Now
<1>3. ~context[c].slot /\ \A u \in Sentences : Now(u, "slot") /\ job[u].ctx = c => u = s
  BY <1>1 DEF SlotInv, Unslotted
<1>4. "track" \in Steps  BY DEF Steps, Working
<1>5. PICK j : Becomes(s, j) /\ j.at = "track" /\ j.ctx = c  BY <1>1, <1>4, Goes
<1> HIDE DEF c
<1>6. job'[s] = j /\ \A u \in Sentences \ {s} : job'[u] = job[u]  BY <1>5, Alone
<1>7. /\ context'[c].slot /\ context'[c].retired = context[c].retired /\ context'[c].ended = context[c].ended
      /\ \A d \in Contexts \ {c} : context'[d] = context[d]
  BY <1>1, <1>2, TakesSlot
<1>8. Connected'  BY <1>2, <1>5, <1>6 DEF SlotInv, Connected
<1>9. Ended'
  <2>1. ~context[c].ended  BY <1>1, <1>2 DEF SlotInv, Ended
  <2> QED  BY <1>7, <2>1 DEF SlotInv, Ended
<1>10. Unslotted'
  <2> SUFFICES ASSUME NEW u \in Sentences, job'[u].at = "slot"
               PROVE  /\ context'[job'[u].ctx].retired \/ ~context'[job'[u].ctx].slot
                      /\ \A v \in Sentences : job'[v].at = "slot" /\ job'[v].ctx = job'[u].ctx => v = u
    BY DEF Unslotted, Now
  <2>1. u # s /\ job'[u] = job[u]  BY <1>5, <1>6
  <2>2. Now(u, "slot") /\ job[u].ctx \in Contexts \ {c}
    BY <2>1, <1>3 DEF Now, SlotInv, Connected
  <2>3. context[job[u].ctx].retired \/ ~context[job[u].ctx].slot  BY <2>2 DEF SlotInv, Unslotted
  <2>4. \A v \in Sentences : job'[v].at = "slot" => job'[v] = job[v]  BY <1>5, <1>6
  <2>5. \A v \in Sentences : job[v].at = "slot" /\ job[v].ctx = job[u].ctx => v = u
    BY <2>2 DEF SlotInv, Unslotted, Now
  <2> QED  BY <2>1, <2>2, <2>3, <2>4, <2>5, <1>7
<1>11. Counted'
  <2>1. IsFiniteSet(Held) /\ IsFiniteSet(Shots) /\ free = Slots - Cardinality(Held) - Cardinality(Shots)
    BY DEF SlotInv, Counted
  <2>2. Cardinality(Held) \in Nat /\ Cardinality(Shots) \in Nat /\ Slots \in Nat  BY <2>1, FS_CardinalityType, Numbers
  <2>3. Held' = Held \cup {c} /\ c \notin Held  BY <1>2, <1>3, <1>7 DEF Held
  <2>4. Shots' = Shots  BY <1>1, <1>5, <1>6 DEF Shots, Now
  <2>5. IsFiniteSet(Held') /\ Cardinality(Held') = Cardinality(Held) + 1  BY <2>1, <2>3, OneMore
  <2>6. free' = Slots - Cardinality(Held') - Cardinality(Shots')  BY <1>1, <2>1, <2>2, <2>4, <2>5
  <2> QED  BY <2>1, <2>4, <2>5, <2>6 DEF Counted
<1>12. Kindled'
  <2> SUFFICES ASSUME NEW d \in Contexts, context'[d].slot
               PROVE  Returning(context'[d]) \/ \E u \in Sentences : Uses(job'[u], d)
    BY DEF Kindled
  <2>1. CASE d = c  BY <2>1, <1>5, <1>6 DEF Uses
  <2>2. CASE d # c
    <3>1. Returning(context[d]) \/ \E u \in Sentences : Uses(job[u], d)  BY <2>2, <1>7 DEF SlotInv, Kindled
    <3>2. \A u \in Sentences : Uses(job[u], d) => u # s  BY <1>1 DEF Uses, Now
    <3> QED  BY <2>2, <3>1, <3>2, <1>6, <1>7
  <2> QED  BY <2>1, <2>2
<1> QED  BY <1>8, <1>9, <1>10, <1>11, <1>12 DEF SlotInv

LEMMA DialledSlots == ASSUME TypeOK, SlotInv, NEW s \in Sentences, Dialled(s) PROVE SlotInv'
<1>1. PICK c \in Contexts :
         /\ Now(s, "dialling") /\ Unused(c) /\ free' = free /\ context' = [context EXCEPT ![c] = Fresh]
         /\ job' = [job EXCEPT ![s].at = "slot", ![s].ctx = c]
  BY DEF Dialled
<1>2. PICK j : Becomes(s, j) /\ j.at = "slot" /\ j.ctx = c
  <2> DEFINE j == [job[s] EXCEPT !.at = "slot", !.ctx = c]
  <2>1. job[s] \in Job /\ "slot" \in Steps  BY Jobs DEF Steps, Working
  <2>2. j \in Job /\ j.at = "slot" /\ j.ctx = c  BY <2>1 DEF Job
  <2>3. job' = [job EXCEPT ![s] = j]  BY <1>1, Jobs
  <2> HIDE DEF j
  <2> QED  BY <2>2, <2>3 DEF Becomes
<1>3. job'[s] = j /\ \A u \in Sentences \ {s} : job'[u] = job[u]  BY <1>2, Alone
<1>4. context[c].ended /\ \A u \in Sentences : job[u].ctx # c  BY <1>1 DEF Unused
<1>5. ~context[c].slot  BY <1>4 DEF SlotInv, Ended
<1>6. context'[c] = Fresh /\ \A d \in Contexts \ {c} : context'[d] = context[d]
  BY <1>1, Typed DEF Types
<1>7. ~Fresh.slot /\ ~Fresh.ended  BY DEF Fresh
<1>8. Connected'  BY <1>2, <1>3 DEF SlotInv, Connected
<1>9. Ended'  BY <1>6, <1>7 DEF SlotInv, Ended
<1>10. Unslotted'
  <2> SUFFICES ASSUME NEW u \in Sentences, job'[u].at = "slot"
               PROVE  /\ context'[job'[u].ctx].retired \/ ~context'[job'[u].ctx].slot
                      /\ \A v \in Sentences : job'[v].at = "slot" /\ job'[v].ctx = job'[u].ctx => v = u
    BY DEF Unslotted, Now
  <2>1. CASE u = s
    <3>1. job'[u].ctx = c  BY <2>1, <1>2, <1>3
    <3> QED  BY <3>1, <2>1, <1>3, <1>4, <1>6, <1>7
  <2>2. CASE u # s
    <3>1. job'[u] = job[u] /\ Now(u, "slot")  BY <2>2, <1>3 DEF Now
    <3>2. job[u].ctx \in Contexts \ {c}  BY <3>1, <1>4 DEF Now, SlotInv, Connected
    <3>3. /\ context[job[u].ctx].retired \/ ~context[job[u].ctx].slot
          /\ \A v \in Sentences : job[v].at = "slot" /\ job[v].ctx = job[u].ctx => v = u
      BY <3>1 DEF SlotInv, Unslotted, Now
    <3> QED  BY <3>1, <3>2, <3>3, <1>2, <1>3, <1>6
  <2> QED  BY <2>1, <2>2
<1>11. Counted'
  <2>1. Held' = Held  BY <1>5, <1>6, <1>7 DEF Held
  <2>2. Shots' = Shots  BY <1>1, <1>2, <1>3 DEF Shots, Now
  <2> QED  BY <1>1, <2>1, <2>2 DEF Counted, SlotInv
<1>12. Kindled'
  <2> SUFFICES ASSUME NEW d \in Contexts, context'[d].slot
               PROVE  Returning(context'[d]) \/ \E u \in Sentences : Uses(job'[u], d)
    BY DEF Kindled
  <2>1. d # c /\ context'[d] = context[d]  BY <1>6, <1>7
  <2>2. Returning(context[d]) \/ \E u \in Sentences : Uses(job[u], d)  BY <2>1 DEF SlotInv, Kindled
  <2>3. \A u \in Sentences : Uses(job[u], d) => u # s  BY <1>1 DEF Uses, Now
  <2> QED  BY <2>1, <2>2, <2>3, <1>3
<1> QED  BY <1>8, <1>9, <1>10, <1>11, <1>12 DEF SlotInv

LEMMA EndContextSlots == ASSUME TypeOK, SlotInv, NEW c \in Contexts, EndContext(c) PROVE SlotInv'
<1>1. /\ job' = job /\ context' = [context EXCEPT ![c] = Blank]
      /\ free' = free + (IF context[c].slot THEN 1 ELSE 0)
  BY DEF EndContext
<1>2. context'[c] = Blank /\ \A d \in Contexts \ {c} : context'[d] = context[d]  BY <1>1, Typed DEF Types
<1>3. ~Blank.slot /\ Blank.ended /\ Blank.retired  BY DEF Blank
<1>4. Connected'  BY <1>1 DEF SlotInv, Connected
<1>5. Ended'  BY <1>2, <1>3 DEF SlotInv, Ended
<1>6. Unslotted'
  <2>1. \A s \in Sentences : Now(s, "slot") => job[s].ctx \in Contexts  BY DEF SlotInv, Connected, Now
  <2>2. \A s \in Sentences : Now(s, "slot")' <=> Now(s, "slot")  BY <1>1 DEF Now
  <2>3. \A d \in Contexts : context[d].retired \/ ~context[d].slot => context'[d].retired \/ ~context'[d].slot
    BY <1>2, <1>3
  <2> QED  BY <1>1, <2>1, <2>2, <2>3 DEF SlotInv, Unslotted
<1>7. Counted'
  <2>1. IsFiniteSet(Held) /\ IsFiniteSet(Shots) /\ free = Slots - Cardinality(Held) - Cardinality(Shots)
    BY DEF SlotInv, Counted
  <2>2. Cardinality(Held) \in Nat /\ Cardinality(Shots) \in Nat /\ Slots \in Nat  BY <2>1, FS_CardinalityType, Numbers
  <2>3. Shots' = Shots  BY <1>1 DEF Shots, Now
  <2>4. CASE context[c].slot
    <3>1. Held' = Held \ {c} /\ c \in Held  BY <2>4, <1>2, <1>3 DEF Held
    <3>2. IsFiniteSet(Held') /\ Cardinality(Held') = Cardinality(Held) - 1  BY <2>1, <3>1, OneLess
    <3>3. free' = free + 1  BY <1>1, <2>4
    <3>4. free' = Slots - Cardinality(Held') - Cardinality(Shots')  BY <2>1, <2>2, <2>3, <3>2, <3>3
    <3> QED  BY <2>1, <2>3, <3>2, <3>4 DEF Counted
  <2>5. CASE ~context[c].slot
    <3>1. Held' = Held  BY <2>5, <1>2, <1>3 DEF Held
    <3>2. free' = free  BY <1>1, <2>5, <2>1, <2>2
    <3> QED  BY <2>1, <2>3, <3>1, <3>2 DEF Counted
  <2> QED  BY <2>4, <2>5
<1>8. Kindled'
  <2> SUFFICES ASSUME NEW d \in Contexts, context'[d].slot
               PROVE  Returning(context'[d]) \/ \E u \in Sentences : Uses(job'[u], d)
    BY DEF Kindled
  <2>1. d # c /\ context'[d] = context[d]  BY <1>2, <1>3
  <2> QED  BY <2>1, <1>1 DEF SlotInv, Kindled
<1> QED  BY <1>4, <1>5, <1>6, <1>7, <1>8 DEF SlotInv

LEMMA CrashSlots == ASSUME TypeOK, Crash PROVE SlotInv'
<1>1. /\ context' = [c \in Contexts |-> Blank] /\ free' = Slots
      /\ \A s \in Sentences : job'[s] = Out("pending") \/ (job'[s] = job[s] /\ ~InHand(s))
  BY DEF Crash
<1>2. \A s \in Sentences : job'[s].at \notin Working
  <2>1. Out("pending").at = "pending"  BY DEF Out
  <2> QED  BY <1>1, <2>1 DEF InHand, Working
<1>3. \A c \in Contexts : ~context'[c].slot /\ context'[c].retired  BY <1>1 DEF Blank
<1>4. Connected'  BY <1>2 DEF Connected, Working
<1>5. Ended' /\ Kindled'  BY <1>3 DEF Ended, Kindled
<1>6. Unslotted'  BY <1>2 DEF Unslotted, Now, Working
<1>7. Counted'
  <2>1. Held' = {}  BY <1>3 DEF Held
  <2>2. Shots' = {}  BY <1>2 DEF Shots, Now, Working
  <2>3. free' = Slots - 0 - 0  BY <1>1, Numbers
  <2> QED  BY <2>1, <2>2, <2>3, FS_EmptySet DEF Counted
<1> QED  BY <1>4, <1>5, <1>6, <1>7 DEF SlotInv

LEMMA LeaveSlots ==
    ASSUME TypeOK, SlotInv, NEW s \in Sentences, TakePaused(s) \/ ParkLate(s) \/ Finish(s) \/ Break(s)
    PROVE  SlotInv'
<1>1. PICK step \in {"handled", "pending"} : \E cs :
         /\ Leave(s, step, cs)
         /\ (job[s].at # "oneshot" /\ free' = free) \/ (job[s].at = "oneshot" /\ free' = free + 1)
         /\ job[s].at \in {"track", "speaking"} => job[s].ctx \in cs
  <2>1. CASE TakePaused(s) \/ ParkLate(s) \/ Finish(s)
    <3>1. Leave(s, "handled", {}) /\ free' = free /\ job[s].at \notin {"oneshot", "track", "speaking"}
      BY <2>1 DEF TakePaused, ParkLate, Finish, Turned, Now
    <3> QED  BY <3>1
  <2>2. CASE Break(s)
    <3>1. Leave(s, "pending", {job[s].ctx} \ {None}) /\ free' = free + (IF job[s].at = "oneshot" THEN 1 ELSE 0)
      BY <2>2 DEF Break, Now
    <3>2. free \in Int  BY Typed DEF Types
    <3>3. job[s].at \in {"track", "speaking"} => job[s].ctx \in {job[s].ctx} \ {None}
      BY Numbers DEF SlotInv, Connected
    <3>4. (job[s].at # "oneshot" /\ free' = free) \/ (job[s].at = "oneshot" /\ free' = free + 1)  BY <3>1, <3>2
    <3> QED  BY <3>1, <3>3, <3>4
  <2> QED  BY <2>1, <2>2
<1>2. PICK cs :
         /\ job' = [u \in Sentences |-> IF u = s THEN Out(step) ELSE [job[u] EXCEPT !.ahead = @ \ {s}]]
         /\ Retire(cs) /\ (job[s].at \in {"track", "speaking"} => job[s].ctx \in cs)
  BY <1>1 DEF Leave
<1>3. \A u \in Sentences : job[u] \in Job  BY Jobs
<1>4. job'[s].at = step  BY <1>2 DEF Out
<1>5. \A u \in Sentences \ {s} : job'[u].at = job[u].at /\ job'[u].ctx = job[u].ctx  BY <1>2, <1>3 DEF Job
<1>6. \A c \in Contexts : /\ context'[c].slot = context[c].slot /\ context'[c].ended = context[c].ended
                          /\ context[c].retired => context'[c].retired
                          /\ context[c].timer => Returning(context'[c])
                          /\ c \in cs => Returning(context'[c])
  BY <1>2, Retiring
<1>7. Held' = Held  BY <1>6 DEF Held
<1>8. free \in Int  BY Typed DEF Types
<1>9. Counted'  BY <1>1, <1>4, <1>5, <1>7, <1>8, ShotsStay
<1>10. \A u \in Sentences : /\ job'[u].at = "slot" => job[u].at = "slot" /\ job'[u].ctx = job[u].ctx
                            /\ job'[u].at \in {"track", "speaking", "playing"} => job'[u].ctx \in Contexts
  BY <1>4, <1>5 DEF SlotInv, Connected
<1>11. \A u \in Sentences, c \in Contexts : Uses(job[u], c) => Uses(job'[u], c) \/ Returning(context'[c])
  BY <1>2, <1>5, <1>6 DEF Uses
<1> QED  BY <1>6, <1>9, <1>10, <1>11, SlotsStay

LEMMA EnterSlots == ASSUME TypeOK, SlotInv, NEW s \in Sentences, Read(s) \/ Reclaim(s) PROVE SlotInv'
<1>1. PICK again \in BOOLEAN : Enter(s, again)  BY DEF Read, Reclaim
<1>2. job[s].at \in {"unread", "pending"}  BY DEF Read, Reclaim, Now
<1> DEFINE j == [Out("queued") EXCEPT !.era = era, !.again = again,
                                      !.ahead = {u \in Queued(Track(s)) : job[u].era = era}]
<1>3. job' = [job EXCEPT ![s] = j] /\ context' = context /\ free' = free  BY <1>1, Zenon DEF Enter
<1>4. j.at = "queued"  BY DEF Out
<1> HIDE DEF j
<1>5. job'[s] = j /\ \A u \in Sentences \ {s} : job'[u] = job[u]  BY <1>3, Jobs
<1>6. Held' = Held  BY <1>3 DEF Held
<1>7. free \in Int  BY Typed DEF Types
<1>8. Counted'
  <2>1. Shots' = Shots  BY <1>2, <1>4, <1>5 DEF Shots, Now
  <2> QED  BY <1>3, <1>6, <2>1 DEF Counted, SlotInv
<1>9. \A u \in Sentences : /\ job'[u].at = "slot" => job[u].at = "slot" /\ job'[u].ctx = job[u].ctx
                           /\ job'[u].at \in {"track", "speaking", "playing"} => job'[u].ctx \in Contexts
  BY <1>4, <1>5 DEF SlotInv, Connected
<1>10. \A u \in Sentences, c \in Contexts : Uses(job[u], c) => Uses(job'[u], c) \/ Returning(context'[c])
  BY <1>2, <1>5 DEF Uses
<1> QED  BY <1>3, <1>8, <1>9, <1>10, Steady, SlotsStay

LEMMA RoomSlots ==
    ASSUME TypeOK, SlotInv, job' = job, free' = free,
           \/ context' = context
           \/ \E cs : Retire(cs)
           \/ \E c \in Contexts : context' = [context EXCEPT ![c].closed = TRUE]
    PROVE  SlotInv'
<1>1. \A c \in Contexts : /\ context'[c].slot = context[c].slot /\ context'[c].ended = context[c].ended
                          /\ context[c].retired => context'[c].retired
                          /\ context[c].timer => Returning(context'[c])
  <2>1. CASE context' = context  BY <2>1, Steady
  <2>2. CASE \E cs : Retire(cs)  BY <2>2, Retiring
  <2>3. CASE \E c \in Contexts : context' = [context EXCEPT ![c].closed = TRUE]
    <3>1. PICK c \in Contexts : context' = [context EXCEPT ![c].closed = TRUE]  BY <2>3
    <3>2. context \in [Contexts -> Slip]  BY Typed DEF Types
    <3>3. context'[c].timer = context[c].timer  BY <3>1, <3>2 DEF Slip
    <3>4. \A d \in Contexts : /\ context'[d].slot = context[d].slot /\ context'[d].ended = context[d].ended
                              /\ context'[d].retired = context[d].retired /\ (d # c => context'[d] = context[d])
      BY <3>1, Marks
    <3> QED  BY <3>3, <3>4 DEF Returning
  <2> QED  BY <2>1, <2>2, <2>3
<1>2. Held' = Held /\ Shots' = Shots  BY <1>1 DEF Held, Shots, Now
<1>3. Counted'  BY <1>2 DEF SlotInv, Counted
<1>4. \A u \in Sentences : job'[u].at \in {"track", "speaking", "playing"} => job'[u].ctx \in Contexts
  BY DEF SlotInv, Connected
<1> QED  BY <1>1, <1>3, <1>4, SlotsStay

LEMMA SlotsKept == ASSUME TypeOK, Locked, Once, SlotInv, Next PROVE SlotInv'
<1>1. CASE \E s \in Sentences : Read(s) \/ Reclaim(s)  BY <1>1, EnterSlots
<1>2. CASE \E s \in Sentences :
         \/ TakeLate(s) \/ TakeMute(s) \/ Take(s) \/ Prepare(s) \/ CacheHit(s) \/ DialFails(s) \/ Dial(s)
         \/ Drains(s) \/ OneShot(s) \/ OneShotDone(s) \/ Retry(s) \/ Spent(s) \/ Ack(s)
  BY <1>2, PlainSlots
<1>3. CASE \E s \in Sentences : Stream(s)  BY <1>3, StreamSlots
<1>4. CASE \E s \in Sentences : Voicings(s)
  BY <1>4, VoicedSlots
<1>5. CASE \E s \in Sentences : Continue(s) \/ SlotTooLate(s) \/ SpeakFails(s) \/ Played(s) \/ Flushed(s)
  BY <1>5, LinkedSlots
<1>6. CASE \E s \in Sentences : TakeSlot(s)  BY <1>6, TakeSlotSlots
<1>7. CASE \E s \in Sentences : Dialled(s)  BY <1>7, DialledSlots
<1>8. CASE \E s \in Sentences : TakePaused(s) \/ ParkLate(s) \/ Finish(s) \/ Break(s)
  BY <1>8, LeaveSlots
<1>9. CASE \E c \in Contexts : EndContext(c)  BY <1>9, EndContextSlots
<1>10. CASE \E c \in Contexts : ExpireIdle(c) \/ ServerEnds(c)
  <2>1. CASE \E c \in Contexts : ExpireIdle(c)  BY <2>1, RoomSlots DEF ExpireIdle
  <2>2. CASE \E c \in Contexts : ServerEnds(c)  BY <2>2, RoomSlots DEF ServerEnds
  <2> QED  BY <1>10, <2>1, <2>2
<1>11. CASE Crash  BY <1>11, CrashSlots
<1>12. CASE Reroute  BY <1>12, RoomSlots DEF Reroute
<1>13. CASE CleanupRoom  BY <1>13, RoomSlots DEF CleanupRoom
<1> QED
  BY <1>1, <1>2, <1>3, <1>4, <1>5, <1>6, <1>7, <1>8, <1>9, <1>10, <1>11, <1>12, <1>13 DEF Next, Voicings, Telling

-----------------------------------------------------------------------------
(* Types are kept.                                                         *)

LEMMA EntersTyped ==
    ASSUME TypeOK, NEW s \in Sentences, NEW again \in BOOLEAN, Enter(s, again)
    PROVE  job' \in [Sentences -> Job]
<1> DEFINE line == {u \in Queued(Track(s)) : job[u].era = era}
           o == Out("queued")
           j == [o EXCEPT !.era = era, !.again = again, !.ahead = line]
<1>1. job' = [job EXCEPT ![s] = j]  BY Zenon DEF Enter
<1>2. o \in Job
  <2>1. "queued" \in Steps  BY DEF Steps
  <2> QED  BY <2>1, Outside
<1>3. era \in 1..MaxTurns + 1  BY Typed DEF Types
<1>4. line \in SUBSET Sentences  BY DEF Queued
<1> HIDE DEF o, line
<1>5. j \in Job  BY <1>2, <1>3, <1>4 DEF Job
<1> HIDE DEF j
<1> QED  BY <1>1, <1>5, Jobs

LEMMA CoreTyped ==
    ASSUME TypeOK, Locked, Once, Next
    PROVE  /\ job' \in [Sentences -> Job] /\ newest' \in [Tracks -> Nat]
           /\ aired' \in [Sentences -> 0..MaxTurns + 1] /\ era' \in Nat \ {0}
<1>1. /\ job \in [Sentences -> Job] /\ newest \in [Tracks -> Nat] /\ aired \in [Sentences -> 0..MaxTurns + 1]
      /\ era \in Nat \ {0} /\ MaxTurns \in Nat
  BY Typed, Jobs, Numbers DEF Types
<1>2. CASE \E s \in Sentences : Entering(s)
  <2>1. PICK s \in Sentences, again \in BOOLEAN : Enter(s, again)  BY <1>2 DEF Entering
  <2>2. UNCHANGED <<newest, aired, era>>  BY <2>1 DEF Enter, world
  <2> QED  BY <1>1, <2>1, <2>2, EntersTyped
<1>3. CASE \E s \in Sentences : Moving(s)
  <2>1. PICK s \in Sentences : Moving(s)  BY <1>3
  <2>2. PICK j : Becomes(s, j)  BY <2>1 DEF Moving
  <2>3. job' \in [Sentences -> Job]  BY <2>2, Alone
  <2>4. newest' \in [Tracks -> Nat] /\ era' = era  BY <2>1 DEF Moving
  <2>5. job[s].era \in 0..MaxTurns + 1  BY <1>1 DEF Job
  <2>6. aired' \in [Sentences -> 0..MaxTurns + 1]  BY <1>1, <2>1, <2>5 DEF Moving
  <2> QED  BY <1>1, <2>3, <2>4, <2>6
<1>4. CASE \E s \in Sentences : Leaving(s)
  <2>1. PICK s \in Sentences : Leaving(s)  BY <1>4
  <2>2. PICK step \in {"handled", "pending"} :
          job' = [u \in Sentences |-> IF u = s THEN Out(step) ELSE [job[u] EXCEPT !.ahead = @ \ {s}]]
    BY <2>1 DEF Leaving
  <2>3. Out(step) \in Job
    <3>1. step \in Steps  BY DEF Steps
    <3> QED  BY <3>1, Outside
  <2>4. \A u \in Sentences : [job[u] EXCEPT !.ahead = @ \ {s}] \in Job  BY <1>1 DEF Job
  <2>5. job' \in [Sentences -> Job]  BY <2>2, <2>3, <2>4
  <2>6. UNCHANGED <<newest, aired, era>>  BY <2>1 DEF Leaving
  <2> QED  BY <1>1, <2>5, <2>6
<1>5. CASE \E s \in Sentences : Closing(s)
  <2>1. PICK s \in Sentences : Closing(s)  BY <1>5
  <2>2. "acked" \in Steps /\ Go(s, "acked")  BY <2>1 DEF Closing, Steps
  <2>3. PICK j : Becomes(s, j)  BY <2>2, Goes
  <2>4. UNCHANGED <<newest, aired, era>>  BY <2>1 DEF Closing
  <2> QED  BY <1>1, <2>3, <2>4, Alone
<1>6. CASE Crash
  <2>1. "pending" \in Steps  BY DEF Steps
  <2>2. Out("pending") \in Job  BY <2>1, Outside
  <2>3. job' = [s \in Sentences |-> IF InHand(s) \/ Now(s, "handled") THEN Out("pending") ELSE job[s]]
    BY <1>6 DEF Crash
  <2>4. job' \in [Sentences -> Job]  BY <1>1, <2>2, <2>3
  <2>5. newest' = [t \in Tracks |-> 0] /\ aired' = [s \in Sentences |-> None] /\ era' = 1  BY <1>6 DEF Crash
  <2> QED  BY <1>1, <2>4, <2>5 DEF None
<1>7. CASE Forgetting  BY <1>1, <1>7 DEF Forgetting
<1>8. CASE Resting  BY <1>1, <1>8 DEF Resting
<1> QED  BY <1>2, <1>3, <1>4, <1>5, <1>6, <1>7, <1>8, Kinds

LEMMA TriesTyped ==
    ASSUME TypeOK, Aside, Next
    PROVE  tries' \in [Sentences -> 0..MaxAttempts]
<1>1. tries \in [Sentences -> 0..MaxAttempts] /\ MaxAttempts \in Nat \ {0}  BY Typed, Numbers DEF Types
<1>2. CASE \E s \in Sentences : Read(s) \/ Reclaim(s)
  <2>1. PICK s \in Sentences : Read(s) \/ Reclaim(s)  BY <1>2
  <2>2. tries' = [tries EXCEPT ![s] = @ + 1]  BY <2>1 DEF Read, Reclaim, Enter
  <2>3. tries[s] < MaxAttempts
    <3>1. CASE Read(s)
      <4>1. tries[s] = 0  BY <3>1 DEF Read, Aside
      <4> QED  BY <1>1, <4>1
    <3>2. CASE Reclaim(s)  BY <3>2 DEF Reclaim
    <3> QED  BY <2>1, <3>1, <3>2
  <2>4. tries[s] + 1 \in 0..MaxAttempts  BY <1>1, <2>3
  <2> QED  BY <1>1, <2>2, <2>4
<1>3. CASE tries' = tries  BY <1>1, <1>3
<1>4. \A s \in Sentences : Spent(s) \/ Ack(s) => tries' = tries  BY DEF Spent, Ack, record
<1>5. ASSUME NEW s \in Sentences, TakeLate(s) \/ TakeMute(s) \/ Take(s) \/ Prepare(s) PROVE tries' = tries
  BY <1>5 DEF TakeLate, TakeMute, Take, Prepare, record
<1>6. ASSUME NEW s \in Sentences,
             \/ CacheHit(s) \/ Dial(s) \/ DialFails(s) \/ TakeSlot(s) \/ Stream(s) \/ Flushed(s) \/ Drains(s)
             \/ OneShot(s) \/ OneShotDone(s) \/ Retry(s)
      PROVE  tries' = tries
  BY <1>6 DEF CacheHit, Dial, DialFails, TakeSlot, Stream, Flushed, Drains, OneShot, OneShotDone, Retry, record
<1>7. ASSUME NEW s \in Sentences, Continue(s) \/ Dialled(s) \/ SlotTooLate(s) \/ SpeakFails(s) \/ Played(s)
      PROVE  tries' = tries
  BY <1>7 DEF Continue, Dialled, SlotTooLate, SpeakFails, Played, record
<1>8. ASSUME NEW s \in Sentences, Voicings(s)
      PROVE  tries' = tries
  BY <1>8 DEF Voicings, Sound, SliceDone, DrainTimesOut, OneShotEmpty, OneShotFails, GiveUp, Telling, Result,
              ResultRepeated, Tell, Push, Pushed, record
<1>9. ASSUME NEW s \in Sentences, TakePaused(s) \/ ParkLate(s) \/ Finish(s) \/ Break(s) PROVE tries' = tries
  BY <1>9 DEF TakePaused, ParkLate, Finish, Break, record
<1>10. ASSUME NEW c \in Contexts, EndContext(c) \/ ExpireIdle(c) \/ ServerEnds(c) PROVE tries' = tries
  BY <1>10 DEF EndContext, ExpireIdle, ServerEnds, record
<1>11. Crash \/ Reroute \/ CleanupRoom => tries' = tries  BY DEF Crash, Reroute, CleanupRoom, record
<1> QED
  BY <1>2, <1>3, <1>4, <1>5, <1>6, <1>7, <1>8, <1>9, <1>10, <1>11 DEF Next, Voicings, Telling

\* How the rest of the state changes.
Noted == outcome' = outcome \/ \E s \in Sentences, what \in Outcomes : Note(s, what)
Faulted == faults' = faults \/ Fault
Spoken == speaker' = speaker \/ \E s \in Sentences : Quiet(s) \/ speaker' = [speaker EXCEPT ![Line(s)] = s]
Freed == free' = free \/ free' = free + 1 \/ free' = free - 1
Calm == UNCHANGED <<route, turns>> /\ Noted /\ Faulted

LEMMA SentencesCalm ==
    ASSUME NEW s \in Sentences,
           \/ Read(s) \/ Reclaim(s) \/ Spent(s) \/ TakeLate(s) \/ TakePaused(s) \/ TakeMute(s) \/ Take(s)
           \/ ParkLate(s) \/ Prepare(s) \/ CacheHit(s) \/ Continue(s) \/ Dial(s) \/ Dialled(s)
           \/ DialFails(s) \/ TakeSlot(s) \/ SlotTooLate(s) \/ Stream(s) \/ Flushed(s)
           \/ SpeakFails(s) \/ Played(s) \/ Drains(s) \/ OneShot(s) \/ OneShotDone(s)
           \/ Retry(s) \/ Voicings(s) \/ Finish(s) \/ Ack(s) \/ Break(s)
    PROVE  Calm
<1>1. Outcomes = {"result", "parked", "paused", "silent", "empty", "final"}  BY DEF Outcomes
<1>2. ASSUME Read(s) \/ Reclaim(s) PROVE Calm
  BY <1>2 DEF Read, Reclaim, Enter, Calm, Noted, Faulted, world
<1>3. ASSUME Spent(s) \/ TakePaused(s) \/ TakeMute(s) \/ ParkLate(s) PROVE Calm
  BY <1>1, <1>3 DEF Spent, TakePaused, TakeMute, ParkLate, Calm, Noted, Faulted, world
<1>4. ASSUME TakeLate(s) \/ Take(s) \/ Prepare(s) \/ CacheHit(s) \/ Ack(s) PROVE Calm
  BY <1>4 DEF TakeLate, Take, Prepare, CacheHit, Ack, Calm, Noted, Faulted, world, record
<1>5. ASSUME Continue(s) \/ Dial(s) \/ Dialled(s) \/ DialFails(s) \/ TakeSlot(s) \/ SlotTooLate(s) PROVE Calm
  BY <1>5 DEF Continue, Dial, Dialled, DialFails, TakeSlot, SlotTooLate, Calm, Noted, Faulted, world, record
<1>6. ASSUME Stream(s) \/ Flushed(s) \/ SpeakFails(s) \/ Played(s) \/ Drains(s) PROVE Calm
  BY <1>6 DEF Stream, Flushed, SpeakFails, Played, Drains, Calm, Noted, Faulted, world, record
<1>7. ASSUME OneShot(s) \/ OneShotDone(s) \/ OneShotFails(s) \/ Retry(s) PROVE Calm
  BY <1>7 DEF OneShot, OneShotDone, OneShotFails, Retry, Calm, Noted, Faulted, world, record
<1>8. ASSUME Sound(s) \/ SliceDone(s) \/ DrainTimesOut(s) \/ Push(s) \/ Pushed(s) PROVE Calm
  BY <1>8 DEF Sound, SliceDone, DrainTimesOut, Push, Pushed, Calm, Noted, Faulted, world, record
<1>9. ASSUME GiveUp(s) \/ OneShotEmpty(s) PROVE Calm
  <2>1. \E what \in {"parked", "empty"} : Note(s, what)  BY <1>9 DEF GiveUp, OneShotEmpty
  <2>2. Noted  BY <1>1, <2>1 DEF Noted
  <2> QED  BY <2>2, <1>9 DEF GiveUp, OneShotEmpty, Calm, Faulted, world
<1>10. ASSUME Telling(s) PROVE Calm
  <2>1. PICK times \in {1, 2} : Tell(s, times)  BY <1>10, TellsOnce
  <2>2. Noted  BY <1>1, <2>1 DEF Tell, Noted
  <2> QED  BY <2>1, <2>2, <1>10 DEF Telling, Result, ResultRepeated, Tell, Calm, Faulted, world
<1>12. ASSUME Break(s) PROVE Calm
  <2>1. outcome' = outcome \/ Note(s, "result")  BY <1>12 DEF Break
  <2>2. Noted  BY <1>1, <2>1 DEF Noted
  <2> QED  BY <2>2, <1>12 DEF Break, Calm, Faulted, world
<1>11. ASSUME Finish(s) PROVE Calm
  <2>1. Noted  BY <1>1, <1>11 DEF Finish, Noted
  <2> QED  BY <2>1, <1>11 DEF Finish, Calm, Faulted, world
<1> QED  BY <1>2, <1>3, <1>4, <1>5, <1>6, <1>7, <1>8, <1>9, <1>10, <1>11, <1>12 DEF Voicings

LEMMA NotesTyped ==
    ASSUME TypeOK, Noted, Faulted
    PROVE  outcome' \in [Sentences -> SUBSET Outcomes] /\ faults' \in 0..MaxFaults
<1>1. outcome \in [Sentences -> SUBSET Outcomes] /\ faults \in 0..MaxFaults /\ MaxFaults \in Nat
  BY Typed, Numbers DEF Types
<1>2. outcome' \in [Sentences -> SUBSET Outcomes]
  <2>1. CASE outcome' = outcome  BY <1>1, <2>1
  <2>2. CASE \E s \in Sentences, what \in Outcomes : Note(s, what)
    <3>1. PICK s \in Sentences, what \in Outcomes : Note(s, what)  BY <2>2
    <3>2. outcome[s] \cup {what} \in SUBSET Outcomes  BY <1>1
    <3> QED  BY <1>1, <3>1, <3>2 DEF Note
  <2> QED  BY <2>1, <2>2 DEF Noted
<1>3. faults' \in 0..MaxFaults  BY <1>1 DEF Faulted, Fault
<1> QED  BY <1>2, <1>3

\* Contexts, slots and locks.
Wired == context' \in [Contexts -> Slip] /\ open' \in [Lines -> Contexts \cup {None}]
Locking == free' \in Int /\ speaker' \in [Lines -> Sentences \cup {None}]

LEMMA LocksTyped ==
    ASSUME TypeOK, Freed, Spoken
    PROVE  Locking
<1>1. free \in Int /\ speaker \in [Lines -> Sentences \cup {None}]  BY Typed DEF Types
<1>2. free' \in Int  BY <1>1 DEF Freed
<1>3. CASE speaker' = speaker  BY <1>1, <1>2, <1>3 DEF Locking
<1>4. CASE \E s \in Sentences : Quiet(s) \/ speaker' = [speaker EXCEPT ![Line(s)] = s]
  <2>1. PICK s \in Sentences : Quiet(s) \/ speaker' = [speaker EXCEPT ![Line(s)] = s]  BY <1>4
  <2>2. speaker' \in [Lines -> Sentences \cup {None}]  BY <1>1, <2>1 DEF Quiet
  <2> QED  BY <1>2, <2>2 DEF Locking
<1> QED  BY <1>3, <1>4 DEF Spoken

LEMMA WiresStay == ASSUME TypeOK, UNCHANGED <<context, open>> PROVE Wired
BY Typed DEF Types, Wired

LEMMA WiresRetire == ASSUME TypeOK, NEW cs, Retire(cs) PROVE Wired
BY Retires DEF Wired

LEMMA SentencesWired ==
    ASSUME TypeOK, SlotInv, NEW s \in Sentences,
           \/ Read(s) \/ Reclaim(s) \/ Spent(s) \/ TakeLate(s) \/ TakePaused(s) \/ TakeMute(s) \/ Take(s)
           \/ ParkLate(s) \/ Prepare(s) \/ CacheHit(s) \/ Continue(s) \/ Dial(s) \/ Dialled(s)
           \/ DialFails(s) \/ TakeSlot(s) \/ SlotTooLate(s) \/ Stream(s) \/ Flushed(s)
           \/ SpeakFails(s) \/ Played(s) \/ Drains(s) \/ OneShot(s) \/ OneShotDone(s)
           \/ Retry(s) \/ Voicings(s) \/ Finish(s) \/ Ack(s) \/ Break(s)
    PROVE  Wired /\ Locking
<1>1. ASSUME Read(s) \/ Reclaim(s) \/ Spent(s) \/ TakeMute(s) PROVE Wired /\ Locking
  <2>1. UNCHANGED <<context, open, free, speaker>>  BY <1>1 DEF Read, Reclaim, Enter, Spent, TakeMute
  <2> QED  BY <2>1, WiresStay, LocksTyped DEF Freed, Spoken
<1>2. ASSUME TakeLate(s) \/ Take(s) \/ Prepare(s) \/ CacheHit(s) \/ Ack(s) PROVE Wired /\ Locking
  <2>1. UNCHANGED <<context, open, free, speaker>>  BY <1>2 DEF TakeLate, Take, Prepare, CacheHit, Ack
  <2> QED  BY <2>1, WiresStay, LocksTyped DEF Freed, Spoken
<1>3. ASSUME TakePaused(s) \/ ParkLate(s) \/ Finish(s) \/ Break(s) PROVE Wired /\ Locking
  <2>1. Freed
    <3>1. free \in Int  BY Typed DEF Types
    <3> QED  BY <1>3, <3>1 DEF TakePaused, ParkLate, Finish, Break, Freed
  <2>2. \E step, cs : Leave(s, step, cs)  BY <1>3 DEF TakePaused, ParkLate, Finish, Break
  <2>3. Wired  BY <2>2, WiresRetire DEF Leave
  <2>4. free' \in Int  BY <2>1, Typed DEF Freed, Types
  <2>5. speaker' = [l \in Lines |-> IF speaker[l] = s THEN None ELSE speaker[l]]  BY <2>2 DEF Leave
  <2>6. speaker' \in [Lines -> Sentences \cup {None}]  BY <2>5, Typed DEF Types
  <2> QED  BY <2>3, <2>4, <2>6 DEF Locking
<1>4. ASSUME Dial(s) PROVE Wired /\ Locking
  <2>1. UNCHANGED <<free, speaker>> /\ \E cs : Retire(cs)  BY <1>4 DEF Dial
  <2> QED  BY <2>1, WiresRetire, LocksTyped DEF Freed, Spoken
<1>5. ASSUME SpeakFails(s) PROVE Wired /\ Locking
  <2>1. UNCHANGED <<free, speaker>> /\ \E cs : Retire(cs)  BY <1>5 DEF SpeakFails
  <2> QED  BY <2>1, WiresRetire, LocksTyped DEF Freed, Spoken
<1>6. ASSUME Flushed(s) PROVE Wired /\ Locking
  <2>1. UNCHANGED <<free, speaker>> /\ (Kept(s, job[s].ctx) \/ Retire({job[s].ctx})) /\ Now(s, "speaking")
    BY <1>6 DEF Flushed
  <2>2. job[s].ctx \in Contexts  BY <2>1 DEF SlotInv, Connected, Now
  <2>3. open \in [Lines -> Contexts \cup {None}]  BY Typed DEF Types
  <2>4. Wired
    <3>1. CASE Kept(s, job[s].ctx)  BY <2>2, <2>3, <3>1, Marks DEF Kept, Wired
    <3>2. CASE Retire({job[s].ctx})  BY <3>2, WiresRetire
    <3> QED  BY <2>1, <3>1, <3>2
  <2> QED  BY <2>1, <2>4, LocksTyped DEF Freed, Spoken
<1>7. ASSUME Continue(s) PROVE Wired /\ Locking
  <2>1. open \in [Lines -> Contexts \cup {None}] /\ Line(s) \in Lines  BY LineOf, Typed DEF Types
  <2>2. /\ UNCHANGED <<open, free, speaker>> /\ open[Line(s)] # None
        /\ context' = [context EXCEPT ![open[Line(s)]].timer = FALSE]
    BY <1>7 DEF Continue
  <2>3. open[Line(s)] \in Contexts  BY <2>1, <2>2
  <2>4. Wired  BY <2>1, <2>2, <2>3, Marks DEF Wired
  <2> QED  BY <2>2, <2>4, LocksTyped DEF Freed, Spoken
<1>8. ASSUME Dialled(s) PROVE Wired /\ Locking
  <2>1. PICK c \in Contexts : /\ context' = [context EXCEPT ![c] = Fresh] /\ open' = [open EXCEPT ![Line(s)] = c]
                              /\ UNCHANGED <<free, speaker>>
    BY <1>8 DEF Dialled
  <2>2. context \in [Contexts -> Slip] /\ open \in [Lines -> Contexts \cup {None}] /\ Line(s) \in Lines
    BY LineOf, Typed DEF Types
  <2>3. Wired  BY <2>1, <2>2, Slips DEF Wired
  <2> QED  BY <2>1, <2>3, LocksTyped DEF Freed, Spoken
<1>9. ASSUME TakeSlot(s) PROVE Wired /\ Locking
  <2>1. /\ Now(s, "slot") /\ free' = free - 1 /\ UNCHANGED <<open, speaker>>
        /\ context' = [context EXCEPT ![job[s].ctx].slot = TRUE]
    BY <1>9 DEF TakeSlot
  <2>2. job[s].ctx \in Contexts  BY <2>1 DEF SlotInv, Connected, Now
  <2>3. open \in [Lines -> Contexts \cup {None}]  BY Typed DEF Types
  <2>4. Wired  BY <2>1, <2>2, <2>3, TakesSlot DEF Wired
  <2> QED  BY <2>1, <2>4, LocksTyped DEF Freed, Spoken
<1>10. ASSUME DialFails(s) \/ SlotTooLate(s) \/ Stream(s) \/ Played(s) \/ Drains(s) PROVE Wired /\ Locking
  <2>1. UNCHANGED <<context, open, free>> /\ Spoken
    BY <1>10 DEF DialFails, SlotTooLate, Stream, Played, Drains, Spoken
  <2> QED  BY <2>1, WiresStay, LocksTyped DEF Freed
<1>11. ASSUME Sound(s) \/ SliceDone(s) \/ GiveUp(s) \/ Telling(s) \/ Retry(s) PROVE Wired /\ Locking
  <2>1. UNCHANGED <<context, open, free, speaker>>
    BY <1>11 DEF Sound, SliceDone, GiveUp, Telling, Result, ResultRepeated, Tell, Retry
  <2> QED  BY <2>1, WiresStay, LocksTyped DEF Freed, Spoken
<1>12. ASSUME OneShot(s) \/ OneShotDone(s) \/ OneShotEmpty(s) \/ OneShotFails(s) PROVE Wired /\ Locking
  <2>1. UNCHANGED <<context, open, speaker>> /\ Freed
    BY <1>12 DEF OneShot, OneShotDone, OneShotEmpty, OneShotFails, Freed
  <2> QED  BY <2>1, WiresStay, LocksTyped DEF Spoken
<1>13. ASSUME Push(s) \/ Pushed(s) \/ DrainTimesOut(s) PROVE Wired /\ Locking
  <2>1. UNCHANGED <<context, open, free>> /\ Spoken
    BY <1>13 DEF Push, Pushed, DrainTimesOut, Spoken
  <2> QED  BY <2>1, WiresStay, LocksTyped DEF Freed
<1> QED  BY <1>1, <1>2, <1>3, <1>4, <1>5, <1>6, <1>7, <1>8, <1>9, <1>10, <1>11, <1>12, <1>13 DEF Voicings

LEMMA Between ==
    ASSUME NEW m \in Nat, NEW t \in 0..m, NEW e \in Nat \ {0}, e <= t + 1
    PROVE  e \in 1..m + 1
OBVIOUS

LEMMA TypesKept == ASSUME TypeOK, Elapsed, Elapsed', Aside, Locked, Once, SlotInv, Next PROVE TypeOK'
<1>1. /\ job' \in [Sentences -> Job] /\ newest' \in [Tracks -> Nat]
      /\ aired' \in [Sentences -> 0..MaxTurns + 1] /\ era' \in Nat \ {0}
  BY CoreTyped
<1>2. tries' \in [Sentences -> 0..MaxAttempts]  BY TriesTyped
<1>3. turns \in 0..MaxTurns /\ route \in {"on", "text", "paused"} /\ MaxTurns \in Nat  BY Typed, Numbers DEF Types
<1>4. Wired /\ Locking /\ Noted /\ Faulted /\ route' \in {"on", "text", "paused"} /\ turns' \in 0..MaxTurns
  <2>1. CASE Crash
    <3>1. /\ context' = [c \in Contexts |-> Blank] /\ open' = [l \in Lines |-> None]
          /\ speaker' = [l \in Lines |-> None] /\ free' = Slots /\ Fault /\ UNCHANGED <<turns, outcome>>
          /\ route' = "on"
      BY <2>1 DEF Crash
    <3>2. Wired  BY <3>1, Slips DEF Wired
    <3>3. Locking  BY <3>1, Numbers DEF Locking
    <3> QED  BY <1>3, <3>1, <3>2, <3>3 DEF Noted, Faulted
  <2>2. CASE Reroute
    <3>1. UNCHANGED <<context, open, free, speaker, outcome, faults>> /\ Turn /\ route' \in {"on", "text", "paused"}
      BY <2>2 DEF Reroute, record
    <3>2. turns' \in 0..MaxTurns  BY <1>3, <3>1 DEF Turn
    <3> QED  BY <3>1, <3>2, WiresStay, LocksTyped DEF Freed, Spoken, Noted, Faulted
  <2>3. CASE CleanupRoom
    <3>1. UNCHANGED <<free, speaker, outcome, faults>> /\ Turn /\ route' = "on" /\ \E cs : Retire(cs)
      BY <2>3 DEF CleanupRoom, record
    <3>2. turns' \in 0..MaxTurns  BY <1>3, <3>1 DEF Turn
    <3> QED  BY <3>1, <3>2, WiresRetire, LocksTyped DEF Freed, Spoken, Noted, Faulted
  <2>4. CASE \E c \in Contexts : EndContext(c)
    <3>1. PICK c \in Contexts : EndContext(c)  BY <2>4
    <3>2. /\ context' = [context EXCEPT ![c] = Blank] /\ UNCHANGED <<open, speaker, route, turns, outcome, faults>>
          /\ free' = free + (IF context[c].slot THEN 1 ELSE 0)
      BY <3>1 DEF EndContext, world, record
    <3>3. Wired  BY <3>2, Slips, Typed DEF Types, Wired
    <3>4. Freed
      <4>1. free \in Int  BY Typed DEF Types
      <4> QED  BY <3>2, <4>1 DEF Freed
    <3> QED  BY <1>3, <3>2, <3>3, <3>4, LocksTyped DEF Spoken, Noted, Faulted
  <2>5. CASE \E c \in Contexts : ExpireIdle(c) \/ ServerEnds(c)
    <3>1. PICK c \in Contexts : ExpireIdle(c) \/ ServerEnds(c)  BY <2>5
    <3>2. UNCHANGED <<free, speaker, route, turns, outcome, faults>>
      BY <3>1 DEF ExpireIdle, ServerEnds, world, record
    <3>3. Wired
      <4>1. CASE ExpireIdle(c)  BY <4>1, WiresRetire DEF ExpireIdle
      <4>2. CASE ServerEnds(c)
        <5>1. context' = [context EXCEPT ![c].closed = TRUE] /\ open' = open  BY <4>2 DEF ServerEnds
        <5> QED  BY <5>1, Marks, Typed DEF Types, Wired
      <4> QED  BY <3>1, <4>1, <4>2
    <3> QED  BY <1>3, <3>2, <3>3, LocksTyped DEF Freed, Spoken, Noted, Faulted
  <2>6. CASE \E s \in Sentences :
           \/ Read(s) \/ Reclaim(s) \/ Spent(s) \/ TakeLate(s) \/ TakePaused(s) \/ TakeMute(s) \/ Take(s)
           \/ ParkLate(s) \/ Prepare(s) \/ CacheHit(s) \/ Continue(s) \/ Dial(s) \/ Dialled(s)
           \/ DialFails(s) \/ TakeSlot(s) \/ SlotTooLate(s) \/ Stream(s) \/ Flushed(s)
           \/ SpeakFails(s) \/ Played(s) \/ Drains(s) \/ OneShot(s) \/ OneShotDone(s)
           \/ Retry(s) \/ Voicings(s) \/ Finish(s) \/ Ack(s) \/ Break(s)
    BY <1>3, <2>6, SentencesCalm, SentencesWired DEF Calm
  <2> QED  BY <2>1, <2>2, <2>3, <2>4, <2>5, <2>6 DEF Next, Voicings, Telling
<1>5. outcome' \in [Sentences -> SUBSET Outcomes] /\ faults' \in 0..MaxFaults  BY <1>4, NotesTyped
<1>6. era' \in 1..MaxTurns + 1
  <2>1. era' <= turns' + 1  BY DEF Elapsed
  <2>2. era' \in Nat \ {0}  BY <1>1
  <2>3. turns' \in 0..MaxTurns  BY <1>4
  <2>4. MaxTurns \in Nat  BY <1>3
  <2> QED  BY <2>1, <2>2, <2>3, <2>4, Between
<1>7. Types'  BY <1>1, <1>2, <1>4, <1>5, <1>6 DEF Types, Wired, Locking
<1> QED  BY <1>7, TypedNext


-----------------------------------------------------------------------------
(* The inductive invariant, and what follows from it.                      *)

LEMMA InitTyped == Init => TypeOK
<1> SUFFICES ASSUME Init PROVE Types  BY TypedNow
<1>1. /\ context = [c \in Contexts |-> Blank] /\ open = [l \in Lines |-> None] /\ free = Slots
      /\ speaker = [l \in Lines |-> None] /\ newest = [t \in Tracks |-> 0]
      /\ era = 1 /\ route = "on" /\ turns = 0 /\ outcome = [s \in Sentences |-> {}]
      /\ tries = [s \in Sentences |-> 0] /\ aired = [s \in Sentences |-> None]
  BY DEF Init
<1>2. PICK batch \in Batches : /\ job = [s \in Sentences |-> Out(IF s \in batch.says THEN "unread" ELSE "absent")]
                               /\ faults = MaxFaults - batch.faults
  BY DEF Init
<1>3. Out("unread") \in Job /\ Out("absent") \in Job  BY Outside DEF Steps
<1>4. job \in [Sentences -> Job]  BY <1>2, <1>3
<1>5. faults \in 0..MaxFaults
  <2>1. batch.faults \in 0..MaxFaults /\ MaxFaults \in Nat  BY WellFormed, Numbers
  <2> QED  BY <1>2, <2>1
<1>6. MaxTurns \in Nat /\ MaxAttempts \in Nat /\ Slots \in Nat  BY Numbers
<1>7. context \in [Contexts -> Slip] /\ open \in [Lines -> Contexts \cup {None}]  BY <1>1, Slips
<1>8. free \in Int /\ speaker \in [Lines -> Sentences \cup {None}] /\ newest \in [Tracks -> Nat]  BY <1>1, <1>6
<1>9. era \in 1..MaxTurns + 1 /\ route \in {"on", "text", "paused"} /\ turns \in 0..MaxTurns  BY <1>1, <1>6
<1>10. outcome \in [Sentences -> SUBSET Outcomes]  BY <1>1
<1>11. tries \in [Sentences -> 0..MaxAttempts]  BY <1>1, <1>6
<1>12. aired \in [Sentences -> 0..MaxTurns + 1]  BY <1>1, <1>6 DEF None
<1> QED  BY <1>4, <1>5, <1>7, <1>8, <1>9, <1>10, <1>11, <1>12 DEF Types

\* Nothing is in hand yet.
LEMMA Beginning ==
    ASSUME Init
    PROVE  \A s \in Sentences :
              /\ job[s].at \in {"unread", "absent"} /\ job[s].era = 1 /\ job[s].voice = Default
              /\ job[s].sounds = 0 /\ job[s].cuts = 0 /\ ~job[s].slice /\ ~job[s].spoken
              /\ job[s].results = 0 /\ job[s].repeats = 0 /\ job[s].ctx = None
              /\ tries[s] = 0 /\ aired[s] = None
<1>1. PICK batch : job = [s \in Sentences |-> Out(IF s \in batch.says THEN "unread" ELSE "absent")]
  BY DEF Init
<1>2. tries = [s \in Sentences |-> 0] /\ aired = [s \in Sentences |-> None]  BY DEF Init
<1>3. "unread" \in Steps /\ "absent" \in Steps  BY DEF Steps
<1> SUFFICES ASSUME NEW s \in Sentences
             PROVE  /\ job[s].at \in {"unread", "absent"} /\ job[s].era = 1 /\ job[s].voice = Default
                    /\ job[s].sounds = 0 /\ job[s].cuts = 0 /\ ~job[s].slice /\ ~job[s].spoken
                    /\ job[s].results = 0 /\ job[s].repeats = 0 /\ job[s].ctx = None
  BY <1>2
<1>4. CASE s \in batch.says
  <2>1. job[s] = Out("unread")  BY <1>1, <1>4
  <2> QED  BY <2>1, <1>3, Outside DEF Default
<1>5. CASE s \notin batch.says
  <2>1. job[s] = Out("absent")  BY <1>1, <1>5
  <2> QED  BY <2>1, <1>3, Outside DEF Default
<1> QED  BY <1>4, <1>5

LEMMA InitInv == Init => IInv
<1> SUFFICES ASSUME Init PROVE IInv  OBVIOUS
<1>1. TypeOK  BY InitTyped
<1>2. /\ era = 1 /\ turns = 0 /\ free = Slots /\ context = [c \in Contexts |-> Blank]
      /\ newest = [t \in Tracks |-> 0]
  BY DEF Init
<1>3. Elapsed /\ Aside  BY <1>2, Beginning DEF Elapsed, Aside
<1>4. \A s \in Sentences : ~InHand(s) /\ job[s].at \notin Working /\ ~Now(s, "slot") /\ ~Now(s, "oneshot")
  BY Beginning DEF InHand, Now, Working
<1>5. SlotInv
  <2>1. \A c \in Contexts : ~context[c].slot /\ context[c].retired /\ context[c].ended  BY <1>2 DEF Blank
  <2>2. Connected  BY Beginning DEF Connected
  <2>3. Ended  BY <2>1 DEF Ended
  <2>4. Unslotted  BY <1>4 DEF Unslotted
  <2>5. Held = {} /\ Shots = {}  BY <1>4, <2>1 DEF Held, Shots
  <2>6. Counted
    <3>1. Cardinality({}) = 0 /\ IsFiniteSet({})  BY FS_EmptySet
    <3>2. free = Slots - 0 - 0  BY <1>2, Numbers
    <3> QED  BY <2>5, <3>1, <3>2 DEF Counted
  <2>7. Kindled  BY <2>1 DEF Kindled
  <2> QED  BY <2>2, <2>3, <2>4, <2>6, <2>7 DEF SlotInv
<1>6. VoiceInv
  <2>1. Locked  BY Beginning DEF Locked, Audible
  <2>2. Once  BY Beginning DEF Once, Counts
  <2>3. NotYetTold
    <3>1. \A s \in Sentences : job[s].results = 0 /\ job[s].repeats = 0 /\ job[s].voice = Default  BY Beginning
    <3> QED  BY <3>1 DEF NotYetTold, Bounded
  <2>4. Accounted
    <3>1. \A s \in Sentences : ~Told(job[s]) /\ ~Over(job[s])  BY Beginning DEF Told, Over, Working
    <3> QED  BY <3>1 DEF Accounted
  <2> QED  BY <2>1, <2>2, <2>3, <2>4 DEF VoiceInv
<1>7. OrderInv
  <2>1. ReadInOrder  BY Beginning DEF ReadInOrder
  <2>2. Unsaid  BY Beginning DEF Unsaid
  <2>3. Past  BY <1>2, Beginning DEF Past, None
  <2>4. Front  BY <1>4 DEF Front
  <2>5. InLine  BY <1>4 DEF InLine
  <2>6. Later  BY <1>4 DEF Later
  <2>7. Marked
    <3>1. \A s \in Sentences : aired[s] # era /\ job[s].at \notin Voicing
      BY <1>2, <1>4, Beginning DEF Voicing, None
    <3> QED  BY <3>1 DEF Marked
  <2>8. Foremost  BY <1>4 DEF Foremost
  <2> QED  BY <2>1, <2>2, <2>3, <2>4, <2>5, <2>6, <2>7, <2>8 DEF OrderInv
<1> QED  BY <1>1, <1>3, <1>5, <1>6, <1>7 DEF IInv

LEMMA Stutters == ASSUME IInv, UNCHANGED vars PROVE IInv'
<1>1. /\ job' = job /\ context' = context /\ open' = open /\ free' = free /\ speaker' = speaker
      /\ newest' = newest /\ era' = era /\ route' = route /\ turns' = turns /\ outcome' = outcome
      /\ tries' = tries /\ aired' = aired /\ faults' = faults
  BY DEF vars, world, record
<1>2. TypeOK'  BY <1>1 DEF IInv, TypeOK
<1>3. Elapsed' /\ Aside'  BY <1>1 DEF IInv, Elapsed, Aside, InHand, Now
<1>4. SlotInv'
  BY <1>1 DEF IInv, SlotInv, Connected, Ended, Unslotted, Counted, Held, Shots, Kindled, Returning, Uses, Now
<1>5. VoiceInv'
  BY <1>1 DEF IInv, VoiceInv, Locked, Once, NotYetTold, Accounted, Audible, Counts, Early, Bounded, Told, Over, Now
<1>6. OrderInv'
  BY <1>1 DEF IInv, OrderInv, ReadInOrder, Unsaid, Past, Front, InLine, Later, Marked, Foremost, InHand, Now
<1> QED  BY <1>2, <1>3, <1>4, <1>5, <1>6 DEF IInv

LEMMA Advances == ASSUME IInv, Next PROVE IInv'
<1>1. TypeOK /\ Elapsed /\ Aside /\ SlotInv /\ VoiceInv /\ OrderInv /\ Locked /\ Once  BY DEF IInv, VoiceInv
<1>2. Elapsed' /\ Aside'  BY <1>1, ElapsedKept
<1>3. TypeOK'  BY <1>1, <1>2, TypesKept
<1>4. SlotInv'  BY <1>1, SlotsKept
<1>5. VoiceInv'  BY <1>1, VoiceKept
<1>6. OrderInv'  BY <1>1, OrderKept
<1> QED  BY <1>2, <1>3, <1>4, <1>5, <1>6 DEF IInv

LEMMA Invariance == Spec => []IInv
<1>1. IInv /\ [Next]_vars => IInv'  BY Advances, Stutters
<1> QED  BY InitInv, <1>1, PTL DEF Spec

\* Every variable of the dubbing worker has its type: a slot is never counted
\* beyond the integers, nor an attempt, a fault or an end of the room beyond its bound.
THEOREM TypeCorrect == Spec => []TypeOK
<1>1. IInv => TypeOK  BY DEF IInv
<1> QED  BY Invariance, <1>1, PTL

\* However sentences and rooms end, each slot of the plan is free or held once, by a
\* request in flight or a context, and a held one will be given back
\* (tts_worker/worker.py:1362, synthesizer.py:33).
THEOREM EverySlotComesBack == Spec => []SlotsComeBack
<1>1. SlotInv => SlotsComeBack
  <2> SUFFICES ASSUME SlotInv PROVE SlotsComeBack  OBVIOUS
  <2>1. free = Slots - Cardinality(Held) - Cardinality(Shots)  BY DEF SlotInv, Counted
  <2>2. \A c \in Contexts : context[c].slot =>
           \/ context[c].retired \/ context[c].timer
           \/ \E s \in Sentences : job[s].ctx = c /\ job[s].at \in {"track", "speaking"}
    BY DEF SlotInv, Kindled, Returning, Uses
  <2> QED  BY <2>1, <2>2 DEF SlotsComeBack, Held, Shots
<1>2. IInv => SlotInv  BY DEF IInv
<1> QED  BY Invariance, <1>1, <1>2, PTL

\* However often its synthesis fails, falls back or is retried, the opening of a sentence
\* is heard once in a handling, and once more only for each drain cut short in its first
\* slice; it is told of once, and once more only for each lost answer
\* (tts_worker/worker.py:1735, 2797).
THEOREM EverySentenceIsSaidOnce == Spec => []SaidOnce
<1>1. IInv => SaidOnce
  <2> SUFFICES ASSUME IInv, NEW s \in Sentences
               PROVE  job[s].sounds <= 1 + job[s].cuts /\ job[s].results <= 1 + job[s].repeats
    BY DEF SaidOnce
  <2>1. job[s].cuts \in Nat
    <3>1. job \in [Sentences -> Job]  BY Jobs DEF IInv
    <3> QED  BY <3>1 DEF Job
  <2>2. job[s].sounds = job[s].cuts + (IF job[s].spoken \/ job[s].slice THEN 1 ELSE 0)
    BY DEF IInv, VoiceInv, Once, Counts
  <2>3. job[s].results <= 1 + job[s].repeats  BY DEF IInv, VoiceInv, NotYetTold, Bounded
  <2> QED  BY <2>1, <2>2, <2>3
<1> QED  BY Invariance, <1>1, PTL

\* An acknowledged sentence was published, parked, had nothing to be said, or the vendor
\* sent no audio for it; and its turn's end was announced, but in a paused room or of a
\* parked one (tts_worker/worker.py:2643, 1933).
THEOREM NoSentenceIsDropped == Spec => []NothingDropped
<1>1. IInv => NothingDropped
  <2> SUFFICES ASSUME IInv, NEW s \in Sentences, Now(s, "acked")
               PROVE  /\ outcome[s] \ {"final"} # {}
                      /\ Says[s].final => outcome[s] \cap {"final", "paused", "parked"} # {}
    BY DEF NothingDropped
  <2>1. Told(job[s]) /\ Over(job[s])  BY DEF Now, Told, Over
  <2>2. Heeded(outcome[s]) /\ (Says[s].final => Closed(outcome[s]))  BY <2>1 DEF IInv, VoiceInv, Accounted
  <2> QED  BY <2>2 DEF Heeded, Closed
<1> QED  BY Invariance, <1>1, PTL


\* A sentence is begun among the steps that say it.
LEMMA OpeningsHeard ==
    ASSUME TypeOK, Locked, Once, Next, NEW s \in Sentences, job'[s].sounds > job[s].sounds
    PROVE  job[s].at \in Voicing
<1>1. job \in [Sentences -> Job]  BY Jobs
<1> job[s].sounds \in Nat  BY <1>1 DEF Job
<1>2. CASE \E x \in Sentences : Entering(x)
  <2>1. PICK x \in Sentences, again \in BOOLEAN : Enter(x, again)  BY <1>2 DEF Entering
  <2> DEFINE o == Out("queued")
             j == [o EXCEPT !.era = era, !.again = again, !.ahead = {u \in Queued(Track(x)) : job[u].era = era}]
  <2>2. job' = [job EXCEPT ![x] = j]  BY <2>1 DEF Enter
  <2>3. j.sounds = 0  BY DEF Out
  <2> HIDE DEF j
  <2> QED  BY <1>1, <2>2, <2>3
<1>3. CASE \E x \in Sentences : Moving(x)
  <2>1. PICK x \in Sentences : Moving(x)  BY <1>3
  <2>2. PICK j : Becomes(x, j) /\ (j.sounds # job[x].sounds /\ j.sounds # 0 => job[x].at \in Voicing)
    BY <2>1 DEF Moving
  <2>3. job'[x] = j /\ \A u \in Sentences \ {x} : job'[u] = job[u]  BY <2>2, Alone
  <2> QED  BY <2>2, <2>3
<1>4. CASE \E x \in Sentences : Leaving(x)
  <2>1. PICK x \in Sentences, step \in {"handled", "pending"} :
           job' = [u \in Sentences |-> IF u = x THEN Out(step) ELSE [job[u] EXCEPT !.ahead = @ \ {x}]]
    BY <1>4 DEF Leaving
  <2>2. CASE s = x
    <3>1. job'[s] = Out(step)  BY <2>1, <2>2
    <3> QED  BY <3>1 DEF Out
  <2>3. CASE s # x
    <3>1. job'[s] = [job[s] EXCEPT !.ahead = @ \ {x}]  BY <2>1, <2>3
    <3> QED  BY <1>1, <3>1 DEF Job
  <2> QED  BY <2>2, <2>3
<1>5. CASE \E x \in Sentences : Closing(x)
  <2>1. PICK x \in Sentences : Go(x, "acked")  BY <1>5 DEF Closing
  <2>2. "acked" \in Steps  BY DEF Steps
  <2>3. PICK j : Becomes(x, j) /\ Same(x, j)  BY <2>1, <2>2, Goes
  <2>4. job'[x] = j /\ \A u \in Sentences \ {x} : job'[u] = job[u]  BY <2>3, Alone
  <2> QED  BY <2>3, <2>4 DEF Same, Unheard
<1>6. CASE Crash
  <2>1. job'[s] = Out("pending") \/ job'[s] = job[s]  BY <1>6 DEF Crash
  <2> QED  BY <2>1 DEF Out
<1>7. CASE Forgetting \/ Resting  BY <1>7 DEF Forgetting, Resting
<1> QED  BY <1>2, <1>3, <1>4, <1>5, <1>6, <1>7, Kinds

\* Until its room is forgotten, a track says its sentences in the order they arrived; a
\* redelivered one never follows one that comes later in the conversation
\* (tts_worker/worker.py:877, 1029).
THEOREM SaidInOrder == Spec => InOrder
<1>1. ASSUME IInv, Next, NEW s \in Sentences, NEW u \in Sentences, job'[s].sounds > job[s].sounds,
             Track(u) = Track(s), u # s, aired[u] = era, job[s].era = era
      PROVE  IF job[s].again THEN Says[s].position = 0 \/ Says[u].position <= Says[s].position ELSE u < s
  <2>1. TypeOK /\ Locked /\ Once /\ Foremost /\ Later  BY <1>1 DEF IInv, VoiceInv, OrderInv
  <2>2. job[s].at \in Voicing  BY <1>1, <2>1, OpeningsHeard
  <2>3. job[s].at \in Working \ {"late"} /\ InHand(s)  BY <2>2 DEF Voicing, InHand
  <2>4. CASE job[s].again
    <3>1. Says[s].position \in Nat  BY Numbers
    <3>2. Says[s].position > 0 => Says[u].position <= Says[s].position  BY <1>1, <2>1, <2>3, <2>4 DEF Foremost
    <3> QED  BY <2>4, <3>1, <3>2
  <2>5. CASE ~job[s].again
    <3>1. ~(s < u)  BY <1>1, <2>1, <2>3, <2>5 DEF Later
    <3>2. s \in Nat /\ u \in Nat  BY Numbers
    <3> QED  BY <1>1, <2>5, <3>1, <3>2
  <2> QED  BY <2>4, <2>5
<1> DEFINE Ordered == \A s, u \in Sentences :
        /\ job'[s].sounds > job[s].sounds
        /\ Track(u) = Track(s) /\ u # s /\ aired[u] = era /\ job[s].era = era
        => IF job[s].again THEN Says[s].position = 0 \/ Says[u].position <= Says[s].position
                           ELSE u < s
<1>2. IInv /\ [Next]_vars => [Ordered]_vars  BY <1>1
<1>3. Spec => [][Ordered]_vars  BY Invariance, <1>2, PTL DEF Spec
<1> QED  BY <1>3 DEF InOrder

=============================================================================
