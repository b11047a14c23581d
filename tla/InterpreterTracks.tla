------------------------- MODULE InterpreterTracks -------------------------
(***************************************************************************)
(* The interpreter tracks of one speaker in one room: a bot joins the room *)
(* for each language and voice the speaker is dubbed in, speaks the        *)
(* sentences the dubbing worker hands it, and must leave when nobody needs *)
(* it, for while it is there its listeners do not hear the speaker.  It    *)
(* leaves when it has been idle for long, when its room is paused, when    *)
(* its voice is no longer rendered, and, in a bridged room, when its       *)
(* language stops being a target: out of the map at once, and out of the   *)
(* room when its disconnect, in the background, has been done.             *)
(*                                                                         *)
(* What a sentence is and how it is synthesized is in Dubbing.             *)
(***************************************************************************)
EXTENDS Integers, FiniteSets

CONSTANTS
    Languages,     \* what is spoken or listened to in the room
    Heard,         \* bound: what the others may listen in
    Dubbed,        \* bound: the languages whose tracks are followed
    Fallback,      \* "en": the target when nobody else said what they listen in
    Voices,        \* variants a sentence may be rendered in
    Default,       \* the one everybody hears
    Kinds,         \* whose voice a track speaks in
    Scenes,        \* what the people may have chosen when the first track appears
    Bridged,       \* whether the far side of the room is another meeting
    MaxSentences,  \* bound: sentences translated
    MaxFaults,     \* bound: joins, frames, announcements, disconnects and reads that fail
    MaxTurns       \* bound: changes of what is listened to or declared, and pauses

None == "none"

ASSUME Defined ==
    /\ Heard \subseteq Languages /\ Dubbed \subseteq Languages /\ Fallback \in Languages
    /\ Default \in Voices /\ None \notin Languages \cup Kinds
    /\ Scenes \subseteq [listen : SUBSET Heard, registered : BOOLEAN,
                         declared : Languages \cup {None}]
    /\ Bridged \in BOOLEAN /\ {MaxSentences, MaxFaults, MaxTurns} \subseteq Nat

VARIABLES
    bot,       \* _bots: of each track, the participant that speaks on it
    joins,     \* of each track: how many are joining
    parting,   \* tracks with a participant that is being disconnected in the background
    stuck,     \* tracks with a participant in the room that no one will disconnect again
    kind,      \* _voice_kinds: what each track was last said to speak in
    line,      \* of each track: what the sentence that holds its lock is doing
    due,       \* of each language: the voices the sentence in hand is still to be said in
    overdue,   \* tracks a join outlasted its sentence on
    unsaid,    \* tracks an announcement failed on
    sentence,  \* languages a translated sentence is waiting in
    listen,    \* what the others listen in
    registered,\* the speaker's own entry is among what people listen in
    declared,  \* what the speaker says they speak
    paused,
    bridge,    \* _dub_bridge_rooms: whether the room is known to be bridged
    seen,      \* _dub_declared_speak: the last declaration seen, and whether it was a change
    pass,      \* what a reconciling pass has read, None between two
    sentences, faults, turns

people == <<listen, registered, declared, paused>>
room == <<parting, stuck>>
ghosts == <<overdue, unsaid>>
watch == <<bridge, seen, pass>>
counts == <<sentences, faults, turns>>
vars == <<bot, joins, room, kind, line, due, ghosts, sentence, people, watch, counts>>

Tracks == Dubbed \X Voices

Gone == [here |-> FALSE, marked |-> FALSE, idle |-> FALSE, fed |-> FALSE, told |-> None]
Quiet == [at |-> "idle", whole |-> FALSE, again |-> FALSE, kind |-> None]
Nothing == [at |-> None, on |-> {}, fed |-> {}, listen |-> {}, empty |-> FALSE]
Unseen == [lang |-> None, changed |-> FALSE]

Init ==
    /\ bot = [k \in Tracks |-> Gone] /\ joins = [k \in Tracks |-> 0]
    /\ parting = {} /\ stuck = {}
    /\ kind = [k \in Tracks |-> None] /\ line = [k \in Tracks |-> Quiet]
    /\ due = [l \in Dubbed |-> {}]
    /\ overdue = {} /\ unsaid = {} /\ sentence = {}
    /\ \E sc \in Scenes :
         listen = sc.listen /\ registered = sc.registered /\ declared = sc.declared
    /\ paused = FALSE /\ bridge = "unknown" /\ seen = Unseen /\ pass = Nothing
    /\ sentences = 0 /\ faults = 0 /\ turns = 0

Fault == faults < MaxFaults /\ faults' = faults + 1
Turn == turns < MaxTurns /\ turns' = turns + 1

\* Its lock is held: a sentence is being said, or its bot is joining to say it.
Publishing(k) == line[k].at # "idle"
Present(k) == bot[k].here

\* Bots that leave are out of the map at once, and disconnected in the background.
Without(ks) == [k \in Tracks |-> IF k \in ks THEN Gone ELSE bot[k]]
Leave(ks) == parting' = parting \cup {k \in ks : Present(k)} /\ UNCHANGED stuck
Idle(ks) == {k \in ks : Present(k) /\ ~Publishing(k)}
Stale(k) == Present(k) /\ ~Publishing(k) /\ (bot[k].marked \/ bot[k].idle)

\* Those of the others that are idle for long, or marked.
Swept(k) == {j \in Tracks \ {k} : Stale(j)}

(***************************************************************************)
(* Sentences.                                                              *)
(***************************************************************************)
Wanted == IF listen = {} THEN {Fallback} ELSE listen

\* The speaker said something in another language.
Translate(l) ==
    /\ l \in Wanted /\ ~paused /\ l \notin sentence
    /\ sentences < MaxSentences /\ sentences' = sentences + 1
    /\ sentence' = sentence \cup {l}
    /\ UNCHANGED <<bot, joins, room, kind, line, due, ghosts, people, watch, faults, turns>>

\* The voices it is rendered in are known; tracks of other voices are retired.
Start(l) ==
    /\ l \in sentence /\ due[l] = {} /\ \A v \in Voices : ~Publishing(<<l, v>>)
    /\ sentence' = sentence \ {l}
    /\ IF paused THEN UNCHANGED <<due, bot, room>>
       ELSE \E others \in SUBSET (Voices \ {Default}) :
            LET retired == Idle({l} \X (Voices \ (others \cup {Default}))) IN
            /\ due' = [due EXCEPT ![l] = others \cup {Default}]
            /\ bot' = Without(retired) /\ Leave(retired)
    /\ UNCHANGED <<joins, kind, line, ghosts, people, watch, counts>>

NextVoice(l) == IF Default \in due[l] THEN {Default} ELSE due[l]

Stamped(b) == [b EXCEPT !.marked = FALSE, !.idle = FALSE, !.fed = TRUE]

\* Who asks for its bot sweeps the others' and says that its own is in use.
Asked(k) == [Without(Swept(k)) EXCEPT ![k] = IF Present(k) THEN Stamped(bot[k]) ELSE bot[k]]

\* SetVoiceKind: the room is told when the kind changes and the bot is there.
Announced(k, is, told) == IF kind[k] # is /\ Present(k) THEN told ELSE bot[k].told

\* whole: the sentence is pushed at once, when it was rendered, and its bot is in
\* use from there; otherwise it is fed to the track while it is generated.
Say(l) == \E v \in NextVoice(l), whole \in BOOLEAN, is \in Kinds, heard \in BOOLEAN :
    LET k == <<l, v>>
        fails == ~heard /\ Present(k) /\ kind[k] # is
        used == IF whole THEN Asked(k) ELSE Without(Swept(k))
    IN
    /\ \A u \in Voices : ~Publishing(<<l, u>>)
    /\ heard \/ fails
    /\ IF fails THEN Fault ELSE UNCHANGED faults
    /\ kind' = [kind EXCEPT ![k] = is]
    /\ bot' = [used EXCEPT ![k].told = Announced(k, is, IF heard THEN is ELSE @)]
    /\ Leave(Swept(k))
    /\ unsaid' = IF fails THEN unsaid \cup {k} ELSE IF kind[k] # is THEN unsaid \ {k} ELSE unsaid
    /\ joins' = IF Present(k) THEN joins ELSE [joins EXCEPT ![k] = @ + 1]
    /\ line' = [line EXCEPT ![k] = [at |-> IF Present(k) THEN "speaking" ELSE "joining",
                                    whole |-> whole, again |-> FALSE, kind |-> is]]
    /\ UNCHANGED <<due, overdue, sentence, people, watch, sentences, turns>>

\* No join outlasts its sentence any more.
Settled(k) == overdue' = IF joins'[k] = 0 /\ line'[k].at # "closing" THEN overdue \ {k} ELSE overdue

\* Mutant: a bot that joins is not told what its track speaks in.
JoinedUntold(k) ==
    /\ joins[k] > 0 /\ joins' = [joins EXCEPT ![k] = @ - 1]
    /\ bot' = [bot EXCEPT ![k] = [Gone EXCEPT !.here = TRUE, !.fed = TRUE]]
    /\ line' = IF line[k].at = "joining" THEN [line EXCEPT ![k].at = "speaking"] ELSE line
    /\ Settled(k)
    /\ UNCHANGED <<room, kind, due, unsaid, sentence, people, watch, counts>>

Joined(k) == \E heard \in BOOLEAN :
    /\ joins[k] > 0 /\ joins' = [joins EXCEPT ![k] = @ - 1]
    /\ heard \/ kind[k] # None
    /\ IF heard THEN UNCHANGED faults ELSE Fault
    /\ bot' = [bot EXCEPT ![k] = [Gone EXCEPT !.here = TRUE, !.fed = TRUE, !.told = IF heard THEN kind[k] ELSE None]]
    /\ unsaid' = IF heard THEN unsaid \ {k} ELSE unsaid \cup {k}
    /\ line' = IF line[k].at = "joining" THEN [line EXCEPT ![k].at = "speaking"] ELSE line
    /\ Settled(k)
    /\ UNCHANGED <<room, kind, due, sentence, people, watch, sentences, turns>>

\* Whoever had connected when its join, or its disconnect, broke off may be left.
Left(k) == UNCHANGED parting /\ stuck' \in {stuck, stuck \cup {k}}

JoinFails(k) ==
    /\ joins[k] > 0 /\ Fault /\ joins' = [joins EXCEPT ![k] = @ - 1]
    /\ Left(k)
    /\ line' = IF line[k].at = "joining" THEN [line EXCEPT ![k].at = "broken"] ELSE line
    /\ Settled(k)
    /\ UNCHANGED <<bot, kind, due, unsaid, sentence, people, watch, sentences, turns>>

\* Each slice of a streamed sentence asks for its bot, says that it is in use, and
\* may be tried twice.
Slice(k) ==
    /\ line[k].at = "speaking" /\ ~line[k].whole /\ Present(k)
    /\ bot' = Asked(k) /\ Leave(Swept(k))
    /\ line' = [line EXCEPT ![k].again = FALSE]
    /\ UNCHANGED <<joins, kind, due, ghosts, sentence, people, watch, counts>>

\* A frame is refused: the bot is out of the map, and its disconnect awaited.
SliceFails(k) ==
    /\ line[k].at = "speaking" /\ Present(k) /\ Fault
    /\ bot' = Without({k})
    /\ line' = [line EXCEPT ![k].at = "closing"]
    /\ UNCHANGED <<joins, room, kind, due, overdue, unsaid, sentence, people, watch, sentences, turns>>

\* Whatever came of the disconnect, another joins, once, unless one has meanwhile.
Closed(k) == \E out \in BOOLEAN :
    /\ line[k].at = "closing"
    /\ IF out THEN UNCHANGED <<stuck, faults>> ELSE Fault /\ stuck' = stuck \cup {k}
    /\ IF line[k].again
       THEN line' = [line EXCEPT ![k].at = "broken"] /\ UNCHANGED <<bot, joins, parting>>
       ELSE /\ line' = [line EXCEPT ![k].at = IF Present(k) THEN "speaking" ELSE "joining", ![k].again = TRUE]
            /\ joins' = IF Present(k) THEN joins ELSE [joins EXCEPT ![k] = @ + 1]
            /\ bot' = Asked(k) /\ parting' = parting \cup Swept(k)
    /\ Settled(k)
    /\ UNCHANGED <<kind, due, unsaid, sentence, people, watch, sentences, turns>>

Release(k) ==
    /\ line' = [line EXCEPT ![k] = Quiet]
    /\ due' = [due EXCEPT ![k[1]] = @ \ {k[2]}]

\* Mutant: a sentence without audio lets go of the lock while its bot joins.
EndedMidJoin(k) ==
    /\ line[k].at \in {"speaking", "broken", "joining"} /\ Release(k)
    /\ UNCHANGED <<bot, joins, room, kind, ghosts, sentence, people, watch, counts>>

Ended(k) ==
    /\ line[k].at \in {"speaking", "broken"} /\ Release(k)
    /\ UNCHANGED <<bot, joins, room, kind, ghosts, sentence, people, watch, counts>>

\* No audio came: the stream waits for its join no longer than for audio to drain.
EndsOverdue(k) ==
    /\ line[k].at = "joining" /\ ~line[k].whole /\ ~line[k].again /\ Fault
    /\ Release(k) /\ overdue' = overdue \cup {k}
    /\ UNCHANGED <<bot, joins, room, kind, unsaid, sentence, people, watch, sentences, turns>>

\* Audio that does not drain is given up, with the join or the disconnect it awaits.
Cut(k) ==
    /\ ~line[k].whole /\ Fault
    /\ \/ line[k].at = "joining" /\ joins[k] > 0 /\ joins' = [joins EXCEPT ![k] = @ - 1]
       \/ line[k].at = "closing" /\ UNCHANGED joins
    /\ Release(k) /\ Left(k) /\ Settled(k)
    /\ UNCHANGED <<bot, kind, unsaid, sentence, people, watch, sentences, turns>>

(***************************************************************************)
(* Leaving.                                                                *)
(***************************************************************************)
Age(k) ==
    /\ Present(k) /\ ~Publishing(k) /\ ~bot[k].idle
    /\ bot' = [bot EXCEPT ![k].idle = TRUE]
    /\ UNCHANGED <<joins, room, kind, line, due, ghosts, sentence, people, watch, counts>>

Sweep ==
    LET stale == {k \in Tracks : Stale(k)} IN
    /\ stale # {} /\ bot' = Without(stale) /\ Leave(stale)
    /\ UNCHANGED <<joins, kind, line, due, ghosts, sentence, people, watch, counts>>

\* A disconnect ends; one that fails is not repeated.
Disconnected(k) == \E out \in BOOLEAN :
    /\ k \in parting /\ parting' = parting \ {k}
    /\ IF out THEN UNCHANGED <<stuck, faults>> ELSE Fault /\ stuck' = stuck \cup {k}
    /\ UNCHANGED <<bot, joins, kind, line, due, ghosts, sentence, people, watch, sentences, turns>>

\* A bot in the middle of a sentence is marked, for the sweep after it.
Pause ==
    /\ ~paused /\ Turn /\ paused' = TRUE
    /\ kind' = [k \in Tracks |-> None]
    /\ bot' = [k \in Tracks |-> IF k \in Idle(Tracks) THEN Gone
                                ELSE [bot[k] EXCEPT !.marked = Present(k)]]
    /\ Leave(Idle(Tracks))
    /\ UNCHANGED <<joins, line, due, overdue, unsaid, sentence, listen, registered, declared, watch,
                   sentences, faults>>

Resume ==
    /\ paused /\ paused' = FALSE
    /\ UNCHANGED <<bot, joins, room, kind, line, due, ghosts, sentence, listen, registered, declared,
                   watch, counts>>

\* In a bridged room, languages are compared with what its people chose.
Targets == {l \in Dubbed : \E v \in Voices : Present(<<l, v>>)}

\* The speaker's tracks are noted; the rest is asked of Redis, one read after another.
ReconcileStarts ==
    /\ pass = Nothing /\ Targets # {} /\ bridge # "no"
    /\ pass' = [Nothing EXCEPT !.at = "begun", !.on = Targets,
                               !.fed = {l \in Targets : \E v \in Voices : bot[<<l, v>>].fed}]
    /\ UNCHANGED <<bot, joins, room, kind, line, due, ghosts, sentence, people, bridge, seen, counts>>

\* Whether the room is bridged is asked until it is known to be.
Recognize == \E answered \in BOOLEAN :
    /\ pass.at = "begun" /\ bridge = "unknown"
    /\ IF answered THEN UNCHANGED faults ELSE Fault
    /\ IF answered /\ Bridged THEN bridge' = "yes" /\ UNCHANGED pass
                              ELSE bridge' = "no" /\ pass' = Nothing
    /\ UNCHANGED <<bot, joins, room, kind, line, due, ghosts, sentence, people, seen, sentences, turns>>

\* A "no" is good for a while.
AskAgain ==
    /\ bridge = "no" /\ bridge' = "unknown"
    /\ UNCHANGED <<bot, joins, room, kind, line, due, ghosts, sentence, people, seen, pass, counts>>

ReadListen ==
    /\ pass.at = "begun" /\ bridge = "yes"
    /\ pass' = [pass EXCEPT !.at = "read", !.listen = listen, !.empty = listen = {} /\ ~registered]
    /\ UNCHANGED <<bot, joins, room, kind, line, due, ghosts, sentence, people, bridge, seen, counts>>

Unreadable ==
    /\ pass.at \in {"begun", "read"} /\ bridge = "yes" /\ Fault /\ pass' = Nothing
    /\ UNCHANGED <<bot, joins, room, kind, line, due, ghosts, sentence, people, bridge, seen, sentences, turns>>

\* The room has no track left: what was seen of its people is forgotten.
Forget ==
    /\ pass = Nothing /\ Targets = {} /\ seen # Unseen /\ seen' = Unseen
    /\ UNCHANGED <<bot, joins, room, kind, line, due, ghosts, sentence, people, bridge, pass, counts>>

Changed == seen.lang # None /\ seen.lang # declared

\* Mutant: a language is dead only when the speaker changed to it.
DeadWhenSpoken(l) == l = declared /\ (Changed \/ (seen.changed /\ l \notin pass.fed))

\* Nobody else listens in it, or the speaker changed to it and it was not fed since.
Dead(l) ==
    LET wanted == IF pass.listen = {} THEN {Fallback} ELSE pass.listen IN
    \/ l \notin wanted
    \/ l = declared /\ (Changed \/ (seen.changed /\ l \notin pass.fed))

\* A room in which nobody is said to listen is left alone.
LeftAlone ==
    /\ pass.at = "read" /\ pass.empty /\ pass' = Nothing
    /\ UNCHANGED <<bot, joins, room, kind, line, due, ghosts, sentence, people, bridge, seen, counts>>

Reconcile ==
    /\ pass.at = "read" /\ ~pass.empty /\ pass' = Nothing
    /\ seen' = IF declared = None THEN seen
               ELSE [lang |-> declared, changed |-> seen.changed \/ Changed]
    /\ LET retired == Idle({l \in pass.on : Dead(l)} \X Voices)
           left == Without(retired)
       IN  /\ bot' = IF declared # None /\ Changed
                     THEN [k \in Tracks |-> [left[k] EXCEPT !.fed = FALSE]] ELSE left
           /\ Leave(retired)
    /\ UNCHANGED <<joins, kind, line, due, ghosts, sentence, people, bridge, counts>>

(***************************************************************************)
(* The people in the room.                                                 *)
(***************************************************************************)
Choose ==
    /\ Turn
    /\ \/ \E ls \in SUBSET Heard : ls # listen /\ listen' = ls /\ UNCHANGED <<registered, declared>>
       \/ \E l \in Languages \cup {None} :
             l # declared /\ declared' = l /\ UNCHANGED <<listen, registered>>
       \/ registered' = ~registered /\ UNCHANGED <<listen, declared>>
    /\ UNCHANGED <<bot, joins, room, kind, line, due, ghosts, sentence, paused, watch, sentences, faults>>

\* What a sentence in hand comes to.
Ends(k) == Joined(k) \/ JoinFails(k) \/ Closed(k) \/ Ended(k) \/ EndsOverdue(k) \/ Cut(k)
Handle(k) == Slice(k) \/ SliceFails(k) \/ Ends(k)

Watching == ReconcileStarts \/ Recognize \/ ReadListen \/ Unreadable \/ LeftAlone \/ Reconcile

Next ==
    \/ \E l \in Dubbed : Translate(l) \/ Start(l) \/ Say(l)
    \/ \E k \in Tracks : Handle(k) \/ Age(k) \/ Disconnected(k)
    \/ Sweep \/ Pause \/ Resume \/ Watching \/ AskAgain \/ Forget \/ Choose

\* Sentences are handled, joins and disconnects end, the sweep and the reconciling
\* loop run, and a "no" goes out of date.  Nothing makes a bot idle for long.
Fairness ==
    /\ \A l \in Dubbed : WF_vars(Start(l) \/ Say(l))
    /\ \A k \in Tracks : WF_vars(Ends(k)) /\ WF_vars(Disconnected(k))
    /\ WF_vars(Sweep) /\ WF_vars(Watching) /\ WF_vars(AskAgain)

Spec == Init /\ [][Next]_vars
FairSpec == Spec /\ Fairness

(***************************************************************************)
(* Properties.                                                             *)
(***************************************************************************)
\* Every variable has its type.
TypeOK ==
    /\ bot \in [Tracks -> [here : BOOLEAN, marked : BOOLEAN, idle : BOOLEAN, fed : BOOLEAN,
                           told : Kinds \cup {None}]]
    /\ joins \in [Tracks -> Nat] /\ parting \subseteq Tracks /\ stuck \subseteq Tracks
    /\ kind \in [Tracks -> Kinds \cup {None}]
    /\ line \in [Tracks -> [at : {"idle", "joining", "speaking", "closing", "broken"}, whole : BOOLEAN,
                            again : BOOLEAN, kind : Kinds \cup {None}]]
    /\ due \in [Dubbed -> SUBSET Voices]
    /\ overdue \subseteq Tracks /\ unsaid \subseteq Tracks
    /\ sentence \subseteq Dubbed /\ listen \subseteq Languages /\ registered \in BOOLEAN
    /\ declared \in Languages \cup {None} /\ paused \in BOOLEAN
    /\ bridge \in {"unknown", "yes", "no"}
    /\ seen \in [lang : Languages \cup {None}, changed : BOOLEAN]
    /\ pass \in [at : {None, "begun", "read"}, on : SUBSET Dubbed, fed : SUBSET Dubbed,
                  listen : SUBSET Languages, empty : BOOLEAN]
    /\ sentences \in 0..MaxSentences /\ faults \in 0..MaxFaults /\ turns \in 0..MaxTurns

\* A track has one participant in use, there, joining or being closed for another,
\* whatever leaves, fails or is replaced meanwhile: a second one with its identity
\* would throw the first out of the room.  Only a join that outlasts the sentence
\* it was for, which waits as long as audio may take to drain, can meet another;
\* those that nobody uses any more (parting, stuck) may still be there
\* (tts_worker/livekit_publisher.py:261, 380, 616).
OneParticipant == \A k \in Tracks \ overdue :
    joins[k] + (IF Present(k) THEN 1 ELSE 0) + (IF line[k].at = "closing" THEN 1 ELSE 0) <= 1

\* A track that speaks says whose voice it speaks in, unless the room refused to
\* be told or was paused in the middle of the sentence
\* (tts_worker/livekit_publisher.py:429).
TellsWhoseVoice == \A k \in Tracks : line[k].at = "speaking" =>
    bot[k].told = line[k].kind \/ k \in unsaid \/ kind[k] = None

\* In a bridged room, the tracks of a language nobody else listens in any more
\* leave without waiting to be idle for long: out of the map, and out of the room
\* unless the disconnect fails.  A room in which nobody is said to listen, not
\* even the speaker, is left alone (tts_worker/worker.py:1161, 1196).
LanguageLeaves == \A l \in Dubbed :
    <>[](l \notin Wanted /\ (listen # {} \/ registered)) =>
        <>[](\A v \in Voices : ~Present(<<l, v>>) /\ <<l, v>> \notin parting)

\* A bot in the middle of a sentence when its meeting is retired is marked, and
\* stays so until the sweep after that sentence takes it
\* (tts_worker/livekit_publisher.py:715).
MarkedLeaves == [][\A k \in Tracks : bot[k].marked /\ bot'[k].here => bot'[k].marked]_bot

\* A bot that left the map is out of the room in the end
\* (tts_worker/livekit_publisher.py:708, 848).
NobodyStays == stuck = {}
=============================================================================
