----------------------------- MODULE RouteState -----------------------------
(***************************************************************************)
(* What one worker believes about a room: whether translation runs, whether *)
(* a speaker lets their voice be cloned, whether their dub is text only     *)
(* (shared/base_worker.py).  The backend writes the room's state to a Redis *)
(* key and then broadcasts it; a broadcast may be missed, and three gates   *)
(* decide, each in its own way, when to go back to the key.                 *)
(*                                                                         *)
(* One room, one speaker, one target language.  A payload may lack any of    *)
(* its fields: a backend that predates the flag does not send it.  The      *)
(* gates read the key while the listener handles broadcasts.                *)
(***************************************************************************)
EXTENDS Naturals, Sequences, FiniteSets

CONSTANTS
    Statuses,   \* room_status, the terminal ones among them
    Terminal,   \* TERMINAL_ROOM_STATUSES
    Live,       \* the statuses in which translation is assumed to run
    Routes,     \* what the room's routes may say of the speaker
    Carried,    \* the sets of fields a payload may carry
    MaxAge,     \* ROUTE_SNAPSHOT_MAX_AGE_SECONDS
    MaxChanges, \* bound: changes of the room
    MaxFaults,  \* bound: failed reads, evictions and restarts
    MaxMisses,  \* bound: missed broadcasts
    MaxCalls,   \* bound: gates asked at a time
    Unknown     \* no key, no cache entry, no such field

ASSUME RouteConstants ==
    /\ Terminal \subseteq Statuses /\ Live \subseteq Statuses \ Terminal
    /\ Unknown \notin Statuses /\ Unknown \notin Routes /\ Unknown \notin BOOLEAN
    /\ Unknown \notin [routes : Routes \cup {Unknown}, active : BOOLEAN \cup {Unknown},
                       status : Statuses \cup {Unknown}]
    /\ Carried \subseteq SUBSET {"routes", "active", "status"}
    /\ Routes \subseteq [mine : {"none", "others", "off", "on"}, text : BOOLEAN]
    /\ MaxAge \in Nat \ {0}
    /\ MaxChanges \in Nat /\ MaxFaults \in Nat /\ MaxMisses \in Nat /\ MaxCalls \in Nat

\* Of all routes only the speaker's count: there are none, none of theirs, or theirs
\* with or without VoiceCloneEnabled; and whether all of theirs are TextOnly.
Rooms == [routes : Routes, active : BOOLEAN, status : Statuses]
Payloads == [routes : Routes \cup {Unknown}, active : BOOLEAN \cup {Unknown},
             status : Statuses \cup {Unknown}]
Payload(r, fields) ==
    [routes |-> IF "routes" \in fields THEN r.routes ELSE Unknown,
     active |-> IF "active" \in fields THEN r.active ELSE Unknown,
     status |-> IF "status" \in fields THEN r.status ELSE Unknown]

Gates == {"translation", "text", "consent"}
Steps == {"idle", "decide", "read", "refresh", "loaded", "refreshed", "failed", "stale"}
Sayings == {"nothing", "yes", "no", "consented", "not_opted_in", "no_route_for_speaker",
            "no_routes", "routes_unknown"}

VARIABLES
    room, written,      \* the backend's state, and the payload it wrote of it last
    key,                \* the key: that payload, or Unknown (evicted)
    unsent, channel,    \* a broadcast to be sent; broadcasts on their way
    routes, active, status,     \* _room_routes, _translation_active, _route_states
    age,                \* time since _room_routes_seen_at
    call, reply, said,  \* each gate: its step, what the key said, its answer
    routesFor,          \* history: how long the speaker's consent has been as it is
    textFor,            \* history: how long text only has been as it is
    blindFor,           \* history: how long ago the consent gate last failed to read
    wasText,            \* history: they were text only since the gate was asked
    running,            \* history: translation has run since this process started, and
                        \* every payload since said so
    changes, faults, misses

backendVars == <<room, written, key, unsent>>
cacheVars   == <<routes, active, status, age>>
gateVars    == <<call, reply, said>>
history     == <<routesFor, textFor, blindFor, wasText, running>>
counts      == <<changes, faults, misses>>
vars == <<backendVars, channel, cacheVars, gateVars, history, counts>>

Older(n) == IF n < MaxAge THEN n + 1 ELSE n
Fault == faults < MaxFaults /\ faults' = faults + 1 /\ UNCHANGED <<changes, misses>>

Quiet(v) == [g \in Gates |-> v]

\* _is_translation_active: the flag, or the status for a backend without one.
TranslationActive(a, s) == IF a = Unknown THEN s \in Live ELSE a
Runs(payload) == TranslationActive(payload.active, payload.status)

Init ==
    /\ room \in {r \in Rooms : r.status \in Live}
    /\ written \in {Payload(room, fields) : fields \in Carried} /\ key = written
    /\ unsent = FALSE /\ channel = <<>>
    /\ routes = Unknown /\ active = Unknown /\ status = Unknown /\ age = MaxAge
    /\ call = Quiet("idle") /\ reply = Quiet(Unknown) /\ said = Quiet("nothing")
    /\ routesFor = 0 /\ textFor = 0 /\ blindFor = MaxAge
    /\ wasText = FALSE /\ running = Runs(written)
    /\ changes = 0 /\ faults = 0 /\ misses = 0

-----------------------------------------------------------------------------
(* The backend: the key first, then the broadcast of the same payload.      *)

Change(new, fields) ==
    /\ changes < MaxChanges /\ ~unsent
    /\ room.status \notin Terminal /\ new # room
    /\ room' = new /\ written' = Payload(new, fields) /\ key' = written' /\ unsent' = TRUE
    /\ changes' = changes + 1 /\ UNCHANGED <<faults, misses>>
    /\ routesFor' = IF new.routes.mine = room.routes.mine THEN routesFor ELSE 0
    /\ textFor' = IF new.routes.text = room.routes.text THEN textFor ELSE 0
    /\ wasText' = (wasText \/ new.routes.text)
    /\ running' = (running /\ Runs(written'))
    /\ UNCHANGED <<blindFor, channel, cacheVars, gateVars>>

Publish ==
    /\ unsent /\ unsent' = FALSE
    /\ channel' = Append(channel, written)
    /\ UNCHANGED <<room, written, key, cacheVars, gateVars, history, counts>>

\* The listener was not subscribed.
Lose ==
    /\ channel # <<>> /\ misses < MaxMisses
    /\ channel' = Tail(channel)
    /\ misses' = misses + 1
    /\ UNCHANGED <<backendVars, cacheVars, gateVars, history, changes, faults>>

Evict ==
    /\ key # Unknown /\ key' = Unknown
    /\ Fault
    /\ UNCHANGED <<room, written, unsent, channel, cacheVars, gateVars, history>>

-----------------------------------------------------------------------------
(* The caches.                                                              *)

\* A field that is missing, or of another type, leaves what is known.
Heard(field, known) == IF field = Unknown THEN known ELSE field

Apply(payload) ==
    /\ routes' = Heard(payload.routes, routes)
    /\ age' = IF payload.routes = Unknown THEN age ELSE 0
    /\ active' = Heard(payload.active, active)
    /\ status' = Heard(payload.status, status)

\* _handle_route_update_message: the end of the room clears what it has just set.
HandleBroadcast ==
    /\ channel # <<>>
    /\ channel' = Tail(channel)
    /\ IF Head(channel).status \in Terminal
       THEN routes' = Unknown /\ active' = Unknown /\ status' = Unknown /\ age' = MaxAge
       ELSE Apply(Head(channel))
    /\ UNCHANGED <<backendVars, gateVars, history, counts>>

\* _load_route_snapshot, once the answer is here.
Load(answer) == IF answer = Unknown THEN UNCHANGED cacheVars ELSE Apply(answer)

TextOnly(r) == r # Unknown /\ r.text
Consent(r) ==
    IF r = Unknown THEN "routes_unknown"
    ELSE CASE r.mine = "none"   -> "no_routes"
           [] r.mine = "others" -> "no_route_for_speaker"
           [] r.mine = "off"    -> "not_opted_in"
           [] r.mine = "on"     -> "consented"
YesNo(b) == IF b THEN "yes" ELSE "no"

-----------------------------------------------------------------------------
(* The gates.                                                               *)

Ask(g) ==
    /\ call[g] = "idle" /\ Cardinality({h \in Gates : call[h] # "idle"}) < MaxCalls
    /\ call' = [call EXCEPT ![g] = "decide"] /\ said' = Quiet("nothing")
    /\ wasText' = IF g = "text" THEN room.routes.text ELSE wasText
    /\ UNCHANGED <<backendVars, channel, cacheVars, reply, routesFor, textFor, blindFor, running,
                   counts>>

Answer(g, answer) ==
    /\ call' = [call EXCEPT ![g] = "idle"]
    /\ said' = [said EXCEPT ![g] = answer]
    /\ reply' = [reply EXCEPT ![g] = Unknown]

\* From memory, or the key is to be read.
Decide(g, readFirst, answer) ==
    /\ call[g] = "decide"
    /\ IF readFirst
       THEN /\ call' = [call EXCEPT ![g] = IF g = "consent" /\ routes # Unknown THEN "refresh"
                                          ELSE "read"]
            /\ UNCHANGED <<reply, said>>
       ELSE Answer(g, answer)
    /\ UNCHANGED <<backendVars, channel, cacheVars, history, counts>>

\* Mutant: the translation gate answers from what it happens to have been told.
AskMemory ==
    Decide("translation", FALSE, YesNo(TranslationActive(active, status)))

AskTranslation ==
    Decide("translation", active = Unknown, YesNo(TranslationActive(active, status)))

\* Mutant: a skip is answered from memory too.
SkipFromMemory == Decide("text", routes = Unknown, YesNo(TextOnly(routes)))

\* text_only_dub_for: only "synthesize" is answered from memory.
AskText == Decide("text", routes = Unknown \/ TextOnly(routes), "no")

\* Mutant: a room this worker has heard of is never asked about again.
AskOnceKnown == Decide("consent", routes = Unknown, Consent(routes))

\* voice_clone_consent_state: stale routes are read again, whatever they say.
AskConsent == Decide("consent", routes = Unknown \/ age = MaxAge, Consent(routes))

\* GET translationRoom:{id}:audio_routes
Read(g) ==
    /\ call[g] \in {"read", "refresh"}
    /\ LET failed == IF call[g] = "read" THEN "failed" ELSE "stale"
           loaded == IF call[g] = "read" THEN "loaded" ELSE "refreshed" IN
       \/ /\ reply' = [reply EXCEPT ![g] = key] /\ UNCHANGED counts
          /\ call' = [call EXCEPT ![g] = IF key = Unknown THEN failed ELSE loaded]
       \/ /\ Fault
          /\ call' = [call EXCEPT ![g] = failed] /\ UNCHANGED reply
    /\ UNCHANGED <<backendVars, channel, cacheVars, said, history>>

\* The read failed, or what it found does not say what the routes are.
Blind(g) ==
    \/ call[g] \in {"failed", "stale"}
    \/ call[g] \in {"loaded", "refreshed"} /\ reply[g].routes = Unknown

\* The answer to the read is applied, and the gate answers in the same breath.  A consent
\* that a broadcast brings during a read that fails is not looked for again.
TranslationKnown ==
    /\ call["translation"] \in {"loaded", "failed"}
    /\ Load(reply["translation"])
    /\ Answer("translation", YesNo(TranslationActive(active', status')))
    /\ UNCHANGED <<backendVars, channel, history, counts>>

TextKnown ==
    /\ call["text"] \in {"loaded", "failed"}
    /\ Load(reply["text"])
    /\ Answer("text", YesNo(TextOnly(routes')))
    /\ UNCHANGED <<backendVars, channel, history, counts>>

ConsentKnown ==
    /\ call["consent"] \in {"loaded", "failed"}
    /\ Load(reply["consent"])
    /\ Answer("consent", IF call["consent"] = "failed" /\ Consent(routes) = "consented"
                         THEN "not_opted_in" ELSE Consent(routes'))
    /\ blindFor' = IF Blind("consent") THEN 0 ELSE blindFor
    /\ UNCHANGED <<backendVars, channel, routesFor, textFor, wasText, running, counts>>

\* A room whose end was heard during a refresh is unknown, and read again.
AnswerOrRead ==
    IF routes' = Unknown
    THEN call' = [call EXCEPT !["consent"] = "read"] /\ UNCHANGED said
                   /\ reply' = [reply EXCEPT !["consent"] = Unknown]
    ELSE Answer("consent", Consent(routes'))

Refreshed ==
    /\ call["consent"] = "refreshed"
    /\ Load(reply["consent"])
    /\ AnswerOrRead
    /\ blindFor' = IF Blind("consent") THEN 0 ELSE blindFor
    /\ UNCHANGED <<backendVars, channel, routesFor, textFor, wasText, running, counts>>

\* A refresh that failed counts as one: the next chunk does not repeat it.
RefreshFailed ==
    /\ call["consent"] = "stale"
    /\ blindFor' = 0 /\ age' = 0
    /\ UNCHANGED <<routes, active, status>>
    /\ AnswerOrRead
    /\ UNCHANGED <<backendVars, channel, routesFor, textFor, wasText, running, counts>>

\* A new process knows nothing; what was on its way to the old one is gone.
Restart ==
    /\ Fault
    /\ routes' = Unknown /\ active' = Unknown /\ status' = Unknown /\ age' = MaxAge
    /\ channel' = <<>>
    /\ call' = Quiet("idle") /\ reply' = Quiet(Unknown) /\ said' = Quiet("nothing")
    /\ running' = Runs(written)
    /\ UNCHANGED <<backendVars, routesFor, textFor, blindFor, wasText>>

\* Reads and broadcasts take less than a unit of time.
Tick ==
    /\ ~unsent /\ channel = <<>>
    /\ \A g \in Gates : call[g] = "idle"
    /\ age' = Older(age) /\ blindFor' = Older(blindFor)
    /\ routesFor' = Older(routesFor) /\ textFor' = Older(textFor)
    /\ UNCHANGED <<backendVars, channel, routes, active, status, gateVars, wasText, running,
                   counts>>

Gate ==
    \/ AskTranslation \/ AskText \/ AskConsent
    \/ TranslationKnown \/ TextKnown \/ ConsentKnown \/ Refreshed \/ RefreshFailed
    \/ \E g \in Gates : Ask(g) \/ Read(g)

Next ==
    \/ \E new \in Rooms, fields \in Carried : Change(new, fields)
    \/ Publish \/ Lose \/ Evict \/ HandleBroadcast
    \/ Gate \/ Restart \/ Tick

Spec == Init /\ [][Next]_vars

\* The backend sends, the listener listens, and people go on speaking.
Fairness ==
    /\ WF_vars(Publish) /\ WF_vars(HandleBroadcast) /\ WF_vars(Tick)
    /\ \A g \in Gates : WF_vars(Ask(g)) /\ WF_vars(Read(g))
    /\ WF_vars(AskTranslation) /\ WF_vars(AskText) /\ WF_vars(AskConsent)
    /\ WF_vars(TranslationKnown) /\ WF_vars(TextKnown)
    /\ WF_vars(ConsentKnown) /\ WF_vars(Refreshed) /\ WF_vars(RefreshFailed)

FairSpec == Spec /\ Fairness

-----------------------------------------------------------------------------
\* Every variable keeps its type.
TypeOK ==
    /\ room \in Rooms /\ written \in Payloads
    /\ key \in Payloads \cup {Unknown} /\ unsent \in BOOLEAN
    /\ channel \in Seq(Payloads)
    /\ routes \in Routes \cup {Unknown} /\ active \in BOOLEAN \cup {Unknown}
    /\ status \in Statuses \cup {Unknown}
    /\ age \in 0..MaxAge
    /\ call \in [Gates -> Steps]
    /\ reply \in [Gates -> Payloads \cup {Unknown}] /\ said \in [Gates -> Sayings]

Answers(g) == call[g] # "idle" /\ call'[g] = "idle" /\ said'[g] # "nothing"

\* "Both answers are re-checked, because both can be the stale one": the consent gate
\* does not answer with routes the backend gave up MaxAge ago or longer, unless a read
\* failed, or found no routes, less than MaxAge ago.
ConsentIsRecent ==
    [][Answers("consent") /\ said'["consent"] # Consent(room.routes) =>
          routesFor < MaxAge \/ blindFor < MaxAge \/ Blind("consent")]_vars

\* "A skip is confirmed against the durable snapshot": a dub is not skipped for routes
\* that were not text only at any time since the question.  When the key cannot be read,
\* or does not say, memory decides: then no routes heard since the speaker switched to
\* voice may be followed by a skip, in whatever order broadcasts and reads were applied,
\* unless a refresh failed since and stamped the routes as seen.
SkipIsConfirmed ==
    [][Answers("text") /\ said'["text"] = "yes" =>
          wasText \/ (Blind("text") /\ (textFor <= age \/ blindFor <= age))]_vars

\* "A worker that restarted mid-meeting picks the meeting back up": no sentence is
\* dropped while translation has been running for as long as the process has, by the
\* flag of every payload or, for a payload without one, by the status, unless the key
\* cannot be read.
RestartIsHeard ==
    [][Answers("translation") /\ said'["translation"] = "no" =>
          ~running \/ call["translation"] = "failed"]_vars

\* Translation that runs for good is translated, whatever broadcast was missed.
TranslationFollows ==
    <>[](room.active /\ room.status \in Live /\ key # Unknown)
        => <>[](said["translation"] # "no")
=============================================================================
