-------------------------- MODULE RouteStateProofs --------------------------
(***************************************************************************)
(* What the gates of RouteState may answer, for any routes, statuses, age  *)
(* limit, sets of fields a payload carries, and number of changes, faults  *)
(* and missed broadcasts.  The key is the last payload written or nothing, *)
(* so whatever is on its way to the caches is  *)
(* the room's state or was given up no longer ago than a broadcast takes;   *)
(* and what the caches hold against the room is no younger than the change *)
(* it missed, or than the last failure to look.                             *)
(***************************************************************************)
EXTENDS RouteState, TLAPS

HistoryOK ==
    /\ routesFor \in 0..MaxAge /\ textFor \in 0..MaxAge /\ blindFor \in 0..MaxAge
    /\ wasText \in BOOLEAN /\ running \in BOOLEAN

KeyOK == key \in {written, Unknown} /\ written.routes \in {room.routes, Unknown}

ReplyOK == \A g \in Gates : call[g] \in {"loaded", "refreshed"} <=> reply[g] # Unknown

\* What may still reach the caches.
OnItsWay(p) == (\E i \in DOMAIN channel : channel[i] = p) \/ (\E g \in Gates : reply[g] = p)

\* A payload that says what the room's routes are not is as young as the change it missed.
Fresh(p) ==
    /\ p.routes # Unknown /\ p.routes.mine # room.routes.mine => routesFor = 0
    /\ p.routes # Unknown /\ p.routes.text # room.routes.text => textFor = 0
    /\ running => Runs(p)

InFlightOK == \A p \in Payloads : OnItsWay(p) => Fresh(p)

CacheOK ==
    routes # Unknown =>
        /\ routes.mine # room.routes.mine => routesFor <= age \/ blindFor <= age
        /\ routes.text # room.routes.text => textFor <= age \/ blindFor <= age

HeardOK == running => Runs(written) /\ active \in {TRUE, Unknown}

SkipOK ==
    call["text"] # "idle" =>
        /\ room.routes.text => wasText
        /\ reply["text"] # Unknown /\ reply["text"].routes # Unknown /\ reply["text"].routes.text
              => wasText

Belief == InFlightOK /\ CacheOK /\ HeardOK /\ SkipOK

GateInv == TypeOK /\ HistoryOK /\ KeyOK /\ ReplyOK /\ Belief

-----------------------------------------------------------------------------
(* What is known of a payload.                                              *)

LEMMA RoomFields ==
    ASSUME NEW p \in Rooms
    PROVE  /\ p.routes \in Routes /\ p.active \in BOOLEAN /\ p.status \in Statuses
           /\ p.routes.mine \in {"none", "others", "off", "on"} /\ p.routes.text \in BOOLEAN
           /\ p.routes # Unknown /\ p.active # Unknown /\ p.status # Unknown
BY RouteConstants DEF Rooms

LEMMA PayloadFields ==
    ASSUME NEW p \in Payloads
    PROVE  /\ p.routes \in Routes \cup {Unknown} /\ p.active \in BOOLEAN \cup {Unknown}
           /\ p.status \in Statuses \cup {Unknown}
           /\ p # Unknown /\ Runs(p) \in BOOLEAN
           /\ p.routes # Unknown => p.routes \in Routes /\ p.routes.text \in BOOLEAN
<1>1. /\ p.routes \in Routes \cup {Unknown} /\ p.active \in BOOLEAN \cup {Unknown}
      /\ p.status \in Statuses \cup {Unknown}
      /\ p # Unknown
      /\ p.routes # Unknown => p.routes \in Routes /\ p.routes.text \in BOOLEAN
  BY RouteConstants DEF Payloads
<1>2. CASE p.active = Unknown
  <2>1. Runs(p) = (p.status \in Live) BY <1>2 DEF Runs, TranslationActive
  <2> QED BY <1>1, <2>1
<1>3. CASE p.active # Unknown
  <2>1. p.active \in BOOLEAN BY <1>1, <1>3
  <2> QED BY <1>1, <1>3, <2>1, Zenon DEF Runs, TranslationActive
<1> QED BY <1>1, <1>2, <1>3

\* What the backend writes of a room says of its routes what they are, or nothing.
LEMMA WrittenFields ==
    ASSUME NEW r \in Rooms, NEW fields
    PROVE  Payload(r, fields) \in Payloads /\ Payload(r, fields).routes \in {r.routes, Unknown}
BY RoomFields DEF Payload, Payloads

LEMMA ConsentSays ==
    ASSUME NEW r \in Routes \cup {Unknown}
    PROVE  Consent(r) \in Sayings
<1>1. CASE r = Unknown BY <1>1 DEF Consent, Sayings
<1>2. CASE r \in Routes
  <2>1. r # Unknown /\ r.mine \in {"none", "others", "off", "on"} BY <1>2, RouteConstants
  <2> QED BY <2>1 DEF Consent, Sayings
<1> QED BY <1>1, <1>2

\* What an answer applied to the caches leaves in them.
LEMMA ApplyTyped ==
    ASSUME TypeOK, NEW p \in Payloads, Apply(p)
    PROVE  /\ routes' = Heard(p.routes, routes) /\ active' = Heard(p.active, active)
           /\ status' = Heard(p.status, status)
           /\ age' = IF p.routes = Unknown THEN age ELSE 0
           /\ routes' \in Routes \cup {Unknown} /\ active' \in BOOLEAN \cup {Unknown}
           /\ status' \in Statuses \cup {Unknown} /\ age' \in 0..MaxAge
BY PayloadFields, RouteConstants DEF Apply, Heard, TypeOK

-----------------------------------------------------------------------------
LEMMA GateInit == Init => GateInv
<1> SUFFICES ASSUME Init PROVE GateInv OBVIOUS
<1>a. /\ room \in Rooms /\ unsent \in BOOLEAN /\ key = written
  BY DEF Init
<1>b. written \in Payloads /\ written.routes \in {room.routes, Unknown}
  BY <1>a, WrittenFields DEF Init
<1>c. channel \in Seq(Payloads) BY DEF Init
<1>d. call \in [Gates -> Steps] /\ reply \in [Gates -> Payloads \cup {Unknown}]
      /\ said \in [Gates -> Sayings]
  BY DEF Init, Quiet, Sayings, Steps
<1>e. routes = Unknown /\ active = Unknown /\ status = Unknown /\ age \in 0..MaxAge
  BY RouteConstants DEF Init
<1>1. TypeOK BY <1>a, <1>b, <1>c, <1>d, <1>e, Zenon DEF TypeOK
<1>f. Runs(written) \in BOOLEAN BY <1>b, PayloadFields
<1>g. routesFor \in 0..MaxAge /\ textFor \in 0..MaxAge /\ blindFor \in 0..MaxAge
  BY RouteConstants DEF Init
<1>2. HistoryOK BY <1>f, <1>g DEF Init, HistoryOK
<1>3. KeyOK BY <1>a, <1>b DEF KeyOK
<1>4. ReplyOK BY DEF Init, ReplyOK, Quiet, Gates
<1>5. \A p \in Payloads : ~OnItsWay(p) BY PayloadFields DEF Init, OnItsWay, Quiet, Gates
<1>6. InFlightOK BY <1>5 DEF InFlightOK
<1>7. CacheOK /\ SkipOK BY DEF Init, CacheOK, SkipOK, Quiet, Gates
<1>8. HeardOK BY DEF Init, HeardOK
<1> QED BY <1>1, <1>2, <1>3, <1>4, <1>6, <1>7, <1>8 DEF GateInv, Belief

-----------------------------------------------------------------------------
(* The backend.                                                             *)

\* Fewer payloads on their way, and the same room.
LEMMA InFlightShrinks ==
    ASSUME InFlightOK, UNCHANGED <<room, routesFor, textFor, running>>,
           \A p \in Payloads : OnItsWay(p)' => OnItsWay(p)
    PROVE  InFlightOK'
BY DEF InFlightOK, Fresh

LEMMA ChangeKeeps ==
    ASSUME GateInv, NEW new \in Rooms, NEW fields \in Carried, Change(new, fields)
    PROVE  GateInv'
<1>a. /\ room' = new /\ written' = Payload(new, fields) /\ key' = written' /\ unsent' = TRUE
      /\ UNCHANGED <<blindFor, channel, cacheVars, gateVars>>
  BY DEF Change
<1>b. written' \in Payloads /\ written'.routes \in {new.routes, Unknown}
  BY <1>a, WrittenFields
<1>1. TypeOK' BY <1>a, <1>b DEF GateInv, TypeOK, cacheVars, gateVars
<1>2. /\ new.routes.text \in BOOLEAN /\ Runs(written)' \in BOOLEAN
      /\ wasText' = (wasText \/ new.routes.text) /\ running' = (running /\ Runs(written)')
  BY <1>b, RoomFields, PayloadFields DEF Change, Runs
<1>3. routesFor' \in 0..MaxAge /\ textFor' \in 0..MaxAge
  BY RouteConstants DEF GateInv, HistoryOK, Change
<1>4. HistoryOK' BY <1>a, <1>2, <1>3 DEF GateInv, HistoryOK
<1>5. KeyOK' /\ ReplyOK' BY <1>a, <1>b DEF KeyOK, GateInv, ReplyOK, gateVars
<1>6. InFlightOK'
  <2> SUFFICES ASSUME NEW p \in Payloads, OnItsWay(p)' PROVE Fresh(p)' BY DEF InFlightOK
  <2>1. OnItsWay(p) BY <1>a DEF OnItsWay, gateVars
  <2>2. Fresh(p) BY <2>1 DEF GateInv, Belief, InFlightOK
  <2>3. (running' => running) /\ routesFor' \in {routesFor, 0} /\ textFor' \in {textFor, 0}
    BY <1>2 DEF Change
  <2>4. p.routes # Unknown /\ p.routes.mine # new.routes.mine => routesFor' = 0
    BY <2>2, <2>3 DEF Change, Fresh
  <2>5. p.routes # Unknown /\ p.routes.text # new.routes.text => textFor' = 0
    BY <2>2, <2>3 DEF Change, Fresh
  <2> QED BY <1>a, <2>2, <2>3, <2>4, <2>5 DEF Fresh
<1>7. CacheOK'
  <2> SUFFICES ASSUME routes # Unknown
               PROVE  /\ routes.mine # new.routes.mine => routesFor' <= age \/ blindFor <= age
                      /\ routes.text # new.routes.text => textFor' <= age \/ blindFor <= age
    BY <1>a DEF CacheOK, cacheVars
  <2>0. age \in Nat BY RouteConstants DEF GateInv, TypeOK
  <2>1. routes.mine # new.routes.mine => routesFor' <= age \/ blindFor <= age
    BY <2>0 DEF GateInv, Belief, CacheOK, Change
  <2>2. routes.text # new.routes.text => textFor' <= age \/ blindFor <= age
    BY <2>0 DEF GateInv, Belief, CacheOK, Change
  <2> QED BY <2>1, <2>2
<1>8. HeardOK' BY <1>a, <1>2 DEF GateInv, Belief, HeardOK, cacheVars
<1>9. SkipOK' BY <1>a, <1>2 DEF GateInv, Belief, SkipOK, gateVars
<1> QED BY <1>1, <1>4, <1>5, <1>6, <1>7, <1>8, <1>9 DEF GateInv, Belief

\* The last payload says of the room what it is.
LEMMA WrittenFresh == ASSUME GateInv PROVE Fresh(written)
BY DEF GateInv, Belief, HeardOK, KeyOK, Fresh

LEMMA PublishKeeps == ASSUME GateInv, Publish PROVE GateInv'
<1>a. channel \in Seq(Payloads) /\ written \in Payloads BY DEF GateInv, TypeOK
<1>b. channel' = Append(channel, written) /\ unsent' \in BOOLEAN BY DEF Publish
<1>0. channel' \in Seq(Payloads) /\ unsent' \in BOOLEAN BY <1>a, <1>b
<1>1. TypeOK' BY <1>0 DEF GateInv, TypeOK, Publish, cacheVars, gateVars
<1>2. HistoryOK' /\ KeyOK' /\ ReplyOK'
  BY DEF GateInv, HistoryOK, KeyOK, ReplyOK, Publish, history, gateVars
<1>3. InFlightOK'
  <2> SUFFICES ASSUME NEW p \in Payloads, OnItsWay(p)' PROVE Fresh(p)
    BY DEF InFlightOK, Fresh, Publish, history
  <2>1. OnItsWay(p) \/ p = written BY DEF OnItsWay, GateInv, TypeOK, Publish, gateVars
  <2> QED BY <2>1, WrittenFresh DEF GateInv, Belief, InFlightOK
<1>4. CacheOK' /\ HeardOK' /\ SkipOK'
  BY DEF GateInv, Belief, CacheOK, HeardOK, SkipOK, Publish, history, cacheVars, gateVars
<1> QED BY <1>1, <1>2, <1>3, <1>4 DEF GateInv, Belief

LEMMA LoseKeeps == ASSUME GateInv, Lose PROVE GateInv'
<1>1. TypeOK' BY DEF GateInv, TypeOK, Lose, backendVars, cacheVars, gateVars
<1>2. HistoryOK' /\ KeyOK' /\ ReplyOK'
  BY DEF GateInv, HistoryOK, KeyOK, ReplyOK, Lose, history, gateVars, backendVars
<1>3. \A p \in Payloads : OnItsWay(p)' => OnItsWay(p)
  BY DEF OnItsWay, GateInv, TypeOK, Lose, gateVars
<1>4. InFlightOK' BY <1>3, InFlightShrinks DEF GateInv, Belief, Lose, history, backendVars
<1>5. CacheOK' /\ HeardOK' /\ SkipOK'
  BY DEF GateInv, Belief, CacheOK, HeardOK, SkipOK, Lose, history, cacheVars, gateVars, backendVars
<1> QED BY <1>1, <1>2, <1>4, <1>5 DEF GateInv, Belief

LEMMA EvictKeeps == ASSUME GateInv, Evict PROVE GateInv'
<1>1. TypeOK' BY DEF GateInv, TypeOK, Evict, cacheVars, gateVars
<1>2. HistoryOK' /\ KeyOK' /\ ReplyOK'
  BY DEF GateInv, HistoryOK, KeyOK, ReplyOK, Evict, history, gateVars
<1>3. \A p \in Payloads : OnItsWay(p)' => OnItsWay(p) BY DEF OnItsWay, Evict, gateVars
<1>4. InFlightOK' BY <1>3, InFlightShrinks DEF GateInv, Belief, Evict, history
<1>5. CacheOK' /\ HeardOK' /\ SkipOK'
  BY DEF GateInv, Belief, CacheOK, HeardOK, SkipOK, Evict, history, cacheVars, gateVars
<1> QED BY <1>1, <1>2, <1>4, <1>5 DEF GateInv, Belief

-----------------------------------------------------------------------------
(* The listener.                                                            *)

\* A payload that was on its way may enter the caches.
LEMMA ApplyKeeps ==
    ASSUME GateInv, NEW p \in Payloads, OnItsWay(p), Apply(p),
           UNCHANGED <<room, written, routesFor, textFor, running>>,
           blindFor' = blindFor \/ blindFor' = 0
    PROVE  CacheOK' /\ HeardOK'
<1>1. TypeOK /\ Fresh(p) /\ age \in Nat
  BY RouteConstants DEF GateInv, Belief, InFlightOK, TypeOK
<1>2. /\ routes' = Heard(p.routes, routes) /\ active' = Heard(p.active, active)
      /\ age' = IF p.routes = Unknown THEN age ELSE 0
  BY <1>1, ApplyTyped
<1>3. CacheOK'
  <2>1. CASE p.routes = Unknown
    <3>1. routes' = routes /\ age' = age BY <1>2, <2>1 DEF Heard
    <3> QED BY <1>1, <3>1 DEF GateInv, Belief, CacheOK
  <2>2. CASE p.routes # Unknown
    <3>1. routes' = p.routes /\ age' = 0 BY <1>2, <2>2 DEF Heard
    <3> QED BY <1>1, <2>2, <3>1 DEF CacheOK, Fresh
  <2> QED BY <2>1, <2>2
<1>4. HeardOK'
  <2> SUFFICES ASSUME running PROVE Runs(written)' /\ active' \in {TRUE, Unknown}
    BY DEF HeardOK
  <2>1. Runs(written)' BY DEF GateInv, Belief, HeardOK, Runs
  <2>2. p.active \in {TRUE, Unknown} /\ active \in {TRUE, Unknown}
    BY <1>1, PayloadFields DEF Fresh, Runs, TranslationActive, GateInv, Belief, HeardOK
  <2> QED BY <1>2, <2>1, <2>2 DEF Heard
<1> QED BY <1>3, <1>4

LEMMA HandleBroadcastKeeps == ASSUME GateInv, HandleBroadcast PROVE GateInv'
<1> DEFINE p == Head(channel)
<1>0. p \in Payloads /\ OnItsWay(p)
  BY DEF OnItsWay, GateInv, TypeOK, HandleBroadcast
<1>1. channel' \in Seq(Payloads) BY DEF GateInv, TypeOK, HandleBroadcast
<1>2. HistoryOK' /\ KeyOK' /\ ReplyOK'
  BY DEF GateInv, HistoryOK, KeyOK, ReplyOK, HandleBroadcast, history, gateVars, backendVars
<1>3. \A q \in Payloads : OnItsWay(q)' => OnItsWay(q)
  BY DEF OnItsWay, GateInv, TypeOK, HandleBroadcast, gateVars
<1>4. InFlightOK' BY <1>3, InFlightShrinks DEF GateInv, Belief, HandleBroadcast, history, backendVars
<1>5. SkipOK' BY DEF GateInv, Belief, SkipOK, HandleBroadcast, history, gateVars, backendVars
<1>6. CASE p.status \in Terminal
  <2>1. routes' = Unknown /\ active' = Unknown /\ status' = Unknown /\ age' \in 0..MaxAge
    BY <1>6, RouteConstants DEF HandleBroadcast
  <2>2. TypeOK' BY <1>1, <2>1 DEF GateInv, TypeOK, HandleBroadcast, backendVars, gateVars
  <2>3. CacheOK' BY <2>1 DEF CacheOK
  <2>4. HeardOK' BY <2>1 DEF GateInv, Belief, HeardOK, HandleBroadcast, history, backendVars
  <2> QED BY <1>2, <1>4, <1>5, <2>2, <2>3, <2>4 DEF GateInv, Belief
<1>7. CASE p.status \notin Terminal
  <2>1. Apply(p) BY <1>7 DEF HandleBroadcast
  <2>2. TypeOK'
    <3>1. TypeOK BY DEF GateInv
    <3> QED BY <1>0, <1>1, <2>1, <3>1, ApplyTyped DEF TypeOK, HandleBroadcast, backendVars, gateVars
  <2>3. CacheOK' /\ HeardOK' BY <1>0, <2>1, ApplyKeeps DEF HandleBroadcast, history, backendVars
  <2> QED BY <1>2, <1>4, <1>5, <2>2, <2>3 DEF GateInv, Belief
<1> QED BY <1>6, <1>7

-----------------------------------------------------------------------------
(* The gates.                                                               *)

LEMMA AskKeeps == ASSUME GateInv, NEW g \in Gates, Ask(g) PROVE GateInv'
<1>1. TypeOK'
  BY DEF GateInv, TypeOK, Ask, backendVars, cacheVars, Quiet, Sayings, Steps
<1>2. room.routes.text \in BOOLEAN BY RoomFields DEF GateInv, TypeOK
<1>3. HistoryOK' BY <1>2 DEF GateInv, HistoryOK, Ask
<1>4. KeyOK' /\ ReplyOK' BY DEF GateInv, TypeOK, KeyOK, ReplyOK, Ask, backendVars
<1>5. \A p \in Payloads : OnItsWay(p)' => OnItsWay(p) BY DEF OnItsWay, Ask
<1>6. InFlightOK' BY <1>5, InFlightShrinks DEF GateInv, Belief, Ask, backendVars
<1>7. CacheOK' /\ HeardOK'
  BY DEF GateInv, Belief, CacheOK, HeardOK, Ask, cacheVars, backendVars
<1>8. SkipOK'
  <2>1. CASE g = "text"
    <3>1. reply["text"] = Unknown BY <2>1 DEF GateInv, ReplyOK, Ask, Gates
    <3> QED BY <2>1, <3>1 DEF SkipOK, Ask, backendVars
  <2>2. CASE g # "text"
    BY <2>2 DEF GateInv, TypeOK, Belief, SkipOK, Ask, backendVars
  <2> QED BY <2>1, <2>2
<1> QED BY <1>1, <1>3, <1>4, <1>6, <1>7, <1>8 DEF GateInv, Belief

\* The gate answers: it has no reply left, and the other gates are as they were.
LEMMA AnswerFacts ==
    ASSUME TypeOK, ReplyOK, NEW g \in Gates, NEW answer \in Sayings, Answer(g, answer)
    PROVE  /\ call' \in [Gates -> Steps]
           /\ reply' \in [Gates -> Payloads \cup {Unknown}] /\ said' \in [Gates -> Sayings]
           /\ ReplyOK'
           /\ call'[g] = "idle" /\ said'[g] = answer
           /\ \A h \in Gates : call'[h] = "idle" \/ (call'[h] = call[h] /\ reply'[h] = reply[h])
           /\ \A h \in Gates \ {g} : call'[h] = call[h]
           /\ \A p \in Payloads : (\E h \in Gates : reply'[h] = p) => (\E h \in Gates : reply[h] = p)
<1>1. /\ call' \in [Gates -> Steps]
      /\ reply' \in [Gates -> Payloads \cup {Unknown}] /\ said' \in [Gates -> Sayings]
  BY DEF TypeOK, Answer, Steps
<1>2. ReplyOK' BY DEF TypeOK, ReplyOK, Answer
<1>3. call'[g] = "idle" /\ said'[g] = answer BY DEF TypeOK, Answer
<1>4. \A h \in Gates : call'[h] = "idle" \/ (call'[h] = call[h] /\ reply'[h] = reply[h])
  BY DEF TypeOK, Answer
<1>5. \A h \in Gates \ {g} : call'[h] = call[h] BY DEF TypeOK, Answer
<1>6. \A p \in Payloads : (\E h \in Gates : reply'[h] = p) => (\E h \in Gates : reply[h] = p)
  BY PayloadFields DEF TypeOK, Answer
<1> QED BY <1>1, <1>2, <1>3, <1>4, <1>5, <1>6

\* An answer after which the caches are still as they should be.
LEMMA AnswerKeeps ==
    ASSUME GateInv, NEW g \in Gates, NEW answer \in Sayings, Answer(g, answer),
           UNCHANGED <<backendVars, channel, routesFor, textFor, wasText, running>>,
           TypeOK', HistoryOK', CacheOK', HeardOK'
    PROVE  GateInv'
<1>0. TypeOK /\ ReplyOK BY DEF GateInv
<1>1. ReplyOK' BY <1>0, AnswerFacts
<1>2. KeyOK' BY DEF GateInv, KeyOK, backendVars
<1>3. \A p \in Payloads : OnItsWay(p)' => OnItsWay(p) BY <1>0, AnswerFacts DEF OnItsWay
<1>4. InFlightOK' BY <1>3, InFlightShrinks DEF GateInv, Belief, backendVars
<1>5. call'["text"] = "idle" \/ (call'["text"] = call["text"] /\ reply'["text"] = reply["text"])
  BY <1>0, AnswerFacts DEF Gates
<1>6. SkipOK' BY <1>5 DEF GateInv, Belief, SkipOK, backendVars
<1> QED BY <1>1, <1>2, <1>4, <1>6 DEF GateInv, Belief

\* A gate that decides changes nothing but its own step, or answers.
LEMMA DecideKeeps ==
    ASSUME GateInv, NEW g \in Gates, NEW readFirst \in BOOLEAN, NEW answer \in Sayings,
           Decide(g, readFirst, answer)
    PROVE  GateInv'
<1>1. HistoryOK' BY DEF GateInv, HistoryOK, Decide, history
<1>2. CacheOK' /\ HeardOK'
  BY DEF GateInv, Belief, CacheOK, HeardOK, Decide, history, cacheVars, backendVars
<1>3. CASE readFirst
  <2>1. /\ call' = [call EXCEPT ![g] = IF g = "consent" /\ routes # Unknown THEN "refresh"
                                       ELSE "read"]
        /\ call[g] = "decide" /\ UNCHANGED <<reply, said>>
    BY <1>3 DEF Decide
  <2>2. TypeOK' BY <2>1 DEF GateInv, TypeOK, Decide, backendVars, cacheVars, Steps
  <2>3. KeyOK' /\ ReplyOK' BY <2>1 DEF GateInv, TypeOK, KeyOK, ReplyOK, Decide, backendVars
  <2>4. \A p \in Payloads : OnItsWay(p)' => OnItsWay(p) BY <2>1 DEF OnItsWay, Decide
  <2>5. InFlightOK' BY <2>4, InFlightShrinks DEF GateInv, Belief, Decide, backendVars, history
  <2>6. call'["text"] # "idle" => call["text"] # "idle" BY <2>1 DEF GateInv, TypeOK, Gates
  <2>7. SkipOK' BY <2>1, <2>6 DEF GateInv, Belief, SkipOK, Decide, backendVars, history
  <2> QED BY <1>1, <1>2, <2>2, <2>3, <2>5, <2>7 DEF GateInv, Belief
<1>4. CASE ~readFirst
  <2>1. Answer(g, answer) BY <1>4 DEF Decide
  <2>2. TypeOK /\ ReplyOK BY DEF GateInv
  <2>3. TypeOK' BY <2>1, <2>2, AnswerFacts DEF TypeOK, Decide, backendVars, cacheVars
  <2> QED BY <1>1, <1>2, <2>1, <2>3, AnswerKeeps DEF Decide, history
<1> QED BY <1>3, <1>4

LEMMA AskTranslationKeeps == ASSUME GateInv, AskTranslation PROVE GateInv'
BY DecideKeeps DEF AskTranslation, Gates, YesNo, Sayings

LEMMA AskTextKeeps == ASSUME GateInv, AskText PROVE GateInv'
<1>1. (routes = Unknown \/ TextOnly(routes)) \in BOOLEAN
  BY RouteConstants DEF GateInv, TypeOK, TextOnly
<1> QED BY <1>1, DecideKeeps DEF AskText, Gates, Sayings

LEMMA AskConsentKeeps == ASSUME GateInv, AskConsent PROVE GateInv'
<1>1. Consent(routes) \in Sayings BY ConsentSays DEF GateInv, TypeOK
<1> QED BY <1>1, DecideKeeps DEF AskConsent, Gates

\* The key's payload is the room's own.
LEMMA ReadKeeps == ASSUME GateInv, NEW g \in Gates, Read(g) PROVE GateInv'
<1>1. TypeOK' BY DEF GateInv, TypeOK, Read, backendVars, cacheVars, Steps
<1>2. HistoryOK' /\ KeyOK' BY DEF GateInv, HistoryOK, KeyOK, Read, history, backendVars
<1>3. CacheOK' /\ HeardOK'
  BY DEF GateInv, Belief, CacheOK, HeardOK, Read, history, cacheVars, backendVars
<1>4. \A h \in Gates : reply'[h] = reply[h] \/ (h = g /\ reply'[h] = key)
  BY DEF GateInv, TypeOK, Read
<1>5. ReplyOK'
  <2>1. reply[g] = Unknown BY DEF GateInv, ReplyOK, Read
  <2> QED BY <2>1 DEF GateInv, TypeOK, ReplyOK, Read
<1>6. InFlightOK'
  <2> SUFFICES ASSUME NEW p \in Payloads, OnItsWay(p)' PROVE Fresh(p)
    BY DEF InFlightOK, Fresh, Read, history, backendVars
  <2>1. OnItsWay(p) \/ p = key BY <1>4 DEF OnItsWay, Read
  <2>2. OnItsWay(p) \/ p = written BY <2>1, PayloadFields DEF GateInv, KeyOK
  <2> QED BY <2>2, WrittenFresh DEF GateInv, Belief, InFlightOK
<1>7. SkipOK'
  <2>1. call["text"] # "idle" \/ call'["text"] = "idle" BY DEF GateInv, TypeOK, Read, Gates
  <2>2. reply'["text"] \in {reply["text"], written, Unknown}
    BY <1>4 DEF GateInv, KeyOK, Gates
  <2>3. written.routes \in {room.routes, Unknown} BY DEF GateInv, KeyOK
  <2> QED BY <2>1, <2>2, <2>3 DEF GateInv, Belief, SkipOK, Read, history, backendVars
<1> QED BY <1>1, <1>2, <1>3, <1>5, <1>6, <1>7 DEF GateInv, Belief

\* A reply that is loaded, or the lack of one, leaves the caches as they should be.
LEMMA LoadKeeps ==
    ASSUME GateInv, NEW g \in Gates, Load(reply[g]),
           UNCHANGED <<room, written, routesFor, textFor, running>>,
           blindFor' = blindFor \/ blindFor' = 0
    PROVE  /\ CacheOK' /\ HeardOK' /\ age' \in 0..MaxAge
           /\ routes' \in Routes \cup {Unknown} /\ active' \in BOOLEAN \cup {Unknown}
           /\ status' \in Statuses \cup {Unknown}
<1>1. CASE reply[g] = Unknown
  <2>1. UNCHANGED <<routes, active, status, age>> BY <1>1 DEF Load, cacheVars
  <2>2. CacheOK'
    <3>1. blindFor' = blindFor \/ blindFor' = 0 OBVIOUS
    <3>2. age \in Nat BY RouteConstants DEF GateInv, TypeOK
    <3> QED BY <2>1, <3>1, <3>2 DEF GateInv, Belief, CacheOK
  <2>3. HeardOK' BY <2>1 DEF GateInv, Belief, HeardOK, Runs
  <2> QED BY <2>1, <2>2, <2>3 DEF GateInv, TypeOK
<1>2. CASE reply[g] # Unknown
  <2>1. reply[g] \in Payloads /\ OnItsWay(reply[g]) BY <1>2 DEF GateInv, TypeOK, OnItsWay
  <2>2. Apply(reply[g]) BY <1>2 DEF Load
  <2>3. TypeOK BY DEF GateInv
  <2> QED BY <2>1, <2>2, <2>3, ApplyKeeps, ApplyTyped
<1> QED BY <1>1, <1>2

LEMMA TranslationKnownKeeps == ASSUME GateInv, TranslationKnown PROVE GateInv'
<1> DEFINE g == "translation"
           answer == YesNo(TranslationActive(active', status'))
<1>1. /\ g \in Gates /\ answer \in Sayings /\ Answer(g, answer) /\ Load(reply[g])
      /\ UNCHANGED <<backendVars, channel, history>>
  BY DEF TranslationKnown, Gates, YesNo, Sayings
<1>2. HistoryOK' BY <1>1 DEF GateInv, HistoryOK, history
<1>3. /\ CacheOK' /\ HeardOK' /\ age' \in 0..MaxAge
      /\ routes' \in Routes \cup {Unknown} /\ active' \in BOOLEAN \cup {Unknown}
      /\ status' \in Statuses \cup {Unknown}
  BY <1>1, LoadKeeps DEF history, backendVars
<1>4. TypeOK' BY <1>1, <1>3, AnswerFacts DEF GateInv, TypeOK, backendVars
<1> QED BY <1>1, <1>2, <1>3, <1>4, AnswerKeeps DEF history

LEMMA TextKnownKeeps == ASSUME GateInv, TextKnown PROVE GateInv'
<1> DEFINE g == "text"
           answer == YesNo(TextOnly(routes'))
<1>1. /\ g \in Gates /\ answer \in Sayings /\ Answer(g, answer) /\ Load(reply[g])
      /\ UNCHANGED <<backendVars, channel, history>>
  BY DEF TextKnown, Gates, YesNo, Sayings
<1>2. HistoryOK' BY <1>1 DEF GateInv, HistoryOK, history
<1>3. /\ CacheOK' /\ HeardOK' /\ age' \in 0..MaxAge
      /\ routes' \in Routes \cup {Unknown} /\ active' \in BOOLEAN \cup {Unknown}
      /\ status' \in Statuses \cup {Unknown}
  BY <1>1, LoadKeeps DEF history, backendVars
<1>4. TypeOK' BY <1>1, <1>3, AnswerFacts DEF GateInv, TypeOK, backendVars
<1> QED BY <1>1, <1>2, <1>3, <1>4, AnswerKeeps DEF history

LEMMA BlindOrNot ==
    ASSUME blindFor' = IF Blind("consent") THEN 0 ELSE blindFor
    PROVE  blindFor' = blindFor \/ blindFor' = 0
OBVIOUS

LEMMA ConsentKnownKeeps == ASSUME GateInv, ConsentKnown PROVE GateInv'
<1> DEFINE g == "consent"
           answer == IF call[g] = "failed" /\ Consent(routes) = "consented"
                     THEN "not_opted_in" ELSE Consent(routes')
<1>1. /\ g \in Gates /\ Answer(g, answer) /\ Load(reply[g])
      /\ UNCHANGED <<backendVars, channel, routesFor, textFor, wasText, running>>
      /\ blindFor' = blindFor \/ blindFor' = 0
  BY BlindOrNot DEF ConsentKnown, Gates
<1>2. HistoryOK' BY <1>1, RouteConstants DEF GateInv, HistoryOK
<1>3. /\ CacheOK' /\ HeardOK' /\ age' \in 0..MaxAge
      /\ routes' \in Routes \cup {Unknown} /\ active' \in BOOLEAN \cup {Unknown}
      /\ status' \in Statuses \cup {Unknown}
  BY <1>1, LoadKeeps DEF backendVars
<1>4. answer \in Sayings
  <2>1. Consent(routes') \in Sayings BY <1>3, ConsentSays
  <2> QED BY <2>1 DEF Sayings
<1>5. TypeOK' BY <1>1, <1>3, <1>4, AnswerFacts DEF GateInv, TypeOK, backendVars
<1> QED BY <1>1, <1>2, <1>3, <1>4, <1>5, AnswerKeeps

\* After a refresh, that found something or failed, the gate answers or reads again.
LEMMA AnswerOrReadKeeps ==
    ASSUME GateInv, AnswerOrRead, call["consent"] \in {"refreshed", "stale"},
           UNCHANGED <<backendVars, channel, routesFor, textFor, wasText, running>>,
           HistoryOK', CacheOK', HeardOK', age' \in 0..MaxAge,
           routes' \in Routes \cup {Unknown}, active' \in BOOLEAN \cup {Unknown},
           status' \in Statuses \cup {Unknown}
    PROVE  GateInv'
<1>0. "consent" \in Gates /\ TypeOK /\ ReplyOK BY DEF GateInv, Gates
<1>1. CASE routes' = Unknown
  <2>1. /\ call' = [call EXCEPT !["consent"] = "read"] /\ UNCHANGED said
        /\ reply' = [reply EXCEPT !["consent"] = Unknown]
    BY <1>1 DEF AnswerOrRead
  <2>2. TypeOK' BY <1>0, <2>1 DEF TypeOK, Steps, backendVars
  <2>3. KeyOK' /\ ReplyOK' BY <1>0, <2>1 DEF GateInv, TypeOK, KeyOK, ReplyOK, backendVars
  <2>4. \A p \in Payloads : OnItsWay(p)' => OnItsWay(p)
    BY <1>0, <2>1, PayloadFields DEF OnItsWay, TypeOK
  <2>5. InFlightOK' BY <2>4, InFlightShrinks DEF GateInv, Belief, backendVars
  <2>6. call'["text"] = call["text"] /\ reply'["text"] = reply["text"]
    BY <1>0, <2>1 DEF TypeOK, Gates
  <2>7. SkipOK' BY <2>6 DEF GateInv, Belief, SkipOK, backendVars
  <2> QED BY <2>2, <2>3, <2>5, <2>7 DEF GateInv, Belief
<1>2. CASE routes' # Unknown
  <2>1. Answer("consent", Consent(routes')) BY <1>2 DEF AnswerOrRead
  <2>2. Consent(routes') \in Sayings BY ConsentSays
  <2>3. TypeOK' BY <1>0, <2>1, <2>2, AnswerFacts DEF TypeOK, backendVars
  <2> QED BY <1>0, <2>1, <2>2, <2>3, AnswerKeeps
<1> QED BY <1>1, <1>2

LEMMA RefreshedKeeps == ASSUME GateInv, Refreshed PROVE GateInv'
<1>1. /\ "consent" \in Gates /\ Load(reply["consent"]) /\ AnswerOrRead
      /\ UNCHANGED <<backendVars, channel, routesFor, textFor, wasText, running>>
      /\ (blindFor' = blindFor \/ blindFor' = 0) /\ call["consent"] = "refreshed"
  BY BlindOrNot DEF Refreshed, Gates
<1>2. HistoryOK' BY <1>1, RouteConstants DEF GateInv, HistoryOK
<1>3. /\ CacheOK' /\ HeardOK' /\ age' \in 0..MaxAge
      /\ routes' \in Routes \cup {Unknown} /\ active' \in BOOLEAN \cup {Unknown}
      /\ status' \in Statuses \cup {Unknown}
  BY <1>1, LoadKeeps DEF backendVars
<1> QED BY <1>1, <1>2, <1>3, AnswerOrReadKeeps

LEMMA RefreshFailedKeeps == ASSUME GateInv, RefreshFailed PROVE GateInv'
<1>1. /\ AnswerOrRead /\ call["consent"] = "stale" /\ age' = 0 /\ blindFor' = 0
      /\ UNCHANGED <<routes, active, status>>
      /\ UNCHANGED <<backendVars, channel, routesFor, textFor, wasText, running>>
  BY DEF RefreshFailed
<1>2. HistoryOK' BY <1>1, RouteConstants DEF GateInv, HistoryOK
<1>3. CacheOK' BY <1>1 DEF CacheOK
<1>4. HeardOK' BY <1>1 DEF GateInv, Belief, HeardOK, Runs, backendVars
<1>5. /\ age' \in 0..MaxAge /\ routes' \in Routes \cup {Unknown}
      /\ active' \in BOOLEAN \cup {Unknown} /\ status' \in Statuses \cup {Unknown}
  BY <1>1, RouteConstants DEF GateInv, TypeOK
<1> QED BY <1>1, <1>2, <1>3, <1>4, <1>5, AnswerOrReadKeeps

-----------------------------------------------------------------------------
(* The process and the clock.                                               *)

LEMMA RestartKeeps == ASSUME GateInv, Restart PROVE GateInv'
<1>1. /\ call' \in [Gates -> Steps]
      /\ reply' \in [Gates -> Payloads \cup {Unknown}] /\ said' \in [Gates -> Sayings]
      /\ \A g \in Gates : call'[g] = "idle" /\ reply'[g] = Unknown
  BY DEF Restart, Quiet, Sayings, Steps
<1>2. /\ routes' = Unknown /\ active' = Unknown /\ status' = Unknown /\ age' \in 0..MaxAge
      /\ channel' = <<>> /\ channel' \in Seq(Payloads)
  BY RouteConstants DEF Restart
<1>3. TypeOK' BY <1>1, <1>2 DEF GateInv, TypeOK, Restart, backendVars
<1>4. Runs(written) \in BOOLEAN BY PayloadFields DEF GateInv, TypeOK
<1>5. HistoryOK' BY <1>4 DEF GateInv, HistoryOK, Restart
<1>6. KeyOK' /\ ReplyOK' BY <1>1 DEF GateInv, KeyOK, ReplyOK, Restart, backendVars
<1>7. \A p \in Payloads : ~OnItsWay(p)' BY <1>1, <1>2, PayloadFields DEF OnItsWay
<1>8. InFlightOK' BY <1>7 DEF InFlightOK
<1>9. CacheOK' /\ HeardOK' /\ SkipOK'
  BY <1>1, <1>2 DEF CacheOK, HeardOK, SkipOK, Restart, Gates, Runs, backendVars
<1> QED BY <1>3, <1>5, <1>6, <1>8, <1>9 DEF GateInv, Belief

LEMMA TickKeeps == ASSUME GateInv, Tick PROVE GateInv'
<1>1. /\ age' = Older(age) /\ routesFor' = Older(routesFor) /\ blindFor' = Older(blindFor)
      /\ textFor' = Older(textFor) /\ textFor \in 0..MaxAge
      /\ age \in 0..MaxAge /\ routesFor \in 0..MaxAge /\ blindFor \in 0..MaxAge
  BY DEF GateInv, TypeOK, HistoryOK, Tick
<1>2. /\ age' \in 0..MaxAge /\ routesFor' \in 0..MaxAge /\ blindFor' \in 0..MaxAge
      /\ textFor' \in 0..MaxAge
      /\ routesFor <= age => routesFor' <= age'
      /\ textFor <= age => textFor' <= age'
      /\ blindFor <= age => blindFor' <= age'
  BY <1>1, RouteConstants DEF Older
<1>3. TypeOK' BY <1>2 DEF GateInv, TypeOK, Tick, backendVars, gateVars
<1>4. HistoryOK' /\ KeyOK' /\ ReplyOK'
  BY <1>2 DEF GateInv, HistoryOK, KeyOK, ReplyOK, Tick, backendVars, gateVars
<1>5. \A p \in Payloads : ~OnItsWay(p)'
  <2>1. \A g \in Gates : reply'[g] = Unknown BY DEF GateInv, ReplyOK, Tick, gateVars
  <2>2. channel' = <<>> BY DEF Tick
  <2> QED BY <2>1, <2>2, PayloadFields DEF OnItsWay
<1>6. InFlightOK' BY <1>5 DEF InFlightOK
<1>7. CacheOK' BY <1>2 DEF GateInv, Belief, CacheOK, Tick, backendVars
<1>8. HeardOK' /\ SkipOK'
  BY DEF GateInv, Belief, HeardOK, SkipOK, Tick, backendVars, gateVars
<1> QED BY <1>3, <1>4, <1>6, <1>7, <1>8 DEF GateInv, Belief

LEMMA GateStep == GateInv /\ [Next]_vars => GateInv'
<1> SUFFICES ASSUME GateInv, [Next]_vars PROVE GateInv' OBVIOUS
<1>1. ASSUME NEW new \in Rooms, NEW fields \in Carried, Change(new, fields) PROVE GateInv'
  BY <1>1, ChangeKeeps
<1>2. CASE Publish BY <1>2, PublishKeeps
<1>3. CASE Lose BY <1>3, LoseKeeps
<1>4. CASE Evict BY <1>4, EvictKeeps
<1>5. CASE HandleBroadcast BY <1>5, HandleBroadcastKeeps
<1>6. CASE Gate
  <2>1. CASE AskTranslation BY <2>1, AskTranslationKeeps
  <2>2. CASE AskText BY <2>2, AskTextKeeps
  <2>3. CASE AskConsent BY <2>3, AskConsentKeeps
  <2>4. CASE TranslationKnown BY <2>4, TranslationKnownKeeps
  <2>5. CASE TextKnown BY <2>5, TextKnownKeeps
  <2>6. CASE ConsentKnown BY <2>6, ConsentKnownKeeps
  <2>7. CASE RefreshFailed BY <2>7, RefreshFailedKeeps
  <2>9. CASE Refreshed BY <2>9, RefreshedKeeps
  <2>8. ASSUME NEW g \in Gates, Ask(g) \/ Read(g) PROVE GateInv' BY <2>8, AskKeeps, ReadKeeps
  <2> QED BY <1>6, <2>1, <2>2, <2>3, <2>4, <2>5, <2>6, <2>7, <2>8, <2>9 DEF Gate
<1>7. CASE Restart BY <1>7, RestartKeeps
<1>8. CASE Tick BY <1>8, TickKeeps
<1>9. CASE UNCHANGED vars
  <2> USE <1>9 DEF vars, backendVars, cacheVars, gateVars, history
  <2>1. TypeOK' BY DEF GateInv, TypeOK
  <2>2. HistoryOK' /\ KeyOK' /\ ReplyOK' BY DEF GateInv, HistoryOK, KeyOK, ReplyOK
  <2>3. \A p \in Payloads : OnItsWay(p)' => OnItsWay(p) BY DEF OnItsWay
  <2>4. InFlightOK' BY <2>3, InFlightShrinks DEF GateInv, Belief
  <2>5. CacheOK' /\ HeardOK' /\ SkipOK' BY DEF GateInv, Belief, CacheOK, HeardOK, SkipOK, Runs
  <2> QED BY <2>1, <2>2, <2>4, <2>5 DEF GateInv, Belief
<1> QED BY <1>1, <1>2, <1>3, <1>4, <1>5, <1>6, <1>7, <1>8, <1>9 DEF Next

LEMMA GateAlways == Spec => []GateInv
BY GateInit, GateStep, PTL DEF Spec

\* Every variable keeps its type, whatever fields a payload lacks.
THEOREM TypeCorrect == Spec => []TypeOK
<1>1. GateInv => TypeOK BY DEF GateInv
<1> QED BY <1>1, GateAlways, PTL

-----------------------------------------------------------------------------
(* Who answers.                                                             *)

LEMMA AnswersAlone ==
    ASSUME GateInv, NEW g \in Gates, Answers(g), NEW h \in Gates, NEW answer, Answer(h, answer)
    PROVE  g = h /\ said'[g] = answer
BY DEF GateInv, TypeOK, Answers, Answer

LEMMA DecidesAlone ==
    ASSUME GateInv, NEW g \in Gates, Answers(g), NEW h \in Gates, NEW readFirst \in BOOLEAN,
           NEW answer, Decide(h, readFirst, answer)
    PROVE  g = h /\ ~readFirst /\ said'[g] = answer
<1>1. CASE readFirst BY <1>1 DEF GateInv, TypeOK, Answers, Decide
<1>2. CASE ~readFirst BY <1>2, AnswersAlone DEF Decide
<1> QED BY <1>1, <1>2

LEMMA WhoAnswers ==
    ASSUME GateInv, [Next]_vars, NEW g \in Gates, Answers(g)
    PROVE  \/ AskTranslation \/ AskText \/ AskConsent
           \/ TranslationKnown \/ TextKnown \/ ConsentKnown \/ Refreshed \/ RefreshFailed
<1>1. ASSUME NEW new \in Rooms, NEW fields \in Carried, Change(new, fields) PROVE FALSE
  BY <1>1 DEF Change, gateVars, Answers
<1>2. ~Publish BY DEF Publish, gateVars, Answers
<1>3. ~Lose BY DEF Lose, gateVars, Answers
<1>4. ~Evict BY DEF Evict, gateVars, Answers
<1>5. ~HandleBroadcast BY DEF HandleBroadcast, gateVars, Answers
<1>6. ASSUME NEW h \in Gates, Ask(h) PROVE FALSE BY <1>6 DEF GateInv, TypeOK, Ask, Answers
<1>7. ASSUME NEW h \in Gates, Read(h) PROVE FALSE BY <1>7 DEF GateInv, TypeOK, Read, Answers
<1>8. ~Restart BY DEF Restart, Quiet, Answers
<1>9. ~Tick BY DEF Tick, gateVars, Answers
<1>10. ~UNCHANGED vars BY DEF vars, gateVars, Answers
<1> QED BY <1>1, <1>2, <1>3, <1>4, <1>5, <1>6, <1>7, <1>8, <1>9, <1>10 DEF Next, Gate

\* With what: from memory, after a read, or after one that failed.
LEMMA WhatIsAnswered ==
    ASSUME GateInv, [Next]_vars, NEW g \in Gates, Answers(g)
    PROVE  \/ /\ g = "translation" /\ active # Unknown
              /\ said'[g] = YesNo(TranslationActive(active, status))
           \/ /\ g = "text" /\ said'[g] = "no"
           \/ /\ g = "consent" /\ routes # Unknown /\ age # MaxAge
              /\ said'[g] = Consent(routes)
           \/ /\ g = "translation" /\ TranslationKnown
              /\ said'[g] = YesNo(TranslationActive(active', status'))
           \/ /\ g = "text" /\ TextKnown /\ said'[g] = YesNo(TextOnly(routes'))
           \/ /\ g = "consent" /\ Load(reply[g]) /\ call[g] \in {"loaded", "refreshed"}
              /\ said'[g] = Consent(routes')
           \/ /\ g = "consent" /\ call[g] \in {"failed", "stale"}
<1>0. "translation" \in Gates /\ "text" \in Gates /\ "consent" \in Gates BY DEF Gates
<1>1. CASE AskTranslation BY <1>0, <1>1, DecidesAlone DEF AskTranslation
<1>2. CASE AskText
  <2>1. (routes = Unknown \/ TextOnly(routes)) \in BOOLEAN
    BY RouteConstants DEF GateInv, TypeOK, TextOnly
  <2> QED BY <1>0, <1>2, <2>1, DecidesAlone DEF AskText
<1>3. CASE AskConsent BY <1>0, <1>3, DecidesAlone DEF AskConsent
<1>4. CASE TranslationKnown BY <1>0, <1>4, AnswersAlone DEF TranslationKnown
<1>5. CASE TextKnown BY <1>0, <1>5, AnswersAlone DEF TextKnown
<1>6. CASE ConsentKnown BY <1>0, <1>6, AnswersAlone DEF ConsentKnown
<1>7. CASE Refreshed \/ RefreshFailed
  <2>1. AnswerOrRead /\ TypeOK BY <1>7 DEF Refreshed, RefreshFailed, GateInv
  <2>2. CASE routes' = Unknown BY <1>0, <2>1, <2>2 DEF AnswerOrRead, TypeOK, Answers
  <2>3. CASE routes' # Unknown
    <3>1. Answer("consent", Consent(routes')) BY <2>1, <2>3 DEF AnswerOrRead
    <3>2. g = "consent" /\ said'[g] = Consent(routes') BY <1>0, <3>1, AnswersAlone
    <3> QED BY <1>7, <3>2 DEF Refreshed, RefreshFailed
  <2> QED BY <2>2, <2>3
<1> QED BY <1>1, <1>2, <1>3, <1>4, <1>5, <1>6, <1>7, WhoAnswers

\* A gate that has read the key applies what it read.
LEMMA LoadedFacts ==
    ASSUME GateInv, NEW g \in Gates, call[g] \in {"loaded", "refreshed"}, Load(reply[g])
    PROVE  /\ reply[g] \in Payloads /\ reply[g] # Unknown /\ Fresh(reply[g])
           /\ routes' = Heard(reply[g].routes, routes)
           /\ active' = Heard(reply[g].active, active)
           /\ status' = Heard(reply[g].status, status)
<1>1. TypeOK /\ reply[g] \in Payloads /\ reply[g] # Unknown /\ OnItsWay(reply[g])
  BY DEF GateInv, TypeOK, ReplyOK, OnItsWay
<1>2. Fresh(reply[g]) BY <1>1 DEF GateInv, Belief, InFlightOK
<1>3. Apply(reply[g]) BY <1>1 DEF Load
<1> QED BY <1>1, <1>2, <1>3, ApplyTyped

-----------------------------------------------------------------------------
(* The translation gate.                                                    *)

LEMMA HeardStep ==
    ASSUME GateInv, [Next]_vars, Answers("translation"), said'["translation"] = "no"
    PROVE  ~running \/ call["translation"] = "failed"
<1> DEFINE g == "translation"
<1>0. g \in Gates BY DEF Gates
<1>1. CASE active # Unknown /\ said'[g] = YesNo(TranslationActive(active, status))
  <2>1. running => active = TRUE BY <1>1 DEF GateInv, Belief, HeardOK
  <2> QED BY <1>1, <2>1 DEF TranslationActive, YesNo
<1>2. CASE TranslationKnown /\ said'[g] = YesNo(TranslationActive(active', status'))
  <2> SUFFICES ASSUME running, call[g] = "loaded" PROVE FALSE BY <1>2 DEF TranslationKnown
  <2>1. /\ reply[g] \in Payloads /\ Fresh(reply[g])
        /\ active' = Heard(reply[g].active, active) /\ status' = Heard(reply[g].status, status)
    BY <1>0, <1>2, LoadedFacts DEF TranslationKnown
  <2>2. Runs(reply[g]) /\ active \in {TRUE, Unknown}
    BY <2>1 DEF Fresh, GateInv, Belief, HeardOK
  <2>3. active' = TRUE \/ (active' = Unknown /\ status' \in Live)
    <3>1. CASE reply[g].active = Unknown
      <4>1. reply[g].status \in Live BY <2>2, <3>1 DEF Runs, TranslationActive
      <4>2. reply[g].status # Unknown BY <4>1, RouteConstants
      <4> QED BY <2>1, <2>2, <3>1, <4>1, <4>2 DEF Heard
    <3>2. CASE reply[g].active # Unknown
      <4>1. reply[g].active \in BOOLEAN BY <2>1, <3>2, PayloadFields
      <4>2. reply[g].active = TRUE BY <2>2, <3>2, <4>1 DEF Runs, TranslationActive
      <4> QED BY <2>1, <3>2, <4>2 DEF Heard
    <3> QED BY <3>1, <3>2
  <2>4. said'[g] = "no" OBVIOUS
  <2> QED BY <1>2, <2>3, <2>4, RouteConstants DEF TranslationActive, YesNo
<1> QED BY <1>0, <1>1, <1>2, WhatIsAnswered

\* While translation has been running for as long as the process has, no
\* sentence is dropped, unless the key could not be read.
THEOREM RestartedWorkerHears == Spec => RestartIsHeard
<1>1. GateInv /\ [Next]_vars =>
        [Answers("translation") /\ said'["translation"] = "no" =>
            ~running \/ call["translation"] = "failed"]_vars
  BY HeardStep
<1> QED BY <1>1, GateAlways, PTL DEF Spec, RestartIsHeard

-----------------------------------------------------------------------------
(* The text-only gate.                                                      *)

LEMMA SkipStep ==
    ASSUME GateInv, [Next]_vars, Answers("text"), said'["text"] = "yes"
    PROVE  wasText \/ (Blind("text") /\ (textFor <= age \/ blindFor <= age))
<1> DEFINE g == "text"
<1>0. g \in Gates BY DEF Gates
<1>1. TextKnown /\ said'[g] = YesNo(TextOnly(routes')) BY <1>0, WhatIsAnswered
<1>2. TextOnly(routes') BY <1>1 DEF YesNo
<1>3. call[g] \in {"loaded", "failed"} /\ Load(reply[g]) BY <1>1 DEF TextKnown
<1>4. CASE call[g] = "loaded" /\ reply[g].routes # Unknown
  <2>1. reply[g] # Unknown /\ routes' = reply[g].routes
    BY <1>0, <1>3, <1>4, LoadedFacts DEF Heard
  <2>2. reply[g].routes.text => wasText BY <1>4, <2>1 DEF GateInv, Belief, SkipOK
  <2> QED BY <1>2, <2>1, <2>2 DEF TextOnly
<1>5. CASE call[g] = "failed" \/ reply[g].routes = Unknown
  <2>1. Blind(g) BY <1>3, <1>5 DEF Blind
  <2>2. routes' = routes
    <3>1. CASE call[g] = "loaded" BY <1>0, <1>3, <1>5, <3>1, LoadedFacts DEF Heard
    <3>2. CASE call[g] = "failed"
      <4>1. reply[g] = Unknown BY <1>0, <3>2 DEF GateInv, ReplyOK
      <4> QED BY <1>3, <4>1 DEF Load, cacheVars
    <3> QED BY <1>3, <3>1, <3>2
  <2>3. routes # Unknown /\ routes.text BY <1>2, <2>2 DEF TextOnly
  <2>4. CASE room.routes.text BY <1>3, <2>4 DEF GateInv, Belief, SkipOK
  <2>5. CASE ~room.routes.text
    <3>1. routes.text # room.routes.text BY <2>3, <2>5
    <3> QED BY <2>1, <2>3, <3>1 DEF GateInv, Belief, CacheOK
  <2> QED BY <2>4, <2>5
<1> QED BY <1>3, <1>4, <1>5

\* A dub is skipped only for routes that were text only since the question.
\* When the key could not be read, or does not say, memory never skips on
\* routes older than what was heard after the speaker switched to voice,
\* in whatever order broadcasts and reads were applied.
THEOREM SkipsAreConfirmed == Spec => SkipIsConfirmed
<1>1. GateInv /\ [Next]_vars =>
        [Answers("text") /\ said'["text"] = "yes" =>
            wasText \/ (Blind("text") /\ (textFor <= age \/ blindFor <= age))]_vars
  BY SkipStep
<1> QED BY <1>1, GateAlways, PTL DEF Spec, SkipIsConfirmed

-----------------------------------------------------------------------------
(* The consent gate.                                                        *)

LEMMA ConsentFollowsRoutes ==
    ASSUME NEW r \in Routes, NEW q \in Routes, Consent(r) # Consent(q)
    PROVE  r.mine # q.mine
BY RouteConstants DEF Consent

LEMMA ConsentStep ==
    ASSUME GateInv, [Next]_vars, Answers("consent"), said'["consent"] # Consent(room.routes)
    PROVE  routesFor < MaxAge \/ blindFor < MaxAge \/ Blind("consent")
<1> DEFINE g == "consent"
<1>a. /\ age \in 0..MaxAge /\ routesFor \in 0..MaxAge /\ blindFor \in 0..MaxAge
  BY DEF GateInv, TypeOK, HistoryOK
<1>b. MaxAge \in Nat /\ MaxAge > 0 BY RouteConstants
<1>c. g \in Gates BY DEF Gates
<1>d. room.routes \in Routes BY RoomFields DEF GateInv, TypeOK
<1>0. /\ g \in Gates /\ room.routes \in Routes /\ MaxAge \in Nat /\ MaxAge > 0
      /\ age \in 0..MaxAge /\ routesFor \in 0..MaxAge /\ blindFor \in 0..MaxAge
  BY <1>a, <1>b, <1>c, <1>d
<1>1. CASE routes # Unknown /\ age # MaxAge /\ said'[g] = Consent(routes)
  <2>1. routes.mine # room.routes.mine
    BY <1>0, <1>1, ConsentFollowsRoutes DEF GateInv, TypeOK
  <2>2. routesFor <= age \/ blindFor <= age BY <1>1, <2>1 DEF GateInv, Belief, CacheOK
  <2> QED BY <1>0, <1>1, <2>2
<1>2. CASE call[g] \in {"loaded", "refreshed"} /\ Load(reply[g]) /\ said'[g] = Consent(routes')
  <2> SUFFICES ASSUME ~Blind(g) PROVE routesFor = 0 BY <1>0
  <2>1. /\ reply[g] \in Payloads /\ Fresh(reply[g])
        /\ routes' = Heard(reply[g].routes, routes) /\ reply[g].routes # Unknown
    BY <1>0, <1>2, LoadedFacts DEF Blind
  <2>2. routes' = reply[g].routes /\ routes' \in Routes
    BY <2>1, PayloadFields DEF Heard
  <2>3. reply[g].routes.mine # room.routes.mine BY <1>0, <1>2, <2>2, ConsentFollowsRoutes
  <2> QED BY <2>1, <2>3 DEF Fresh
<1>3. CASE call[g] \in {"failed", "stale"} BY <1>3 DEF Blind
<1> QED BY <1>0, <1>1, <1>2, <1>3, WhatIsAnswered

\* Neither a consent nor its withdrawal is answered wrongly once it is MaxAge
\* old, unless the key could not be read within that time.
THEOREM ConsentIsNeverOld == Spec => ConsentIsRecent
<1>1. GateInv /\ [Next]_vars =>
        [Answers("consent") /\ said'["consent"] # Consent(room.routes) =>
            routesFor < MaxAge \/ blindFor < MaxAge \/ Blind("consent")]_vars
  BY ConsentStep
<1> QED BY <1>1, GateAlways, PTL DEF Spec, ConsentIsRecent
=============================================================================
