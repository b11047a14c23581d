--------------------------- MODULE RoomBotsProofs ---------------------------
(***************************************************************************)
(* The bots in a LiveKit room.  What holds of the interpreter tracks of a  *)
(* speaker (InterpreterTracks), for any languages, voices, people and      *)
(* bounds: a track has one participant in use, there, joining or being     *)
(* closed for another, unless a join outlasted its sentence, and says      *)
(* whose voice it speaks in.                                               *)
(*   What holds of the bot that listens for a room (RoomLease, an          *)
(* instance, from the line below that declares its parameters) follows: no *)
(* replica evicts another's.                                               *)
(***************************************************************************)
EXTENDS InterpreterTracks, TLAPS

\* Who joins does so for the sentence that holds the lock, and alone; while a bot
\* is being closed for another, none is there.
Joining ==
    \A k \in Tracks \ overdue :
        /\ joins[k] > 0 => joins[k] = 1 /\ line[k].at = "joining" /\ ~Present(k)
        /\ line[k].at = "closing" => ~Present(k)

\* What a track was last said to speak in is what its sentence speaks in, and
\* what the room knows, unless it could not be told or was paused since.
Telling ==
    \A k \in Tracks :
        /\ Present(k) => bot[k].told = kind[k] \/ k \in unsaid \/ kind[k] = None
        /\ Publishing(k) => kind[k] \in {line[k].kind, None}
        /\ line[k].at = "speaking" => Present(k)

IInv == TypeOK /\ Joining /\ Telling

-----------------------------------------------------------------------------
(* Types.                                                                  *)

Bot == [here : BOOLEAN, marked : BOOLEAN, idle : BOOLEAN, fed : BOOLEAN, told : Kinds \cup {None}]
Places == {"idle", "joining", "speaking", "closing", "broken"}
Spot == [at : Places, whole : BOOLEAN, again : BOOLEAN, kind : Kinds \cup {None}]
Seen == [lang : Languages \cup {None}, changed : BOOLEAN]
Passes == [at : {None, "begun", "read"}, on : SUBSET Dubbed, fed : SUBSET Dubbed,
           listen : SUBSET Languages, empty : BOOLEAN]

\* The tracks, and what surrounds them.
Staged ==
    /\ bot \in [Tracks -> Bot] /\ joins \in [Tracks -> Nat] /\ kind \in [Tracks -> Kinds \cup {None}]
    /\ line \in [Tracks -> Spot] /\ due \in [Dubbed -> SUBSET Voices]
    /\ overdue \subseteq Tracks /\ unsaid \subseteq Tracks
    /\ parting \subseteq Tracks /\ stuck \subseteq Tracks
Peopled ==
    /\ sentence \subseteq Dubbed /\ listen \subseteq Languages /\ registered \in BOOLEAN
    /\ declared \in Languages \cup {None} /\ paused \in BOOLEAN
    /\ bridge \in {"unknown", "yes", "no"} /\ seen \in Seen /\ pass \in Passes
Bounded == sentences \in 0..MaxSentences /\ faults \in 0..MaxFaults /\ turns \in 0..MaxTurns

LEMMA Typed == TypeOK => Staged /\ Peopled /\ Bounded
BY DEF TypeOK, Staged, Peopled, Bounded, Bot, Places, Spot, Seen, Passes

LEMMA TypedNow == Staged /\ Peopled /\ Bounded => TypeOK
BY DEF TypeOK, Staged, Peopled, Bounded, Bot, Places, Spot, Seen, Passes

LEMMA TypedNext == Staged' /\ Peopled' /\ Bounded' => TypeOK'
BY DEF TypeOK, Staged, Peopled, Bounded, Bot, Places, Spot, Seen, Passes

LEMMA Numbers == MaxSentences \in Nat /\ MaxFaults \in Nat /\ MaxTurns \in Nat /\ None \notin Kinds
BY Defined

LEMMA Parts == Gone \in Bot /\ Quiet \in Spot /\ Unseen \in Seen /\ Nothing \in Passes
BY DEF Gone, Quiet, Unseen, Nothing, Bot, Spot, Places, Seen, Passes

LEMMA Absent == ~Gone.here
BY DEF Gone

\* Counters move within their bounds.
LEMMA Counting ==
    ASSUME Bounded, sentences' = sentences \/ (sentences < MaxSentences /\ sentences' = sentences + 1),
           faults' = faults \/ Fault, turns' = turns \/ Turn
    PROVE  Bounded'
BY Numbers DEF Bounded, Fault, Turn

\* Who leaves is gone, and nobody else changes.
LEMMA Leaves ==
    ASSUME Staged, NEW ks
    PROVE  /\ Without(ks) \in [Tracks -> Bot]
           /\ \A k \in Tracks : /\ k \in ks => Without(ks)[k] = Gone
                                /\ k \notin ks => Without(ks)[k] = bot[k]
BY Parts DEF Without, Staged

LEMMA Parting ==
    ASSUME Staged, NEW ks \in SUBSET Tracks, Leave(ks) \/ UNCHANGED room
    PROVE  parting' \subseteq Tracks /\ stuck' \subseteq Tracks
BY DEF Staged, Leave, room

LEMMA Stamps ==
    ASSUME NEW b \in Bot
    PROVE  Stamped(b) \in Bot /\ Stamped(b).here = b.here /\ Stamped(b).told = b.told
BY DEF Stamped, Bot

\* A bot as it is, but for what the room was told of it.
LEMMA Tells ==
    ASSUME NEW f \in [Tracks -> Bot], NEW k \in Tracks, NEW told \in Kinds \cup {None}
    PROVE  /\ [f EXCEPT ![k].told = told] \in [Tracks -> Bot]
           /\ [f EXCEPT ![k].told = told][k].told = told
           /\ [f EXCEPT ![k].told = told][k].here = f[k].here
           /\ \A j \in Tracks \ {k} : [f EXCEPT ![k].told = told][j] = f[j]
<1> DEFINE b == [f[k] EXCEPT !.told = told]
<1>1. b \in Bot /\ b.told = told /\ b.here = f[k].here  BY DEF Bot
<1>2. [f EXCEPT ![k].told = told] = [f EXCEPT ![k] = b]  OBVIOUS
<1> HIDE DEF b
<1> QED  BY <1>1, <1>2

-----------------------------------------------------------------------------
(* Steps of which no sentence and no join is part.                         *)

\* Some leave of those nobody speaks on, and nobody comes.
Thins ==
    /\ bot' \in [Tracks -> Bot]
    /\ \A k \in Tracks :
          /\ bot'[k].here => bot[k].here /\ bot'[k].told = bot[k].told
          /\ Publishing(k) => bot'[k].here = bot[k].here

LEMMA Thinned ==
    ASSUME Joining, Telling, Thins, UNCHANGED <<joins, line, overdue, unsaid>>,
           kind' = kind \/ \A k \in Tracks : kind'[k] = None
    PROVE  Joining' /\ Telling'
<1>1. Joining'  BY DEF Joining, Thins, Present
<1>2. Telling'
  <2> SUFFICES ASSUME NEW k \in Tracks
               PROVE  /\ bot'[k].here => bot'[k].told = kind'[k] \/ k \in unsaid' \/ kind'[k] = None
                      /\ line'[k].at # "idle" => kind'[k] \in {line'[k].kind, None}
                      /\ line'[k].at = "speaking" => bot'[k].here
    BY DEF Telling, Present, Publishing
  <2>1. line'[k].at = "speaking" => bot'[k].here  BY DEF Telling, Thins, Present, Publishing
  <2>2. CASE kind' = kind  BY <2>1, <2>2 DEF Telling, Thins, Present, Publishing
  <2>3. CASE kind'[k] = None  BY <2>1, <2>3
  <2> QED  BY <2>2, <2>3
<1> QED  BY <1>1, <1>2

LEMMA BotsStay == ASSUME Staged, bot' = bot PROVE Thins
BY DEF Staged, Thins

LEMMA BotsLeave == ASSUME Staged, NEW ks, \A k \in ks : ~Publishing(k), bot' = Without(ks) PROVE Thins
<1>1. ~Gone.here  BY DEF Gone
<1> QED  BY <1>1, Leaves DEF Thins


LEMMA BotMarked ==
    ASSUME Staged, NEW k \in Tracks, NEW b \in Bot, b.here = bot[k].here, b.told = bot[k].told,
           bot' = [bot EXCEPT ![k] = b]
    PROVE  Thins
BY DEF Staged, Thins

\* What steps of these leave as it is.
Resting == UNCHANGED <<joins, line, overdue, unsaid>>

LEMMA PeopleThin ==
    ASSUME TypeOK,
           \/ (\E l \in Dubbed : Translate(l)) \/ (\E k \in Tracks : Disconnected(k))
           \/ Resume \/ AskAgain \/ Forget \/ Choose
    PROVE  TypeOK' /\ Thins /\ Resting /\ kind' = kind
<1>1. Staged /\ Peopled /\ Bounded  BY Typed
<1>2. UNCHANGED <<bot, joins, kind, line, due, overdue, unsaid>>
  BY DEF Translate, Disconnected, Resume, AskAgain, Forget, Choose, ghosts
<1>3. Staged'
  <2>1. parting' \subseteq Tracks /\ stuck' \subseteq Tracks
    BY <1>1 DEF Staged, Translate, Disconnected, Resume, AskAgain, Forget, Choose, room
  <2> QED  BY <1>1, <1>2, <2>1 DEF Staged
<1>4. Peopled'
  <2>1. CASE \E l \in Dubbed : Translate(l)  BY <1>1, <2>1 DEF Translate, Peopled, people, watch
  <2>2. CASE Resume  BY <1>1, <2>2 DEF Resume, Peopled, watch
  <2>3. CASE AskAgain  BY <1>1, <2>3 DEF AskAgain, Peopled, people
  <2>4. CASE Forget  BY <1>1, <2>4, Parts DEF Forget, Peopled, people
  <2>5. CASE \E k \in Tracks : Disconnected(k)  BY <1>1, <2>5 DEF Disconnected, Peopled, people, watch
  <2>6. CASE Choose  BY <1>1, <2>6, Defined DEF Choose, Peopled, watch
  <2> QED  BY <2>1, <2>2, <2>3, <2>4, <2>5, <2>6
<1>5. Bounded'
  <2>1. /\ sentences' = sentences \/ (sentences < MaxSentences /\ sentences' = sentences + 1)
        /\ faults' = faults \/ Fault
        /\ turns' = turns \/ Turn
    BY DEF Translate, Disconnected, Resume, AskAgain, Forget, Choose, counts
  <2> QED  BY <1>1, <2>1, Counting
<1> QED  BY <1>1, <1>2, <1>3, <1>4, <1>5, TypedNext, BotsStay DEF Resting

\* A pass reads, or is given up.
LEMMA ReadingThins ==
    ASSUME TypeOK, ReconcileStarts \/ Recognize \/ ReadListen \/ Unreadable \/ LeftAlone
    PROVE  TypeOK' /\ Thins /\ Resting /\ kind' = kind
<1>1. Staged /\ Peopled /\ Bounded  BY Typed
<1>2. /\ UNCHANGED <<bot, joins, room, kind, line, due, overdue, unsaid, sentence, people, seen>>
      /\ faults' = faults \/ Fault
      /\ sentences' = sentences /\ turns' = turns
  BY DEF ReconcileStarts, Recognize, ReadListen, Unreadable, LeftAlone, ghosts, counts
<1>3. Staged'  BY <1>1, <1>2 DEF Staged, room
<1>4. bridge' \in {"unknown", "yes", "no"}
  BY <1>1 DEF ReconcileStarts, Recognize, ReadListen, Unreadable, LeftAlone, Peopled
<1>5. pass' \in Passes
  <2>1. CASE ReconcileStarts
    <3>1. Targets \subseteq Dubbed  BY DEF Targets
    <3>2. pass' = [at |-> "begun", on |-> Targets,
                   fed |-> {l \in Targets : \E v \in Voices : bot[<<l, v>>].fed},
                   listen |-> {}, empty |-> FALSE]
      BY <2>1 DEF ReconcileStarts, Nothing
    <3> QED  BY <3>1, <3>2 DEF Passes
  <2>2. CASE ReadListen
    <3>1. pass \in Passes /\ listen \subseteq Languages  BY <1>1 DEF Peopled
    <3>2. (listen = {} /\ ~registered) \in BOOLEAN  OBVIOUS
    <3>3. pass' = [pass EXCEPT !.at = "read", !.listen = listen, !.empty = (listen = {} /\ ~registered)]
      BY <2>2 DEF ReadListen
    <3> QED  BY <3>1, <3>2, <3>3 DEF Passes
  <2>3. CASE Recognize  BY <1>1, <2>3, Parts DEF Recognize, Peopled
  <2>4. CASE Unreadable \/ LeftAlone  BY <2>4, Parts DEF Unreadable, LeftAlone
  <2> QED  BY <2>1, <2>2, <2>3, <2>4
<1>6. Peopled'  BY <1>1, <1>2, <1>4, <1>5 DEF Peopled, people
<1>7. Bounded'  BY <1>1, <1>2, Counting
<1> QED  BY <1>1, <1>2, <1>3, <1>6, <1>7, TypedNext, BotsStay DEF Resting

LEMMA LeavingThins ==
    ASSUME TypeOK, (\E l \in Dubbed : Start(l)) \/ Sweep \/ Reconcile
    PROVE  TypeOK' /\ Thins /\ Resting /\ kind' = kind
<1>1. Staged /\ Peopled /\ Bounded  BY Typed
<1>2. UNCHANGED <<joins, kind, line, overdue, unsaid, counts, listen, registered, declared, paused, bridge>>
  BY DEF Start, Sweep, Reconcile, ghosts, people, watch
<1>3. Bounded'  BY <1>1, <1>2 DEF Bounded, counts
<1>4. CASE \E l \in Dubbed : Start(l)
  <2>1. PICK l \in Dubbed : Start(l)  BY <1>4
  <2>2. sentence' = sentence \ {l} /\ UNCHANGED <<seen, pass>>  BY <2>1 DEF Start, watch
  <2>3. CASE paused
    <3>1. UNCHANGED <<due, bot, parting, stuck>>  BY <2>1, <2>3 DEF Start, room
    <3> QED  BY <1>1, <1>2, <1>3, <2>2, <3>1, TypedNext, BotsStay DEF Staged, Peopled, Resting
  <2>4. CASE ~paused
    <3>1. PICK others \in SUBSET (Voices \ {Default}) :
             /\ due' = [due EXCEPT ![l] = others \cup {Default}]
             /\ bot' = Without(Idle({l} \X (Voices \ (others \cup {Default}))))
             /\ Leave(Idle({l} \X (Voices \ (others \cup {Default}))))
      BY <2>1, <2>4 DEF Start
    <3>8. Idle({l} \X (Voices \ (others \cup {Default}))) \subseteq Tracks  BY DEF Idle, Tracks
    <3>9. parting' \subseteq Tracks /\ stuck' \subseteq Tracks  BY <1>1, <3>1, <3>8, Parting
    <3>2. due' \in [Dubbed -> SUBSET Voices]  BY <1>1, <3>1, Defined DEF Staged
    <3>3. \A k \in Idle({l} \X (Voices \ (others \cup {Default}))) : ~Publishing(k)  BY DEF Idle
    <3>4. Thins  BY <1>1, <3>1, <3>3, BotsLeave
    <3>5. bot' \in [Tracks -> Bot]  BY <3>4 DEF Thins
    <3>6. Staged'  BY <1>1, <1>2, <3>2, <3>5, <3>9 DEF Staged
    <3>7. Peopled'  BY <1>1, <1>2, <2>2 DEF Peopled
    <3> QED  BY <1>2, <1>3, <3>4, <3>6, <3>7, TypedNext DEF Resting
  <2> QED  BY <2>3, <2>4
<1>5. CASE Sweep
  <2>1. /\ bot' = Without({k \in Tracks : Stale(k)}) /\ Leave({k \in Tracks : Stale(k)})
        /\ UNCHANGED <<due, sentence, seen, pass>>
    BY <1>5 DEF Sweep, watch
  <2>2. \A k \in {j \in Tracks : Stale(j)} : ~Publishing(k)  BY DEF Stale
  <2>3. Thins  BY <1>1, <2>1, <2>2, BotsLeave
  <2>6. parting' \subseteq Tracks /\ stuck' \subseteq Tracks  BY <1>1, <2>1, Parting
  <2>4. Staged'  BY <1>1, <1>2, <2>1, <2>3, <2>6 DEF Staged, Thins
  <2>5. Peopled'  BY <1>1, <1>2, <2>1 DEF Peopled
  <2> QED  BY <1>2, <1>3, <2>3, <2>4, <2>5, TypedNext DEF Resting
<1>6. CASE Reconcile
  <2> DEFINE away == Idle({l \in pass.on : Dead(l)} \X Voices)
             left == Without(away)
  <2>1. /\ bot' = IF declared # None /\ Changed
                  THEN [k \in Tracks |-> [left[k] EXCEPT !.fed = FALSE]] ELSE left
        /\ pass' = Nothing /\ UNCHANGED <<due, sentence>> /\ Leave(away)
        /\ seen' = IF declared = None THEN seen
                   ELSE [lang |-> declared, changed |-> seen.changed \/ Changed]
    BY <1>6 DEF Reconcile
  <2>2. \A k \in away : ~Publishing(k)  BY DEF Idle
  <2>11. away \subseteq Tracks
    <3>1. pass.on \subseteq Dubbed  BY <1>1 DEF Peopled, Passes
    <3> QED  BY <3>1 DEF Idle, Tracks
  <2>3. left \in [Tracks -> Bot] /\ \A k \in Tracks : (k \in away => left[k] = Gone) /\ (k \notin away => left[k] = bot[k])
    BY <1>1, Leaves
  <2> HIDE DEF away, left
  <2>4. \A k \in Tracks : [left[k] EXCEPT !.fed = FALSE] \in Bot
    BY <2>3 DEF Bot
  <2>5. \A k \in Tracks : [left[k] EXCEPT !.fed = FALSE].here = left[k].here /\ [left[k] EXCEPT !.fed = FALSE].told = left[k].told
    BY <2>3 DEF Bot
  <2>6. bot' \in [Tracks -> Bot] /\ \A k \in Tracks : bot'[k].here = left[k].here /\ bot'[k].told = left[k].told
    BY <2>1, <2>3, <2>4, <2>5
  <2>7. Thins  BY <2>2, <2>3, <2>6 DEF Thins, Gone
  <2>8. seen' \in Seen
    <3>1. seen \in Seen /\ declared \in Languages \cup {None}  BY <1>1 DEF Peopled
    <3>2. (seen.changed \/ Changed) \in BOOLEAN  BY <3>1 DEF Seen, Changed
    <3> QED  BY <2>1, <3>1, <3>2 DEF Seen
  <2>12. parting' \subseteq Tracks /\ stuck' \subseteq Tracks  BY <1>1, <2>1, <2>11, Parting
  <2>9. Staged'  BY <1>1, <1>2, <2>1, <2>6, <2>12 DEF Staged
  <2>10. Peopled'  BY <1>1, <1>2, <2>1, <2>8, Parts DEF Peopled
  <2> QED  BY <1>2, <1>3, <2>7, <2>9, <2>10, TypedNext DEF Resting
<1> QED  BY <1>4, <1>5, <1>6

LEMMA MarkingThins ==
    ASSUME TypeOK, NEW k \in Tracks, Age(k)
    PROVE  TypeOK' /\ Thins /\ Resting /\ kind' = kind
<1>1. Staged /\ Peopled /\ Bounded  BY Typed
<1>2. UNCHANGED <<joins, parting, stuck, kind, line, due, overdue, unsaid, sentence, people, watch, counts>>
  BY DEF Age, ghosts, room
<1> DEFINE b == [bot[k] EXCEPT !.idle = TRUE]
<1>3. b \in Bot /\ b.here = bot[k].here /\ b.told = bot[k].told
  <2>1. bot[k] \in Bot  BY <1>1 DEF Staged
  <2> QED  BY <2>1 DEF Bot
<1>4. bot' = [bot EXCEPT ![k] = b]  BY DEF Age
<1> HIDE DEF b
<1>5. Thins  BY <1>1, <1>3, <1>4, BotMarked
<1>6. Staged'  BY <1>1, <1>2, <1>5 DEF Staged, Thins
<1>7. Peopled' /\ Bounded'  BY <1>1, <1>2 DEF Peopled, Bounded, people, watch, counts
<1> QED  BY <1>2, <1>5, <1>6, <1>7, TypedNext DEF Resting

LEMMA PauseThins ==
    ASSUME TypeOK, Pause
    PROVE  TypeOK' /\ Thins /\ Resting /\ \A k \in Tracks : kind'[k] = None
<1>1. Staged /\ Peopled /\ Bounded  BY Typed
<1>2. /\ UNCHANGED <<joins, line, due, overdue, unsaid, sentence, listen, registered, declared, watch,
                      sentences, faults>>
      /\ Turn /\ paused' = TRUE /\ kind' = [k \in Tracks |-> None]
      /\ Leave(Idle(Tracks))
      /\ bot' = [k \in Tracks |-> IF k \in Idle(Tracks) THEN Gone ELSE [bot[k] EXCEPT !.marked = Present(k)]]
  BY DEF Pause
<1>3. \A k \in Tracks : /\ [bot[k] EXCEPT !.marked = Present(k)] \in Bot
                        /\ [bot[k] EXCEPT !.marked = Present(k)].here = bot[k].here
                        /\ [bot[k] EXCEPT !.marked = Present(k)].told = bot[k].told
  <2> SUFFICES ASSUME NEW k \in Tracks
               PROVE  /\ [bot[k] EXCEPT !.marked = Present(k)] \in Bot
                      /\ [bot[k] EXCEPT !.marked = Present(k)].here = bot[k].here
                      /\ [bot[k] EXCEPT !.marked = Present(k)].told = bot[k].told
    OBVIOUS
  <2>1. bot[k] \in Bot /\ Present(k) \in BOOLEAN  BY <1>1 DEF Staged, Bot, Present
  <2> QED  BY <2>1 DEF Bot
<1>4. \A k \in Idle(Tracks) : ~Publishing(k)  BY DEF Idle
<1>5. \A k \in Tracks : /\ k \in Idle(Tracks) => bot'[k] = Gone
                        /\ k \notin Idle(Tracks) => bot'[k] = [bot[k] EXCEPT !.marked = Present(k)]
  BY <1>2
<1>6. bot' \in [Tracks -> Bot]  BY <1>2, <1>3, Parts
<1>7. Thins
  <2> SUFFICES ASSUME NEW k \in Tracks
               PROVE  /\ bot'[k].here => bot[k].here /\ bot'[k].told = bot[k].told
                      /\ Publishing(k) => bot'[k].here = bot[k].here
    BY <1>6 DEF Thins
  <2>1. CASE k \in Idle(Tracks)
    <3>1. bot'[k] = Gone /\ ~Publishing(k)  BY <1>4, <1>5, <2>1
    <3> QED  BY <3>1, Absent
  <2>2. CASE k \notin Idle(Tracks)
    <3>1. bot'[k] = [bot[k] EXCEPT !.marked = Present(k)]  BY <1>5, <2>2
    <3>2. bot'[k].here = bot[k].here /\ bot'[k].told = bot[k].told  BY <1>3, <3>1
    <3> QED  BY <3>2
  <2> QED  BY <2>1, <2>2
<1>10. parting' \subseteq Tracks /\ stuck' \subseteq Tracks
  <2>1. Idle(Tracks) \subseteq Tracks  BY DEF Idle
  <2> QED  BY <1>1, <1>2, <2>1, Parting
<1>8. Staged'  BY <1>1, <1>2, <1>6, <1>10 DEF Staged
<1>9. Peopled' /\ Bounded'  BY <1>1, <1>2, Counting DEF Peopled, watch
<1> QED  BY <1>2, <1>7, <1>8, <1>9, TypedNext DEF Resting


-----------------------------------------------------------------------------
(* Steps of a sentence or a join: one track's.                             *)

Alone(k) ==
    \A j \in Tracks \ {k} :
        /\ joins'[j] = joins[j] /\ line'[j] = line[j] /\ kind'[j] = kind[j]
        /\ (j \in overdue' <=> j \in overdue) /\ (j \in unsaid' <=> j \in unsaid)
        /\ bot'[j].here => bot[j].here /\ bot'[j].told = bot[j].told
        /\ Publishing(j) => bot'[j].here = bot[j].here

LEMMA OneTrack ==
    ASSUME Joining, Telling, NEW k \in Tracks, Alone(k),
           k \notin overdue' /\ joins'[k] > 0 =>
               joins'[k] = 1 /\ line'[k].at = "joining" /\ ~bot'[k].here,
           k \notin overdue' /\ line'[k].at = "closing" => ~bot'[k].here,
           bot'[k].here => bot'[k].told = kind'[k] \/ k \in unsaid' \/ kind'[k] = None,
           line'[k].at # "idle" => kind'[k] \in {line'[k].kind, None},
           line'[k].at = "speaking" => bot'[k].here
    PROVE  Joining' /\ Telling'
<1>1. Joining'
  <2> SUFFICES ASSUME NEW j \in Tracks, j \notin overdue'
               PROVE  /\ joins'[j] > 0 => joins'[j] = 1 /\ line'[j].at = "joining" /\ ~bot'[j].here
                      /\ line'[j].at = "closing" => ~bot'[j].here
    BY DEF Joining, Present
  <2>1. CASE j = k  BY <2>1
  <2>2. CASE j # k
    <3>1. joins'[j] = joins[j] /\ line'[j] = line[j] /\ j \notin overdue /\ (bot'[j].here => bot[j].here)
      BY <2>2 DEF Alone
    <3> QED  BY <3>1 DEF Joining, Present
  <2> QED  BY <2>1, <2>2
<1>2. Telling'
  <2> SUFFICES ASSUME NEW j \in Tracks
               PROVE  /\ bot'[j].here => bot'[j].told = kind'[j] \/ j \in unsaid' \/ kind'[j] = None
                      /\ line'[j].at # "idle" => kind'[j] \in {line'[j].kind, None}
                      /\ line'[j].at = "speaking" => bot'[j].here
    BY DEF Telling, Present, Publishing
  <2>1. CASE j = k  BY <2>1
  <2>2. CASE j # k  BY <2>2 DEF Telling, Alone, Present, Publishing
  <2> QED  BY <2>1, <2>2
<1> QED  BY <1>1, <1>2

\* What a track is doing becomes l, or stays.
LEMMA Spots ==
    ASSUME Staged, NEW k \in Tracks, NEW at \in Places, NEW again \in BOOLEAN,
           line' = [line EXCEPT ![k].at = at, ![k].again = again]
    PROVE  /\ line' \in [Tracks -> Spot] /\ line'[k].at = at /\ line'[k].kind = line[k].kind
           /\ \A j \in Tracks \ {k} : line'[j] = line[j]
<1> DEFINE l == [line[k] EXCEPT !.at = at, !.again = again]
<1>1. line[k] \in Spot  BY DEF Staged
<1>2. l \in Spot /\ l.at = at /\ l.kind = line[k].kind  BY <1>1 DEF Spot
<1>3. line' = [line EXCEPT ![k] = l]  OBVIOUS
<1> HIDE DEF l
<1> QED  BY <1>2, <1>3 DEF Staged

LEMMA Shifts ==
    ASSUME Staged, NEW k \in Tracks, NEW at \in Places, line' = [line EXCEPT ![k].at = at]
    PROVE  /\ line' \in [Tracks -> Spot] /\ line'[k].at = at /\ line'[k].kind = line[k].kind
           /\ \A j \in Tracks \ {k} : line'[j] = line[j]
<1> DEFINE l == [line[k] EXCEPT !.at = at]
<1>1. line[k] \in Spot  BY DEF Staged
<1>2. l \in Spot /\ l.at = at /\ l.kind = line[k].kind  BY <1>1 DEF Spot
<1>3. line' = [line EXCEPT ![k] = l]  OBVIOUS
<1> HIDE DEF l
<1> QED  BY <1>2, <1>3 DEF Staged

\* A join ends: a sentence that waits for it goes on.
Waits(k, at) ==
    /\ line' \in [Tracks -> Spot] /\ \A j \in Tracks \ {k} : line'[j] = line[j]
    /\ line'[k].kind = line[k].kind
    /\ line'[k].at = IF line[k].at = "joining" THEN at ELSE line[k].at

LEMMA JoinOver ==
    ASSUME Staged, NEW k \in Tracks, NEW at \in Places,
           line' = IF line[k].at = "joining" THEN [line EXCEPT ![k].at = at] ELSE line
    PROVE  Waits(k, at)
<1>1. CASE line[k].at = "joining"
  <2>1. line' = [line EXCEPT ![k].at = at]  BY <1>1
  <2>2. /\ line' \in [Tracks -> Spot] /\ line'[k].at = at /\ line'[k].kind = line[k].kind
        /\ \A j \in Tracks \ {k} : line'[j] = line[j]
    BY <2>1, Shifts
  <2> QED  BY <1>1, <2>2 DEF Waits
<1>2. CASE line[k].at # "joining"
  <2>1. line' = line  BY <1>2
  <2> QED  BY <1>2, <2>1 DEF Waits, Staged
<1> QED  BY <1>1, <1>2

LEMMA JoinsTyped ==
    ASSUME Staged, NEW k \in Tracks,
           \/ joins[k] > 0 /\ joins' = [joins EXCEPT ![k] = @ - 1]
           \/ joins' = [joins EXCEPT ![k] = @ + 1]
    PROVE  joins' \in [Tracks -> Nat] /\ \A j \in Tracks \ {k} : joins'[j] = joins[j]
BY DEF Staged

\* The joins that outlast their sentence: those of k are as before, or over.
LEMMA Settles ==
    ASSUME Staged, NEW k \in Tracks, Settled(k)
    PROVE  /\ overdue' \subseteq Tracks
           /\ \A j \in Tracks \ {k} : j \in overdue' <=> j \in overdue
           /\ k \notin overdue' => k \notin overdue \/ (joins'[k] = 0 /\ line'[k].at # "closing")
BY DEF Staged, Settled

\* Asking for the bot of k sweeps others, and leaves k's where it is.
LEMMA Asks ==
    ASSUME Staged, NEW k \in Tracks, NEW f, f \in {Asked(k), Without(Swept(k))}
    PROVE  /\ f \in [Tracks -> Bot] /\ f[k].here = bot[k].here /\ f[k].told = bot[k].told
           /\ \A j \in Tracks \ {k} : f[j] = bot[j] \/ (f[j] = Gone /\ ~Publishing(j))
<1> DEFINE g == Without(Swept(k))
<1>1. g \in [Tracks -> Bot] /\ g[k] = bot[k]
      /\ \A j \in Tracks \ {k} : g[j] = bot[j] \/ (g[j] = Gone /\ ~Publishing(j))
  <2>1. \A j \in Tracks : (j \in Swept(k) => g[j] = Gone) /\ (j \notin Swept(k) => g[j] = bot[j])  BY Leaves
  <2>2. \A j \in Swept(k) : j # k /\ ~Publishing(j)  BY DEF Swept, Stale
  <2> QED  BY <2>1, <2>2, Leaves
<1>2. CASE f = g  BY <1>1, <1>2
<1>3. CASE f = Asked(k)
  <2> DEFINE b == IF Present(k) THEN Stamped(bot[k]) ELSE bot[k]
  <2>1. bot[k] \in Bot  BY DEF Staged
  <2>2. b \in Bot /\ b.here = bot[k].here /\ b.told = bot[k].told  BY <2>1, Stamps
  <2>3. f = [g EXCEPT ![k] = b]  BY <1>3 DEF Asked
  <2> HIDE DEF b, g
  <2> QED  BY <1>1, <2>2, <2>3
<1> QED  BY <1>2, <1>3

\* What Alone asks of the bots of the others.
LEMMA OthersAsked ==
    ASSUME NEW k \in Tracks, \A j \in Tracks \ {k} : bot'[j] = bot[j] \/ (bot'[j] = Gone /\ ~Publishing(j))
    PROVE  \A j \in Tracks \ {k} : /\ bot'[j].here => bot[j].here /\ bot'[j].told = bot[j].told
                                   /\ Publishing(j) => bot'[j].here = bot[j].here
BY Absent

LEMMA JoinedKept ==
    ASSUME TypeOK, Joining, Telling, NEW k \in Tracks, Joined(k)
    PROVE  TypeOK' /\ Joining' /\ Telling'
<1>1. Staged /\ Peopled /\ Bounded  BY Typed
<1>2. PICK heard \in BOOLEAN :
         /\ joins[k] > 0 /\ joins' = [joins EXCEPT ![k] = @ - 1]
         /\ heard \/ kind[k] # None
         /\ IF heard THEN UNCHANGED faults ELSE Fault
         /\ bot' = [bot EXCEPT ![k] = [Gone EXCEPT !.here = TRUE, !.fed = TRUE, !.told = IF heard THEN kind[k] ELSE None]]
         /\ unsaid' = IF heard THEN unsaid \ {k} ELSE unsaid \cup {k}
         /\ line' = IF line[k].at = "joining" THEN [line EXCEPT ![k].at = "speaking"] ELSE line
         /\ Settled(k)
         /\ UNCHANGED <<room, kind, due, sentence, people, watch, sentences, turns>>
  BY Zenon DEF Joined
<1> DEFINE b == [Gone EXCEPT !.here = TRUE, !.fed = TRUE, !.told = IF heard THEN kind[k] ELSE None]
<1>3. b \in Bot /\ b.here /\ b.told = IF heard THEN kind[k] ELSE None
  <2>1. kind[k] \in Kinds \cup {None}  BY <1>1 DEF Staged
  <2> QED  BY <2>1 DEF Bot, Gone
<1>4. bot' = [bot EXCEPT ![k] = b]  BY <1>2
<1> HIDE DEF b
<1>5. bot' \in [Tracks -> Bot] /\ bot'[k] = b /\ \A j \in Tracks \ {k} : bot'[j] = bot[j]
  BY <1>1, <1>3, <1>4 DEF Staged
<1>6. "speaking" \in Places  BY DEF Places
<1>7. Waits(k, "speaking")  BY <1>1, <1>2, <1>6, JoinOver
<1>8. joins' \in [Tracks -> Nat] /\ \A j \in Tracks \ {k} : joins'[j] = joins[j]  BY <1>1, <1>2, JoinsTyped
<1>9. joins'[k] = joins[k] - 1 /\ joins[k] \in Nat  BY <1>1, <1>2 DEF Staged
<1>10. /\ overdue' \subseteq Tracks
       /\ \A j \in Tracks \ {k} : j \in overdue' <=> j \in overdue
       /\ k \notin overdue' => k \notin overdue \/ (joins'[k] = 0 /\ line'[k].at # "closing")
  BY <1>1, <1>2, Settles
<1>11. TypeOK'
  <2>1. Staged'  BY <1>1, <1>2, <1>5, <1>7, <1>8, <1>10 DEF Staged, Waits, room
  <2>2. Peopled'  BY <1>1, <1>2 DEF Peopled, people, watch
  <2>3. Bounded'  BY <1>1, <1>2, Counting
  <2> QED  BY <2>1, <2>2, <2>3, TypedNext
<1>12. Alone(k)  BY <1>2, <1>5, <1>7, <1>8, <1>10 DEF Alone, Waits
<1>13. k \in overdue' \/ (joins'[k] = 0 /\ line'[k].at # "closing")
  <2> SUFFICES ASSUME k \notin overdue', k \notin overdue PROVE joins'[k] = 0 /\ line'[k].at # "closing"
    BY <1>10
  <2>1. joins[k] = 1 /\ line[k].at = "joining"  BY <1>2 DEF Joining
  <2> QED  BY <1>7, <1>9, <2>1 DEF Waits
<1>14. bot'[k].told = kind'[k] \/ k \in unsaid'  BY <1>2, <1>3, <1>5
<1>15. line'[k].at # "idle" => kind'[k] \in {line'[k].kind, None}
  BY <1>2, <1>7 DEF Telling, Publishing, Waits
<1> QED  BY <1>3, <1>5, <1>11, <1>12, <1>13, <1>14, <1>15, OneTrack

LEMMA JoinFailsKept ==
    ASSUME TypeOK, Joining, Telling, NEW k \in Tracks, JoinFails(k)
    PROVE  TypeOK' /\ Joining' /\ Telling'
<1>1. Staged /\ Peopled /\ Bounded  BY Typed
<1>2. /\ joins[k] > 0 /\ joins' = [joins EXCEPT ![k] = @ - 1] /\ Fault
      /\ parting' = parting /\ stuck' \in {stuck, stuck \cup {k}}
      /\ line' = IF line[k].at = "joining" THEN [line EXCEPT ![k].at = "broken"] ELSE line
      /\ Settled(k)
      /\ UNCHANGED <<bot, kind, due, unsaid, sentence, people, watch, sentences, turns>>
  BY DEF JoinFails, Left
<1>3. "broken" \in Places  BY DEF Places
<1>4. Waits(k, "broken")  BY <1>1, <1>2, <1>3, JoinOver
<1>5. joins' \in [Tracks -> Nat] /\ \A j \in Tracks \ {k} : joins'[j] = joins[j]  BY <1>1, <1>2, JoinsTyped
<1>6. joins'[k] = joins[k] - 1 /\ joins[k] \in Nat  BY <1>1, <1>2 DEF Staged
<1>7. /\ overdue' \subseteq Tracks
      /\ \A j \in Tracks \ {k} : j \in overdue' <=> j \in overdue
      /\ k \notin overdue' => k \notin overdue \/ (joins'[k] = 0 /\ line'[k].at # "closing")
  BY <1>1, <1>2, Settles
<1>8. TypeOK'
  <2>1. Staged'  BY <1>1, <1>2, <1>4, <1>5, <1>7 DEF Staged, Waits
  <2>2. Peopled'  BY <1>1, <1>2 DEF Peopled, people, watch
  <2>3. Bounded'  BY <1>1, <1>2, Counting
  <2> QED  BY <2>1, <2>2, <2>3, TypedNext
<1>9. Alone(k)  BY <1>2, <1>4, <1>5, <1>7 DEF Alone, Waits
<1>10. k \in overdue' \/ (joins'[k] = 0 /\ line'[k].at # "closing")
  <2> SUFFICES ASSUME k \notin overdue', k \notin overdue PROVE joins'[k] = 0 /\ line'[k].at # "closing"
    BY <1>7
  <2>1. joins[k] = 1 /\ line[k].at = "joining"  BY <1>2 DEF Joining
  <2> QED  BY <1>4, <1>6, <2>1 DEF Waits
<1>11. bot'[k].here => bot'[k].told = kind'[k] \/ k \in unsaid' \/ kind'[k] = None
  BY <1>2 DEF Telling, Present
<1>12. /\ line'[k].at # "idle" => kind'[k] \in {line'[k].kind, None}
       /\ line'[k].at = "speaking" => bot'[k].here
  BY <1>2, <1>4 DEF Telling, Publishing, Present, Waits
<1> QED  BY <1>8, <1>9, <1>10, <1>11, <1>12, OneTrack

LEMMA SliceKept ==
    ASSUME TypeOK, Joining, Telling, NEW k \in Tracks, Slice(k)
    PROVE  TypeOK' /\ Joining' /\ Telling'
<1>1. Staged /\ Peopled /\ Bounded  BY Typed
<1>2. /\ line[k].at = "speaking" /\ Present(k)
      /\ bot' = Asked(k) /\ Leave(Swept(k)) /\ line' = [line EXCEPT ![k].again = FALSE]
      /\ UNCHANGED <<joins, kind, due, overdue, unsaid, sentence, people, watch, counts>>
  BY DEF Slice, ghosts
<1>3. /\ bot' \in [Tracks -> Bot] /\ bot'[k].here = bot[k].here /\ bot'[k].told = bot[k].told
      /\ \A j \in Tracks \ {k} : bot'[j] = bot[j] \/ (bot'[j] = Gone /\ ~Publishing(j))
  BY <1>1, <1>2, Asks
<1>4. /\ line' \in [Tracks -> Spot] /\ line'[k].at = "speaking" /\ line'[k].kind = line[k].kind
      /\ \A j \in Tracks \ {k} : line'[j] = line[j]
  <2> DEFINE l == [line[k] EXCEPT !.again = FALSE]
  <2>1. line[k] \in Spot  BY <1>1 DEF Staged
  <2>2. l \in Spot /\ l.at = "speaking" /\ l.kind = line[k].kind  BY <1>2, <2>1 DEF Spot
  <2>3. line' = [line EXCEPT ![k] = l]  BY <1>2
  <2> HIDE DEF l
  <2> QED  BY <1>1, <2>2, <2>3 DEF Staged
<1>5. parting' \subseteq Tracks /\ stuck' \subseteq Tracks
  <2>1. Swept(k) \subseteq Tracks  BY DEF Swept
  <2> QED  BY <1>1, <1>2, <2>1, Parting
<1>6. TypeOK'
  <2>1. Staged'  BY <1>1, <1>2, <1>3, <1>4, <1>5 DEF Staged
  <2>2. Peopled' /\ Bounded'  BY <1>1, <1>2 DEF Peopled, Bounded, people, watch, counts
  <2> QED  BY <2>1, <2>2, TypedNext
<1>7. Alone(k)  BY <1>2, <1>3, <1>4, OthersAsked DEF Alone
<1>8. k \notin overdue' => joins'[k] = 0
  <2>1. joins[k] \in Nat  BY <1>1 DEF Staged
  <2> QED  BY <1>2, <2>1 DEF Joining
<1>9. bot'[k].here => bot'[k].told = kind'[k] \/ k \in unsaid' \/ kind'[k] = None
  BY <1>2, <1>3 DEF Telling, Present
<1>10. kind'[k] \in {line'[k].kind, None} /\ bot'[k].here
  BY <1>2, <1>3, <1>4 DEF Telling, Publishing, Present
<1> QED  BY <1>4, <1>6, <1>7, <1>8, <1>9, <1>10, OneTrack

LEMMA RefusedKept ==
    ASSUME TypeOK, Joining, Telling, NEW k \in Tracks, SliceFails(k)
    PROVE  TypeOK' /\ Joining' /\ Telling'
<1>1. Staged /\ Peopled /\ Bounded  BY Typed
<1>2. /\ line[k].at = "speaking" /\ Fault /\ bot' = Without({k}) /\ line' = [line EXCEPT ![k].at = "closing"]
      /\ UNCHANGED <<joins, parting, stuck, kind, due, overdue, unsaid, sentence, people, watch, sentences, turns>>
  BY DEF SliceFails, room
<1>3. /\ bot' \in [Tracks -> Bot] /\ ~bot'[k].here /\ \A j \in Tracks \ {k} : bot'[j] = bot[j]
  BY <1>1, <1>2, Leaves, Absent
<1>4. /\ line' \in [Tracks -> Spot] /\ line'[k].at = "closing" /\ line'[k].kind = line[k].kind
      /\ \A j \in Tracks \ {k} : line'[j] = line[j]
  <2>1. "closing" \in Places  BY DEF Places
  <2> QED  BY <1>1, <1>2, <2>1, Shifts
<1>5. TypeOK'
  <2>1. Staged'  BY <1>1, <1>2, <1>3, <1>4 DEF Staged
  <2>2. Peopled'  BY <1>1, <1>2 DEF Peopled, people, watch
  <2>3. Bounded'  BY <1>1, <1>2, Counting
  <2> QED  BY <2>1, <2>2, <2>3, TypedNext
<1>6. Alone(k)  BY <1>2, <1>3, <1>4 DEF Alone
<1>7. k \notin overdue' => joins'[k] = 0
  <2>1. joins[k] \in Nat  BY <1>1 DEF Staged
  <2> QED  BY <1>2, <2>1 DEF Joining
<1>8. kind'[k] \in {line'[k].kind, None}  BY <1>2, <1>4 DEF Telling, Publishing
<1> QED  BY <1>3, <1>4, <1>5, <1>6, <1>7, <1>8, OneTrack

\* The refused bot is closed: no other is there but one whose join outlasted its
\* sentence, which is then used; else one joins, or the sentence is given up.
LEMMA ClosedKept ==
    ASSUME TypeOK, Joining, Telling, NEW k \in Tracks, Closed(k)
    PROVE  TypeOK' /\ Joining' /\ Telling'
<1>1. Staged /\ Peopled /\ Bounded  BY Typed
<1>2. PICK out \in BOOLEAN :
      /\ line[k].at = "closing"
      /\ IF out THEN UNCHANGED <<stuck, faults>> ELSE Fault /\ stuck' = stuck \cup {k}
      /\ IF line[k].again
         THEN line' = [line EXCEPT ![k].at = "broken"] /\ UNCHANGED <<bot, joins, parting>>
         ELSE /\ line' = [line EXCEPT ![k].at = IF Present(k) THEN "speaking" ELSE "joining", ![k].again = TRUE]
              /\ joins' = IF Present(k) THEN joins ELSE [joins EXCEPT ![k] = @ + 1]
              /\ bot' = Asked(k) /\ parting' = parting \cup Swept(k)
      /\ Settled(k)
      /\ UNCHANGED <<kind, due, unsaid, sentence, people, watch, sentences, turns>>
  BY Zenon DEF Closed
<1>3. /\ bot' \in [Tracks -> Bot] /\ bot'[k].here = bot[k].here /\ bot'[k].told = bot[k].told
      /\ \A j \in Tracks \ {k} : bot'[j] = bot[j] \/ (bot'[j] = Gone /\ ~Publishing(j))
  <2>1. CASE bot' = bot  BY <1>1, <2>1 DEF Staged
  <2>2. CASE bot' = Asked(k)  BY <1>1, <2>2, Asks
  <2> QED  BY <1>2, <2>1, <2>2
<1>4. parting' \subseteq Tracks /\ stuck' \subseteq Tracks  BY <1>1, <1>2 DEF Staged, Swept
<1>5. PICK at \in {"broken", "speaking", "joining"} :
         /\ line' \in [Tracks -> Spot] /\ line'[k].at = at /\ line'[k].kind = line[k].kind
         /\ \A j \in Tracks \ {k} : line'[j] = line[j]
         /\ at = "speaking" => Present(k)
         /\ at = "joining" => ~Present(k) /\ joins' = [joins EXCEPT ![k] = @ + 1]
         /\ at # "joining" => joins' = joins
  <2>1. {"broken", "speaking", "joining"} \subseteq Places  BY DEF Places
  <2>2. CASE line[k].again
    <3>1. line' = [line EXCEPT ![k].at = "broken"] /\ joins' = joins  BY <1>2, <2>2
    <3>2. /\ line' \in [Tracks -> Spot] /\ line'[k].at = "broken" /\ line'[k].kind = line[k].kind
          /\ \A j \in Tracks \ {k} : line'[j] = line[j]
      BY <1>1, <2>1, <3>1, Shifts
    <3> QED  BY <3>1, <3>2
  <2>3. CASE ~line[k].again /\ Present(k)
    <3>1. line' = [line EXCEPT ![k].at = "speaking", ![k].again = TRUE] /\ joins' = joins  BY <1>2, <2>3
    <3>2. /\ line' \in [Tracks -> Spot] /\ line'[k].at = "speaking" /\ line'[k].kind = line[k].kind
          /\ \A j \in Tracks \ {k} : line'[j] = line[j]
      BY <1>1, <2>1, <3>1, Spots
    <3> QED  BY <2>3, <3>1, <3>2
  <2>4. CASE ~line[k].again /\ ~Present(k)
    <3>1. line' = [line EXCEPT ![k].at = "joining", ![k].again = TRUE] /\ joins' = [joins EXCEPT ![k] = @ + 1]
      BY <1>2, <2>4
    <3>2. /\ line' \in [Tracks -> Spot] /\ line'[k].at = "joining" /\ line'[k].kind = line[k].kind
          /\ \A j \in Tracks \ {k} : line'[j] = line[j]
      BY <1>1, <2>1, <3>1, Spots
    <3> QED  BY <2>4, <3>1, <3>2
  <2> QED  BY <2>2, <2>3, <2>4
<1>6. joins' \in [Tracks -> Nat] /\ \A j \in Tracks \ {k} : joins'[j] = joins[j]
  <2>1. CASE joins' = joins  BY <1>1, <2>1 DEF Staged
  <2>2. CASE joins' = [joins EXCEPT ![k] = @ + 1]  BY <1>1, <2>2, JoinsTyped
  <2> QED  BY <1>5, <2>1, <2>2
<1>7. /\ overdue' \subseteq Tracks
      /\ \A j \in Tracks \ {k} : j \in overdue' <=> j \in overdue
      /\ k \notin overdue' => k \notin overdue \/ (joins'[k] = 0 /\ line'[k].at # "closing")
  BY <1>1, <1>2, Settles
<1>8. TypeOK'
  <2>1. Staged'  BY <1>1, <1>2, <1>3, <1>4, <1>5, <1>6, <1>7 DEF Staged
  <2>2. Peopled'  BY <1>1, <1>2 DEF Peopled, people, watch
  <2>3. faults' = faults \/ Fault  BY <1>2
  <2>4. Bounded'  BY <1>1, <1>2, <2>3, Counting
  <2> QED  BY <2>1, <2>2, <2>4, TypedNext
<1>9. Alone(k)  BY <1>2, <1>3, <1>5, <1>6, <1>7, OthersAsked DEF Alone
<1>10. k \notin overdue' /\ joins'[k] > 0 =>
          joins'[k] = 1 /\ line'[k].at = "joining" /\ ~bot'[k].here
  <2> SUFFICES ASSUME k \notin overdue', joins'[k] > 0
               PROVE  joins'[k] = 1 /\ line'[k].at = "joining" /\ ~bot'[k].here
    OBVIOUS
  <2>1. k \notin overdue /\ joins[k] \in Nat  BY <1>1, <1>7 DEF Staged
  <2>2. joins[k] = 0  BY <1>2, <2>1 DEF Joining
  <2>3. at = "joining"  BY <1>5, <2>2
  <2>4. joins'[k] = joins[k] + 1  BY <1>1, <1>5, <2>3 DEF Staged
  <2> QED  BY <1>3, <1>5, <2>2, <2>3, <2>4 DEF Present
<1>11. line'[k].at # "closing"  BY <1>5
<1>12. bot'[k].here => bot'[k].told = kind'[k] \/ k \in unsaid' \/ kind'[k] = None
  BY <1>2, <1>3 DEF Telling, Present
<1>13. /\ kind'[k] \in {line'[k].kind, None}
       /\ line'[k].at = "speaking" => bot'[k].here
  BY <1>2, <1>3, <1>5 DEF Telling, Publishing, Present
<1> QED  BY <1>8, <1>9, <1>10, <1>11, <1>12, <1>13, OneTrack

LEMMA EndsKept ==
    ASSUME TypeOK, Joining, Telling, NEW k \in Tracks, Ended(k) \/ EndsOverdue(k) \/ Cut(k)
    PROVE  TypeOK' /\ Joining' /\ Telling'
<1>1. Staged /\ Peopled /\ Bounded  BY Typed
<1>2. /\ line' = [line EXCEPT ![k] = Quiet] /\ due' = [due EXCEPT ![k[1]] = @ \ {k[2]}]
      /\ UNCHANGED <<bot, parting, kind, unsaid, sentence, people, watch, sentences, turns>>
      /\ stuck' \in {stuck, stuck \cup {k}}
      /\ faults' = faults \/ Fault
  BY DEF Ended, EndsOverdue, Cut, Left, Release, ghosts, counts, room
<1>3. /\ line' \in [Tracks -> Spot] /\ line'[k].at = "idle" /\ \A j \in Tracks \ {k} : line'[j] = line[j]
  BY <1>1, <1>2, Parts DEF Staged, Quiet
<1>4. /\ joins' \in [Tracks -> Nat] /\ \A j \in Tracks \ {k} : joins'[j] = joins[j]
      /\ overdue' \subseteq Tracks /\ \A j \in Tracks \ {k} : j \in overdue' <=> j \in overdue
      /\ k \in overdue' \/ joins'[k] = 0
  <2>1. joins[k] \in Nat  BY <1>1 DEF Staged
  <2>2. CASE Ended(k)
    <3>1. joins' = joins /\ overdue' = overdue /\ line[k].at # "joining"  BY <2>2 DEF Ended, ghosts
    <3> QED  BY <1>1, <2>1, <3>1 DEF Staged, Joining
  <2>3. CASE EndsOverdue(k)
    <3>1. joins' = joins /\ overdue' = overdue \cup {k}  BY <2>3 DEF EndsOverdue
    <3> QED  BY <1>1, <3>1 DEF Staged
  <2>4. CASE Cut(k) /\ line[k].at = "joining"
    <3>1. joins[k] > 0 /\ joins' = [joins EXCEPT ![k] = @ - 1] /\ Settled(k)  BY <2>4 DEF Cut
    <3>2. /\ overdue' \subseteq Tracks /\ \A j \in Tracks \ {k} : j \in overdue' <=> j \in overdue
          /\ k \notin overdue' => k \notin overdue \/ (joins'[k] = 0 /\ line'[k].at # "closing")
      BY <1>1, <3>1, Settles
    <3>3. joins'[k] = joins[k] - 1  BY <1>1, <3>1 DEF Staged
    <3>4. k \notin overdue => joins[k] = 1  BY <3>1 DEF Joining
    <3>5. joins' \in [Tracks -> Nat] /\ \A j \in Tracks \ {k} : joins'[j] = joins[j]
      BY <1>1, <3>1, JoinsTyped
    <3> QED  BY <2>1, <3>2, <3>3, <3>4, <3>5
  <2>5. CASE Cut(k) /\ line[k].at = "closing"
    <3>1. joins' = joins /\ Settled(k)  BY <2>5 DEF Cut
    <3>2. /\ overdue' \subseteq Tracks /\ \A j \in Tracks \ {k} : j \in overdue' <=> j \in overdue
          /\ k \notin overdue' => k \notin overdue \/ (joins'[k] = 0 /\ line'[k].at # "closing")
      BY <1>1, <3>1, Settles
    <3> QED  BY <1>1, <2>1, <2>5, <3>1, <3>2 DEF Staged, Joining
  <2> QED  BY <2>2, <2>3, <2>4, <2>5 DEF Cut
<1>5. TypeOK'
  <2>1. due' \in [Dubbed -> SUBSET Voices]  BY <1>1, <1>2 DEF Staged
  <2>2. Staged'  BY <1>1, <1>2, <1>3, <1>4, <2>1 DEF Staged
  <2>3. Peopled'  BY <1>1, <1>2 DEF Peopled, people, watch
  <2>4. Bounded'  BY <1>1, <1>2, Counting
  <2> QED  BY <2>2, <2>3, <2>4, TypedNext
<1>6. Alone(k)  BY <1>2, <1>3, <1>4 DEF Alone
<1>7. bot'[k].here => bot'[k].told = kind'[k] \/ k \in unsaid' \/ kind'[k] = None
  BY <1>2 DEF Telling, Present
<1> QED  BY <1>3, <1>4, <1>5, <1>6, <1>7, OneTrack

\* A sentence begins on its track, and the sweep runs before it.
LEMMA SayKept ==
    ASSUME TypeOK, Joining, Telling, NEW l \in Dubbed, Say(l)
    PROVE  TypeOK' /\ Joining' /\ Telling'
<1>1. Staged /\ Peopled /\ Bounded  BY Typed
<1>2. PICK v \in NextVoice(l), whole \in BOOLEAN, is \in Kinds, heard \in BOOLEAN :
    LET k == <<l, v>>
        fails == ~heard /\ Present(k) /\ kind[k] # is
        used == IF whole THEN Asked(k) ELSE Without(Swept(k))
    IN
    /\ \A u \in Voices : ~Publishing(<<l, u>>)
    /\ heard \/ fails
    /\ IF fails THEN Fault ELSE UNCHANGED faults
    /\ kind' = [kind EXCEPT ![k] = is]
    /\ bot' = [used EXCEPT ![k].told = Announced(k, is, IF heard THEN is ELSE @)]
    /\ Leave(Swept(k))
    /\ unsaid' = IF fails THEN unsaid \cup {k} ELSE IF kind[k] # is THEN unsaid \ {k} ELSE unsaid
    /\ joins' = IF Present(k) THEN joins ELSE [joins EXCEPT ![k] = @ + 1]
    /\ line' = [line EXCEPT ![k] = [at |-> IF Present(k) THEN "speaking" ELSE "joining",
                                    whole |-> whole, again |-> FALSE, kind |-> is]]
    /\ UNCHANGED <<due, overdue, sentence, people, watch, sentences, turns>>
  BY Zenon DEF Say
<1> DEFINE k == <<l, v>>
           fails == ~heard /\ Present(k) /\ kind[k] # is
           used == IF whole THEN Asked(k) ELSE Without(Swept(k))
           told == Announced(k, is, IF heard THEN is ELSE used[k].told)
           spot == [at |-> IF Present(k) THEN "speaking" ELSE "joining",
                    whole |-> whole, again |-> FALSE, kind |-> is]
<1>3. v \in Voices  BY <1>1, Defined DEF NextVoice, Staged
<1>4. k \in Tracks  BY <1>3 DEF Tracks
<1>5. /\ ~Publishing(k) /\ (heard \/ fails)
      /\ faults' = faults \/ Fault
      /\ kind' = [kind EXCEPT ![k] = is]
      /\ unsaid' = IF fails THEN unsaid \cup {k} ELSE IF kind[k] # is THEN unsaid \ {k} ELSE unsaid
      /\ Leave(Swept(k))
      /\ joins' = IF Present(k) THEN joins ELSE [joins EXCEPT ![k] = @ + 1]
      /\ line' = [line EXCEPT ![k] = spot]
      /\ UNCHANGED <<due, overdue, sentence, people, watch, sentences, turns>>
  BY <1>2, <1>3
<1>6. bot' = [used EXCEPT ![k].told = told]  BY <1>2
<1>7. parting' \subseteq Tracks /\ stuck' \subseteq Tracks
  <2>1. Swept(k) \subseteq Tracks  BY DEF Swept
  <2> QED  BY <1>1, <1>5, <2>1, Parting
<1>8. bot[k] \in Bot  BY <1>1, <1>4 DEF Staged
<1>9. /\ used \in [Tracks -> Bot] /\ used[k].here = bot[k].here /\ used[k].told = bot[k].told
      /\ \A j \in Tracks \ {k} : used[j] = bot[j] \/ (used[j] = Gone /\ ~Publishing(j))
  <2>1. used \in {Asked(k), Without(Swept(k))}  OBVIOUS
  <2> HIDE DEF used, k
  <2> QED  BY <1>1, <1>4, <2>1, Asks
<1> HIDE DEF used, k
<1>10. kind[k] \in Kinds \cup {None} /\ line \in [Tracks -> Spot] /\ joins \in [Tracks -> Nat]  BY <1>1, <1>4 DEF Staged
<1>11. told \in Kinds \cup {None}  BY <1>8, <1>9 DEF Announced, Bot
<1>12. told = IF kind[k] # is /\ Present(k) /\ heard THEN is ELSE bot[k].told  BY <1>9 DEF Announced
<1> HIDE DEF told
<1>13. /\ bot' \in [Tracks -> Bot] /\ bot'[k].told = told /\ bot'[k].here = bot[k].here
       /\ \A j \in Tracks \ {k} : bot'[j] = used[j]
  BY <1>4, <1>6, <1>9, <1>11, Tells
<1>14. spot \in Spot /\ spot.kind = is /\ spot.at = IF Present(k) THEN "speaking" ELSE "joining"
  BY DEF Spot, Places
<1> HIDE DEF spot
<1>15. line' \in [Tracks -> Spot] /\ line'[k] = spot /\ \A j \in Tracks \ {k} : line'[j] = line[j]
  BY <1>4, <1>5, <1>10, <1>14
<1>16. kind' \in [Tracks -> Kinds \cup {None}] /\ kind'[k] = is /\ \A j \in Tracks \ {k} : kind'[j] = kind[j]
  BY <1>1, <1>4, <1>5 DEF Staged
<1>17. /\ joins' \in [Tracks -> Nat] /\ \A j \in Tracks \ {k} : joins'[j] = joins[j]
       /\ joins'[k] = IF Present(k) THEN joins[k] ELSE joins[k] + 1
  BY <1>4, <1>5, <1>10
<1>18. Staged'  BY <1>1, <1>4, <1>5, <1>7, <1>13, <1>15, <1>16, <1>17 DEF Staged
<1>19. Peopled'  BY <1>1, <1>5 DEF Peopled, people, watch
<1>20. Bounded'  BY <1>1, <1>5, Counting
<1>21. TypeOK'  BY <1>18, <1>19, <1>20, TypedNext
<1>22. Alone(k)
  <2>1. \A j \in Tracks \ {k} : bot'[j] = bot[j] \/ (bot'[j] = Gone /\ ~Publishing(j))  BY <1>9, <1>13
  <2>2. \A j \in Tracks \ {k} : /\ bot'[j].here => bot[j].here /\ bot'[j].told = bot[j].told
                                /\ Publishing(j) => bot'[j].here = bot[j].here
    BY <1>4, <2>1, OthersAsked
  <2>3. \A j \in Tracks \ {k} : (j \in overdue' <=> j \in overdue) /\ (j \in unsaid' <=> j \in unsaid)
    BY <1>5
  <2>4. \A j \in Tracks \ {k} : joins'[j] = joins[j] /\ line'[j] = line[j] /\ kind'[j] = kind[j]
    BY <1>15, <1>16, <1>17
  <2> HIDE DEF k, fails
  <2> SUFFICES ASSUME NEW j \in Tracks \ {k}
               PROVE  /\ joins'[j] = joins[j] /\ line'[j] = line[j] /\ kind'[j] = kind[j]
                      /\ (j \in overdue' <=> j \in overdue) /\ (j \in unsaid' <=> j \in unsaid)
                      /\ bot'[j].here => bot[j].here /\ bot'[j].told = bot[j].told
                      /\ Publishing(j) => bot'[j].here = bot[j].here
    BY DEF Alone
  <2> QED  BY <2>2, <2>3, <2>4
<1>23. k \notin overdue' /\ joins'[k] > 0 => joins'[k] = 1 /\ line'[k].at = "joining" /\ ~bot'[k].here
  <2> SUFFICES ASSUME k \notin overdue', joins'[k] > 0
               PROVE  joins'[k] = 1 /\ line'[k].at = "joining" /\ ~bot'[k].here
    OBVIOUS
  <2>1. joins[k] \in Nat  BY <1>4, <1>10
  <2>2. joins[k] = 0  BY <1>4, <1>5, <2>1 DEF Joining, Publishing
  <2>3. ~Present(k)  BY <1>17, <2>2
  <2> QED  BY <1>13, <1>14, <1>15, <1>17, <2>2, <2>3 DEF Present
<1>24. bot'[k].here => bot'[k].told = kind'[k] \/ k \in unsaid' \/ kind'[k] = None
  <2> SUFFICES ASSUME bot'[k].here PROVE bot'[k].told = is \/ k \in unsaid'  BY <1>16
  <2>1. Present(k)  BY <1>13 DEF Present
  <2>2. CASE kind[k] = is
    <3>1. is # None  BY Numbers
    <3>2. bot[k].told = is \/ k \in unsaid  BY <1>4, <2>1, <2>2, <3>1 DEF Telling
    <3>3. told = bot[k].told /\ unsaid' = unsaid  BY <1>5, <1>12, <2>2
    <3> QED  BY <1>13, <3>2, <3>3
  <2>3. CASE kind[k] # is /\ heard  BY <1>12, <1>13, <2>1, <2>3
  <2>4. CASE kind[k] # is /\ ~heard  BY <1>5, <2>1, <2>4
  <2> QED  BY <2>2, <2>3, <2>4
<1>25. kind'[k] \in {line'[k].kind, None}  BY <1>14, <1>15, <1>16
<1>26. line'[k].at = "speaking" => bot'[k].here  BY <1>13, <1>14, <1>15 DEF Present
<1>27. line'[k].at # "closing"  BY <1>14, <1>15
<1> QED  BY <1>4, <1>21, <1>22, <1>23, <1>24, <1>25, <1>26, <1>27, OneTrack

-----------------------------------------------------------------------------
(* The inductive invariant, and what follows from it.                      *)

LEMMA InitInv == Init => IInv
<1> SUFFICES ASSUME Init PROVE IInv  OBVIOUS
<1>1. /\ bot = [k \in Tracks |-> Gone] /\ joins = [k \in Tracks |-> 0]
      /\ kind = [k \in Tracks |-> None] /\ line = [k \in Tracks |-> Quiet]
      /\ due = [l \in Dubbed |-> {}] /\ overdue = {} /\ unsaid = {}
      /\ parting = {} /\ stuck = {}
  BY DEF Init
<1>2. PICK sc \in Scenes : listen = sc.listen /\ registered = sc.registered /\ declared = sc.declared
  BY DEF Init
<1>3. sc.listen \subseteq Languages /\ sc.registered \in BOOLEAN /\ sc.declared \in Languages \cup {None}
  BY Defined
<1>4. Staged  BY <1>1, Parts DEF Staged
<1>5. Peopled  BY <1>2, <1>3, Parts DEF Init, Peopled
<1>6. Bounded  BY Numbers DEF Init, Bounded
<1>7. Joining  BY <1>1 DEF Joining, Quiet
<1>8. \A k \in Tracks : ~Present(k) /\ line[k].at = "idle"  BY <1>1 DEF Present, Gone, Quiet
<1>9. Telling  BY <1>8 DEF Telling, Publishing
<1> QED  BY <1>4, <1>5, <1>6, <1>7, <1>9, TypedNow DEF IInv

LEMMA Steps == ASSUME IInv, Next PROVE IInv'
<1>1. TypeOK /\ Joining /\ Telling  BY DEF IInv
<1>2. CASE \/ \E l \in Dubbed : Translate(l) \/ Start(l)
           \/ \E k \in Tracks : Age(k) \/ Disconnected(k)
           \/ Sweep \/ Pause \/ Resume \/ Watching \/ AskAgain \/ Forget \/ Choose
  <2>1. TypeOK' /\ Thins /\ Resting /\ (kind' = kind \/ \A k \in Tracks : kind'[k] = None)
    BY <1>1, <1>2, PeopleThin, ReadingThins, LeavingThins, MarkingThins, PauseThins DEF Watching
  <2>2. Joining' /\ Telling'  BY <1>1, <2>1, Thinned DEF Resting
  <2> QED  BY <2>1, <2>2 DEF IInv
<1>3. CASE \E l \in Dubbed : Say(l)  BY <1>1, <1>3, SayKept DEF IInv
<1>4. CASE \E k \in Tracks : Joined(k) \/ JoinFails(k)  BY <1>1, <1>4, JoinedKept, JoinFailsKept DEF IInv
<1>5. CASE \E k \in Tracks : Slice(k) \/ SliceFails(k) \/ Closed(k)
  BY <1>1, <1>5, SliceKept, RefusedKept, ClosedKept DEF IInv
<1>6. CASE \E k \in Tracks : Ended(k) \/ EndsOverdue(k) \/ Cut(k)  BY <1>1, <1>6, EndsKept DEF IInv
<1> QED  BY <1>2, <1>3, <1>4, <1>5, <1>6 DEF Next, Handle, Ends

LEMMA Stutters == ASSUME IInv, UNCHANGED vars PROVE IInv'
<1>1. /\ bot' = bot /\ joins' = joins /\ kind' = kind /\ line' = line /\ due' = due
      /\ overdue' = overdue /\ unsaid' = unsaid /\ parting' = parting /\ stuck' = stuck
      /\ sentence' = sentence /\ listen' = listen /\ registered' = registered
      /\ declared' = declared /\ paused' = paused
      /\ bridge' = bridge /\ seen' = seen /\ pass' = pass
      /\ sentences' = sentences /\ faults' = faults /\ turns' = turns
  BY DEF vars, room, ghosts, people, watch, counts
<1>2. TypeOK'  BY <1>1 DEF IInv, TypeOK
<1>3. Joining' /\ Telling'  BY <1>1 DEF IInv, Joining, Telling, Present, Publishing
<1> QED  BY <1>2, <1>3 DEF IInv

LEMMA Invariance == Spec => []IInv
<1>1. IInv /\ [Next]_vars => IInv'  BY Steps, Stutters
<1> QED  BY InitInv, <1>1, PTL DEF Spec

\* Every variable of the interpreter tracks has its type.
THEOREM TypeCorrect == Spec => []TypeOK
<1>1. IInv => TypeOK  BY DEF IInv
<1> QED  BY Invariance, <1>1, PTL

\* Whatever leaves, fails or is replaced, a track has one participant in use: there,
\* joining, or being closed for the one that replaces it, unless a join outlasts the
\* sentence it was for (tts_worker/livekit_publisher.py:261, 380, 616).
THEOREM NobodyIsThrownOut == Spec => []OneParticipant
<1>1. IInv => OneParticipant
  <2> SUFFICES ASSUME IInv, NEW k \in Tracks \ overdue
               PROVE  joins[k] + (IF Present(k) THEN 1 ELSE 0)
                               + (IF line[k].at = "closing" THEN 1 ELSE 0) <= 1
    BY DEF OneParticipant
  <2>1. joins[k] \in Nat  BY Typed DEF IInv, Staged
  <2>2. /\ joins[k] > 0 => joins[k] = 1 /\ ~Present(k) /\ line[k].at # "closing"
        /\ line[k].at = "closing" => ~Present(k)
    BY DEF IInv, Joining
  <2> QED  BY <2>1, <2>2
<1> QED  BY Invariance, <1>1, PTL

\* A track that speaks says whose voice it speaks in, unless the room refused to be told
\* or was paused in the middle of the sentence (tts_worker/livekit_publisher.py:429).
THEOREM VoiceIsTold == Spec => []TellsWhoseVoice
<1>1. IInv => TellsWhoseVoice
  <2> SUFFICES ASSUME IInv, NEW k \in Tracks, line[k].at = "speaking"
               PROVE  bot[k].told = line[k].kind \/ k \in unsaid \/ kind[k] = None
    BY DEF TellsWhoseVoice
  <2>1. kind[k] \in {line[k].kind, None} /\ Present(k)  BY DEF IInv, Telling, Publishing
  <2>2. bot[k].told = kind[k] \/ k \in unsaid \/ kind[k] = None  BY <2>1 DEF IInv, Telling
  <2> QED  BY <2>1, <2>2
<1> QED  BY Invariance, <1>1, PTL


-----------------------------------------------------------------------------
(***************************************************************************)
(* RoomLease, for any replicas, any number of failures, and any lease of   *)
(* three sweeps or more.                                                   *)
(*   A bot in the room belongs to the replica whose lease runs, and while  *)
(* no two renewals in a row fail a lease has lost one sweep for the last   *)
(* renewal and one for the next: so none is claimed, and no second bot     *)
(* dialled, while its holder is up.                                        *)
(***************************************************************************)
CONSTANTS
    Replicas, Lease, Grace, MaxBackoff, MaxEvents, MaxFailed, MaxMissed, Nobody
VARIABLES
    owner, lease, holder, humans, ended, up, held, deferred, knowsEnd, backoff, alone,
    work, by, event, sweep, idle, ending, unclaiming, leaving, cleaned, lost, late,
    starved, blind, events, failed, misses

Room == INSTANCE RoomLease WITH bot <- holder, faults <- failed, MaxFaults <- MaxFailed

Works == {"free", "claim", "extend", "dial", "unclaim", "leave", "left"}
Sweeps == {"asleep", "due", "yield", "probe", "release", "queue", "lock"}

RoomTyped ==
    /\ owner \in Replicas \cup {Nobody} /\ lease \in Nat
    /\ late \in [Replicas -> BOOLEAN] /\ starved \in BOOLEAN
    /\ up \in [Replicas -> BOOLEAN] /\ held \in [Replicas -> BOOLEAN]
    /\ idle \in [Replicas -> BOOLEAN]
    /\ ending \in [Replicas -> BOOLEAN] /\ unclaiming \in [Replicas -> BOOLEAN]
    /\ leaving \in [Replicas -> BOOLEAN]
    /\ work \in [Replicas -> Works] /\ by \in [Replicas -> {"none", "event", "sweep", "idle"}]
    /\ sweep \in [Replicas -> Sweeps]
    /\ event \in [Replicas -> {"none", "heard", "waiting"}]
    /\ lost \in BOOLEAN /\ ended \in BOOLEAN /\ holder \in Replicas \cup {Nobody}

\* A process that is down does nothing.
Off == \A p \in Replicas : ~up[p] =>
    ~held[p] /\ work[p] = "free" /\ by[p] = "none" /\ event[p] = "none" /\ sweep[p] = "asleep" /\ ~idle[p]

\* The sweep has the lock for a room that it takes back or yields.
Locking == \A p \in Replicas :
    /\ work[p] = "free" <=> by[p] = "none"
    /\ by[p] = "sweep" => sweep[p] \in {"lock", "yield"}

\* The lease has lost no more than the renewal that failed, and the one that is due.
Covered(p) ==
    \/ lease >= Lease
    \/ (sweep[p] = "due" \/ late[p]) /\ lease + 1 >= Lease
    \/ sweep[p] = "due" /\ late[p] /\ lease + 2 >= Lease

Undisturbed == ~ended /\ ~lost /\ ~starved

\* The replica that holds the room, or dials it, has its lease, and nothing under
\* way gives either up.
Own(p) ==
    /\ ~ending[p] /\ ~unclaiming[p] /\ ~leaving[p]
    /\ held[p] => holder = p /\ owner = p /\ Covered(p)
    /\ work[p] = "dial" => owner = p /\ lease = Lease /\ ~late[p]
    /\ work[p] \in {"dial", "unclaim", "leave", "left"} => ~held[p]
    /\ sweep[p] \notin {"yield", "release", "queue"}

Owned == Undisturbed => \A p \in Replicas : Own(p)

RIndInv == RoomTyped /\ Off /\ Locking /\ Owned

LEMMA LeaseBounds ==
    ASSUME Room!LeaseConstants
    PROVE  Nobody \notin Replicas /\ Lease \in Nat \ {0}
OBVIOUS

LEMMA InitOwned ==
    ASSUME Room!LeaseConstants
    PROVE  Room!Init => RIndInv
  <1>. SUFFICES ASSUME Room!Init PROVE RIndInv
    OBVIOUS
  <1>1. RoomTyped
    <2>1. /\ Room!None \in [Replicas -> BOOLEAN] /\ [p \in Replicas |-> TRUE] \in [Replicas -> BOOLEAN]
          /\ [p \in Replicas |-> "free"] \in [Replicas -> Works]
          /\ [p \in Replicas |-> "asleep"] \in [Replicas -> Sweeps]
          /\ [p \in Replicas |-> "none"] \in [Replicas -> {"none", "heard", "waiting"}]
      BY DEF Room!None, Works, Sweeps
    <2>. QED
      BY <2>1 DEF Room!Init, RoomTyped
  <1>2. Off /\ Locking
    BY DEF Room!Init, Off, Locking, Room!None
  <1>3. Owned
    BY DEF Room!Init, Owned, Own, Room!None
  <1>. QED
    BY <1>1, <1>2, <1>3 DEF RIndInv

LEMMA ReleaseKeeps ==
    ASSUME NEW p \in Replicas, RoomTyped, Room!Release(p)
    PROVE  /\ owner' \in Replicas \cup {Nobody} /\ lease' \in Nat
           /\ owner # p => UNCHANGED Room!redisVars
BY DEF Room!Release, RoomTyped, Room!redisVars

LEMMA FaultKeeps ==
    ASSUME Room!Fault
    PROVE  UNCHANGED <<lost, late, starved>>
BY DEF Room!Fault

\* The meeting and the connection.
LEMMA MeetingOwned ==
    ASSUME Room!LeaseConstants,
           RIndInv, (\E missed \in SUBSET Replicas : Room!HumansJoin(missed) \/ Room!MeetingEnds(missed))
                    \/ Room!HumansLeave \/ Room!ConnectionLost
    PROVE  RIndInv'
  <1>. USE DEF Room!redisVars, Room!roomVars, Room!stateVars, Room!lockVars, Room!taskVars, Room!endVars, Room!counts
  <1>1. ASSUME NEW missed \in SUBSET Replicas, Room!HumansJoin(missed) PROVE RIndInv'
    <2>1. UNCHANGED <<owner, lease, holder, ended, up, held, work, by, sweep, idle, ending, unclaiming, leaving, lost, late, starved>>
      BY <1>1 DEF Room!HumansJoin
    <2>2. /\ event' \in [Replicas -> {"none", "heard", "waiting"}]
          /\ \A p \in Replicas : ~up[p] => event'[p] = event[p]
      BY <1>1 DEF Room!HumansJoin, RIndInv, RoomTyped
    <2>3. RoomTyped' /\ Off' /\ Locking'
      BY <2>1, <2>2 DEF RIndInv, RoomTyped, Off, Locking
    <2>4. Owned'
      BY <2>1 DEF RIndInv, Owned, Own, Undisturbed, Covered
    <2>. QED
      BY <2>3, <2>4 DEF RIndInv
  <1>2. ASSUME NEW missed \in SUBSET Replicas, Room!MeetingEnds(missed) PROVE RIndInv'
    <2>1. /\ ended' = TRUE /\ ending' = [p \in Replicas |-> up[p] /\ p \notin missed]
          /\ UNCHANGED <<owner, lease, holder, up, held, work, by, event, sweep, idle, unclaiming, leaving, lost, late, starved>>
      BY <1>2 DEF Room!MeetingEnds
    <2>2. ending' \in [Replicas -> BOOLEAN]
      BY <2>1 DEF RIndInv, RoomTyped
    <2>3. RoomTyped' /\ Off' /\ Locking'
      BY <2>1, <2>2 DEF RIndInv, RoomTyped, Off, Locking
    <2>4. Owned'
      BY <2>1 DEF Owned, Undisturbed
    <2>. QED
      BY <2>3, <2>4 DEF RIndInv
  <1>3. CASE Room!HumansLeave
    BY <1>3 DEF Room!HumansLeave, RIndInv, RoomTyped, Off, Locking, Owned, Own, Undisturbed, Covered
  <1>4. CASE Room!ConnectionLost
    <2>1. /\ lost' = TRUE /\ holder' = Nobody
          /\ UNCHANGED <<late, starved, owner, lease, ended, up, held, work, by, event, sweep, idle, ending, unclaiming, leaving>>
      BY <1>4 DEF Room!ConnectionLost
    <2>2. RoomTyped' /\ Off' /\ Locking'
      BY <2>1 DEF RIndInv, RoomTyped, Off, Locking
    <2>3. Owned'
      BY <2>1 DEF Owned, Undisturbed
    <2>. QED
      BY <2>2, <2>3 DEF RIndInv
  <1>. QED
    BY <1>1, <1>2, <1>3, <1>4

\* Time: a replica that holds the room has missed one renewal at most.
LEMMA TickOwned ==
    ASSUME Room!LeaseConstants,
           RIndInv, Room!Tick, 3 <= Lease
    PROVE  RIndInv'
  <1>. USE DEF Room!redisVars, Room!roomVars, Room!stateVars, Room!lockVars, Room!taskVars, Room!endVars, Room!counts
  <1>1. /\ \A p \in Replicas : work[p] = "free" /\ sweep[p] = "asleep" /\ up[p]
        /\ lease' = IF lease = 0 THEN 0 ELSE lease - 1
        /\ owner' = IF lease <= 1 THEN Nobody ELSE owner
        /\ sweep' = [p \in Replicas |-> "due"]
        /\ UNCHANGED <<holder, ended, lost, late, starved, up, held, work, by, event, idle, ending, unclaiming, leaving>>
    BY DEF Room!Tick, Room!Settled
  <1>2. lease' \in Nat /\ sweep' \in [Replicas -> Sweeps]
    BY <1>1 DEF RIndInv, RoomTyped, Sweeps
  <1>3. RoomTyped' /\ Off' /\ Locking'
    BY <1>1, <1>2 DEF RIndInv, RoomTyped, Off, Locking
  <1>4. Owned'
    <2>. SUFFICES ASSUME Undisturbed', NEW p \in Replicas PROVE Own(p)'
      BY DEF Owned
    <2>1. Undisturbed
      BY <1>1 DEF Undisturbed
    <2>2. ASSUME held[p] PROVE holder = p /\ owner' = p /\ Covered(p)'
      <3>1. /\ holder = p /\ owner = p /\ sweep[p] # "due"
            /\ lease >= Lease \/ (late[p] /\ lease + 1 >= Lease)
        BY <1>1, <2>1, <2>2 DEF RIndInv, Owned, Own, Covered
      <3>2. lease \in Nat /\ Lease \in Nat /\ sweep'[p] = "due"
        BY <1>1, LeaseBounds DEF RIndInv, RoomTyped
      <3>3. lease >= 2 /\ lease' = lease - 1
        BY <1>1, <3>1, <3>2
      <3>4. lease' + 1 >= Lease \/ (late[p] /\ lease' + 2 >= Lease)
        BY <3>1, <3>2, <3>3
      <3>. QED
        BY <1>1, <3>1, <3>2, <3>3, <3>4 DEF Covered
    <2>. QED
      BY <1>1, <2>1, <2>2 DEF RIndInv, Owned, Own
  <1>. QED
    BY <1>3, <1>4 DEF RIndInv

LEMMA CoveredKeeps ==
    ASSUME NEW p \in Replicas, Covered(p), lease' = lease, late'[p] = late[p],
           sweep[p] = "due" => sweep'[p] = "due"
    PROVE  Covered(p)'
BY DEF Covered

\* A step of one replica.
LEMMA OneStep ==
    ASSUME Room!LeaseConstants,
           RIndInv, NEW p \in Replicas, RoomTyped', Off', Locking', UNCHANGED <<ended, lost>>,
           starved => starved',
           \A q \in Replicas \ {p} :
               /\ held'[q] = held[q] /\ work'[q] = work[q] /\ sweep'[q] = sweep[q] /\ late'[q] = late[q]
               /\ ending'[q] = ending[q] /\ unclaiming'[q] = unclaiming[q] /\ leaving'[q] = leaving[q],
           Undisturbed => \A q \in Replicas \ {p} :
               /\ owner = q => owner' = q /\ lease' = lease
               /\ holder = q /\ held[q] => holder' = q,
           Undisturbed /\ Undisturbed' => Own(p)'
    PROVE  RIndInv'
  <1>. SUFFICES ASSUME Undisturbed, Undisturbed', NEW q \in Replicas, q # p PROVE Own(q)'
    BY DEF RIndInv, Owned, Undisturbed
  <1>1. Own(q)
    BY DEF RIndInv, Owned
  <1>3. owner = q /\ Covered(q) => Covered(q)'
    BY CoveredKeeps DEF RIndInv
  <1>. QED
    BY <1>1, <1>3 DEF Own

\* A step of one replica keeps the types, and the lock's.
LEMMA StepTyped ==
    ASSUME Room!LeaseConstants,
           RIndInv, NEW p \in Replicas,
           Room!Step(p) \/ Room!ClaimFails(p) \/ Room!DialFails(p) \/ Room!RenewFails(p) \/ Room!Crash(p) \/ Room!Shutdown(p)
    PROVE  RoomTyped' /\ Off' /\ Locking' /\ (starved => starved') /\ UNCHANGED <<ended, lost>>
  <1>. USE DEF Room!claimRest, Room!redisVars, Room!roomVars, Room!stateVars, Room!lockVars, Room!taskVars, Room!endVars, Room!counts, Room!Set, Works, Sweeps
  <1>t. RoomTyped /\ Off /\ Locking
    BY DEF RIndInv, RoomTyped
  <1>1. CASE Room!Hydrate(p) \/ Room!HandleEvent(p) \/ Room!Reclaim(p) \/ Room!Retry(p)
    <2>1. RoomTyped'
      BY <1>t, <1>1, FaultKeeps DEF RoomTyped, Room!Hydrate, Room!HandleEvent, Room!Reclaim, Room!Retry, Room!Locked
    <2>2. Off' /\ Locking'
      BY <1>t, <1>1 DEF Off, Locking, RoomTyped, Room!Hydrate, Room!HandleEvent, Room!Reclaim, Room!Retry, Room!Locked
    <2>3. (starved => starved') /\ UNCHANGED <<ended, lost>>
      BY <1>t, <1>1, FaultKeeps DEF Room!Hydrate, Room!HandleEvent, Room!Reclaim, Room!Retry
    <2>. QED
      BY <2>1, <2>2, <2>3
  <1>2. ASSUME UNCHANGED <<ended, lost, up, event, idle, ending, unclaiming, leaving, holder>>,
               owner' \in Replicas \cup {Nobody}, lease' \in Nat, starved' = starved,
               work[p] # "free",
               (Room!Claimed(p) \/ Room!Denied(p))
        PROVE  RoomTyped' /\ Off' /\ Locking' /\ (starved => starved') /\ UNCHANGED <<ended, lost>>
    <2>1. RoomTyped'
      BY <1>t, <1>2 DEF RoomTyped, Room!Claimed, Room!Denied, Room!Unlocked, Room!SweepOn
    <2>2. up[p]
      BY <1>t, <1>2 DEF Off
    <2>3. Off' /\ Locking'
      BY <1>t, <1>2, <2>2 DEF Off, Locking, RoomTyped, Room!Claimed, Room!Denied, Room!Unlocked, Room!SweepOn
    <2>. QED
      BY <1>2, <2>1, <2>3
  <1>3. CASE Room!Claim(p) \/ Room!Extend(p) \/ Room!ClaimFails(p)
    <2>0. /\ work[p] # "free" /\ UNCHANGED <<ended, lost, up, event, idle, ending, unclaiming, leaving, holder>>
          /\ owner' \in Replicas \cup {Nobody} /\ lease' \in Nat /\ starved' = starved
      <3>1. Lease \in Nat
        BY LeaseBounds
      <3>2. UNCHANGED <<ended, lost, starved>> \/ (UNCHANGED ended /\ Room!Fault)
        BY <1>3 DEF Room!Claim, Room!Extend, Room!ClaimFails
      <3>3. UNCHANGED <<ended, lost, starved>>
        BY <1>t, <3>2, FaultKeeps DEF RoomTyped
      <3>. QED
        BY <1>t, <1>3, <3>1, <3>3 DEF RoomTyped, Room!Claim, Room!Extend, Room!ClaimFails
    <2>1. CASE Room!Claimed(p) \/ Room!Denied(p)
      BY <1>2, <2>0, <2>1
    <2>2. CASE /\ work' = Room!Set(work, p, "extend") /\ UNCHANGED <<held, late, by, sweep>>
      BY <1>t, <2>0, <2>2 DEF RoomTyped, Off, Locking
    <2>. QED
      BY <1>3, <2>1, <2>2 DEF Room!Claim, Room!Extend, Room!ClaimFails
  <1>4. CASE Room!Dial(p) \/ Room!DialFails(p)
    <2>1. RoomTyped'
      BY <1>t, <1>4, FaultKeeps DEF RoomTyped, Room!Dial, Room!DialFails, Room!Unlocked, Room!SweepOn
    <2>2. up[p]
      BY <1>t, <1>4 DEF Off, Room!Dial, Room!DialFails
    <2>3. Off' /\ Locking'
      BY <1>t, <1>4, <2>2 DEF Off, Locking, RoomTyped, Room!Dial, Room!DialFails, Room!Unlocked, Room!SweepOn
    <2>4. (starved => starved') /\ UNCHANGED <<ended, lost>>
      BY <1>t, <1>4, FaultKeeps DEF Room!Dial, Room!DialFails
    <2>. QED
      BY <2>1, <2>3, <2>4
  <1>5. CASE Room!Renew(p) \/ Room!RenewFails(p) \/ Room!Yield(p)
    <2>1. RoomTyped'
      BY <1>t, <1>5, FaultKeeps, LeaseBounds DEF RoomTyped, Room!Renew, Room!RenewFails, Room!Yield, Room!Locked
    <2>2. Off' /\ Locking'
      BY <1>t, <1>5 DEF Off, Locking, RoomTyped, Room!Renew, Room!RenewFails, Room!Yield, Room!Locked
    <2>3. (starved => starved') /\ UNCHANGED <<ended, lost>>
      BY <1>t, <1>5, FaultKeeps DEF RoomTyped, Room!Renew, Room!RenewFails, Room!Yield
    <2>. QED
      BY <2>1, <2>2, <2>3
  <1>6. CASE Room!Probe(p)
    <2>1. /\ sweep[p] \in {"probe", "due"}
          /\ held' \in [Replicas -> BOOLEAN] /\ idle' \in [Replicas -> BOOLEAN] /\ sweep' \in [Replicas -> Sweeps]
          /\ \A q \in Replicas \ {p} : held'[q] = held[q] /\ idle'[q] = idle[q] /\ sweep'[q] = sweep[q]
          /\ UNCHANGED <<Room!redisVars, holder, Room!roomVars, up, Room!lockVars, event, Room!endVars, Room!counts>>
      BY <1>t, <1>6 DEF RoomTyped, Room!Probe, Room!Look
    <2>. QED
      BY <1>t, <2>1 DEF RoomTyped, Off, Locking
  <1>7. CASE Room!ReleaseLost(p) \/ Room!ReleaseClaim(p) \/ Room!Unclaim(p)
    <2>1. owner' \in Replicas \cup {Nobody} /\ lease' \in Nat
      BY <1>t, <1>7, ReleaseKeeps DEF Room!ReleaseLost, Room!ReleaseClaim, Room!Unclaim, RoomTyped
    <2>2. (starved => starved') /\ UNCHANGED <<ended, lost>>
      BY <1>t, <1>7, FaultKeeps DEF Room!ReleaseLost, Room!ReleaseClaim, Room!Unclaim, RoomTyped
    <2>3. RoomTyped'
      BY <1>t, <1>7, <2>1, <2>2, FaultKeeps DEF RoomTyped, Room!ReleaseLost, Room!ReleaseClaim, Room!Unclaim
    <2>4. Off' /\ Locking'
      BY <1>t, <1>7 DEF Off, Locking, RoomTyped, Room!ReleaseLost, Room!ReleaseClaim, Room!Unclaim
    <2>. QED
      BY <2>2, <2>3, <2>4
  <1>8. CASE Room!ReleaseIdle(p) \/ Room!Leave(p) \/ Room!Cleanup(p) \/ Room!Disconnect(p) \/ Room!Restart(p)
    <2>1. RoomTyped'
      BY <1>t, <1>8 DEF RoomTyped, Room!ReleaseIdle, Room!Leave, Room!Cleanup, Room!Disconnect, Room!Restart, Room!Locked, Room!Unlocked, Room!SweepOn
    <2>2. Off'
      BY <1>t, <1>8 DEF Off, RoomTyped, Room!ReleaseIdle, Room!Leave, Room!Cleanup, Room!Disconnect, Room!Restart, Room!Locked, Room!Unlocked, Room!SweepOn
    <2>3. Locking'
      BY <1>t, <1>8 DEF Off, Locking, RoomTyped, Room!ReleaseIdle, Room!Leave, Room!Cleanup, Room!Disconnect, Room!Restart, Room!Locked, Room!Unlocked, Room!SweepOn
    <2>4. (starved => starved') /\ UNCHANGED <<ended, lost>>
      BY <1>t, <1>8 DEF Room!ReleaseIdle, Room!Leave, Room!Cleanup, Room!Disconnect, Room!Restart
    <2>. QED
      BY <2>1, <2>2, <2>3, <2>4
  <1>9. CASE Room!Crash(p) \/ Room!Shutdown(p)
    <2>1. Room!Gone(p) /\ Room!Fault /\ owner' \in Replicas \cup {Nobody} /\ lease' \in Nat
      BY <1>t, <1>9, ReleaseKeeps DEF Room!Crash, Room!Shutdown, RoomTyped
    <2>2. RoomTyped'
      BY <1>t, <2>1, FaultKeeps DEF RoomTyped, Room!Gone, Room!Unlocked
    <2>3. Off' /\ Locking'
      BY <1>t, <2>1 DEF Off, Locking, RoomTyped, Room!Gone, Room!Unlocked
    <2>4. (starved => starved') /\ UNCHANGED <<ended, lost>>
      BY <1>t, <2>1, FaultKeeps DEF Room!Gone
    <2>. QED
      BY <2>2, <2>3, <2>4
  <1>. QED
    BY <1>1, <1>3, <1>4, <1>5, <1>6, <1>7, <1>8, <1>9 DEF Room!Step

\* It touches nothing of another one.
LEMMA StepApart ==
    ASSUME RIndInv, NEW p \in Replicas, NEW q \in Replicas \ {p},
           Room!Step(p) \/ Room!ClaimFails(p) \/ Room!DialFails(p) \/ Room!RenewFails(p) \/ Room!Crash(p) \/ Room!Shutdown(p)
    PROVE  /\ held'[q] = held[q] /\ work'[q] = work[q] /\ sweep'[q] = sweep[q] /\ late'[q] = late[q]
           /\ ending'[q] = ending[q] /\ unclaiming'[q] = unclaiming[q] /\ leaving'[q] = leaving[q]
  <1>. USE DEF Room!claimRest, Room!redisVars, Room!roomVars, Room!stateVars, Room!lockVars, Room!taskVars, Room!endVars, Room!counts, Room!Set, RIndInv, RoomTyped
  <1>1. CASE Room!Hydrate(p) \/ Room!HandleEvent(p) \/ Room!Reclaim(p) \/ Room!Retry(p)
    BY <1>1, FaultKeeps DEF Room!Hydrate, Room!HandleEvent, Room!Reclaim, Room!Retry, Room!Locked
  <1>2. CASE Room!Claim(p) \/ Room!Extend(p) \/ Room!ClaimFails(p)
    BY <1>2 DEF Room!Claim, Room!Extend, Room!ClaimFails, Room!Claimed, Room!Denied, Room!Unlocked, Room!SweepOn
  <1>3. CASE Room!Dial(p) \/ Room!DialFails(p)
    BY <1>3, FaultKeeps DEF Room!Dial, Room!DialFails, Room!Unlocked, Room!SweepOn
  <1>4. CASE Room!Renew(p) \/ Room!RenewFails(p) \/ Room!Yield(p) \/ Room!Probe(p)
    BY <1>4 DEF Room!Renew, Room!RenewFails, Room!Yield, Room!Locked, Room!Probe, Room!Look
  <1>5. CASE Room!ReleaseLost(p) \/ Room!ReleaseClaim(p) \/ Room!Unclaim(p)
    BY <1>5, FaultKeeps DEF Room!ReleaseLost, Room!ReleaseClaim, Room!Unclaim
  <1>6. CASE Room!ReleaseIdle(p) \/ Room!Leave(p) \/ Room!Cleanup(p) \/ Room!Disconnect(p) \/ Room!Restart(p)
    BY <1>6 DEF Room!ReleaseIdle, Room!Leave, Room!Cleanup, Room!Disconnect, Room!Restart, Room!Locked, Room!Unlocked, Room!SweepOn
  <1>7. CASE Room!Crash(p) \/ Room!Shutdown(p)
    BY <1>7, FaultKeeps DEF Room!Crash, Room!Shutdown, Room!Gone, Room!Unlocked
  <1>. QED
    BY <1>1, <1>2, <1>3, <1>4, <1>5, <1>6, <1>7 DEF Room!Step

\* While the meeting runs it leaves another one's lease and connection alone.
LEMMA StepYields ==
    ASSUME Room!LeaseConstants,
           RIndInv, NEW p \in Replicas, NEW q \in Replicas \ {p}, Undisturbed,
           Room!Step(p) \/ Room!ClaimFails(p) \/ Room!DialFails(p) \/ Room!RenewFails(p) \/ Room!Crash(p) \/ Room!Shutdown(p)
    PROVE  /\ owner = q => owner' = q /\ lease' = lease
           /\ holder = q /\ held[q] => holder' = q
  <1>. USE DEF Room!redisVars
  <1>n. Nobody # q
    BY LeaseBounds
  <1>1. owner = q => owner' = q /\ lease' = lease
    BY <1>n DEF Room!Step, Room!Hydrate, Room!HandleEvent, Room!Reclaim, Room!Retry, Room!Claim, Room!Extend, Room!ClaimFails, Room!Dial, Room!DialFails, Room!Renew,
       Room!RenewFails, Room!Yield, Room!Probe, Room!ReleaseLost, Room!ReleaseClaim, Room!Unclaim, Room!ReleaseIdle, Room!Leave, Room!Cleanup, Room!Disconnect,
       Room!Restart, Room!Crash, Room!Shutdown, Room!Release
  <1>2. holder' # holder => holder = p \/ Room!Dial(p)
    BY DEF Room!Step, Room!Hydrate, Room!HandleEvent, Room!Reclaim, Room!Retry, Room!Claim, Room!Extend, Room!ClaimFails, Room!Dial, Room!DialFails, Room!Renew,
       Room!RenewFails, Room!Yield, Room!Probe, Room!ReleaseLost, Room!ReleaseClaim, Room!Unclaim, Room!ReleaseIdle, Room!Leave, Room!Cleanup, Room!Disconnect,
       Room!Restart, Room!Crash, Room!Shutdown, Room!Gone, Room!Connected
  <1>3. Room!Dial(p) => ~held[q]
    BY DEF Room!Dial, RIndInv, Owned, Own
  <1>. QED
    BY <1>1, <1>2, <1>3

LEMMA LeaseCovers ==
    ASSUME Room!LeaseConstants, NEW p \in Replicas, lease' = Lease
    PROVE  Covered(p)'
BY LeaseBounds DEF Covered

\* What the replica that takes the step owns, it still owns.
LEMMA StepOwns ==
    ASSUME Room!LeaseConstants,
           RIndInv, NEW p \in Replicas, Undisturbed, Undisturbed',
           Room!Step(p) \/ Room!ClaimFails(p) \/ Room!DialFails(p) \/ Room!RenewFails(p) \/ Room!Crash(p) \/ Room!Shutdown(p)
    PROVE  Own(p)'
  <1>. USE DEF Room!claimRest, Room!redisVars, Room!roomVars, Room!stateVars, Room!lockVars, Room!taskVars, Room!endVars, Room!counts, Room!Set, Works, Sweeps
  <1>t. RoomTyped /\ Off /\ Locking /\ Own(p)
    BY StepTyped DEF RIndInv, Owned, RoomTyped
  <1>n. Nobody # p /\ Lease \in Nat
    BY LeaseBounds
  <1>c. held[p] /\ lease' = lease /\ late'[p] = late[p] /\ (sweep[p] = "due" => sweep'[p] = "due") => Covered(p)'
    BY <1>t, CoveredKeeps DEF Own
  <1>f. lease' = Lease => Covered(p)'
    BY LeaseCovers
  <1>1. CASE Room!Hydrate(p) \/ Room!HandleEvent(p) \/ Room!Reclaim(p) \/ Room!Retry(p)
    BY <1>t, <1>1, <1>c, FaultKeeps DEF RoomTyped, Own, Room!Hydrate, Room!HandleEvent, Room!Reclaim, Room!Retry, Room!Locked
  <1>2. CASE Room!Claim(p) /\ owner = Nobody
    BY <1>t, <1>2, <1>n DEF RoomTyped, Locking, Own, Room!Claim, Room!Claimed, Room!Unlocked, Room!SweepOn
  <1>3. CASE Room!Claim(p) /\ owner # Nobody
    BY <1>t, <1>3, <1>c DEF RoomTyped, Own, Room!Claim
  <1>4. CASE Room!Extend(p) /\ owner = p
    BY <1>t, <1>4, <1>f DEF RoomTyped, Locking, Own, Room!Extend, Room!Claimed, Room!Unlocked, Room!SweepOn
  <1>5. CASE Room!Extend(p) /\ owner # p
    BY <1>t, <1>5 DEF RoomTyped, Locking, Own, Room!Extend, Room!Denied, Room!Unlocked, Room!SweepOn
  <1>6. CASE Room!ClaimFails(p)
    <2>1. /\ owner' \in {owner, p} /\ lease' \in {lease, Lease}
          /\ UNCHANGED <<holder, held, late, ending, unclaiming, leaving>>
          /\ work' = Room!Set(work, p, "free")
          /\ sweep'[p] = sweep[p] \/ (by[p] = "sweep" /\ sweep'[p] = "asleep" /\ sweep[p] = "lock")
      BY <1>t, <1>6 DEF RoomTyped, Locking, Own, Room!ClaimFails, Room!Denied, Room!Unlocked, Room!SweepOn
    <2>. QED
      BY <1>t, <2>1, <1>c, <1>f DEF RoomTyped, Own
  <1>7. CASE Room!Dial(p)
    BY <1>t, <1>7, <1>f DEF RoomTyped, Locking, Own, Room!Dial, Room!Unlocked, Room!SweepOn
  <1>8. CASE Room!DialFails(p)
    BY <1>t, <1>8 DEF RoomTyped, Locking, Own, Room!DialFails, Room!Unlocked, Room!SweepOn
  <1>9. CASE Room!Renew(p)
    BY <1>t, <1>9, <1>f DEF RoomTyped, Own, Room!Renew
  <1>10. CASE Room!RenewFails(p)
    <2>1. /\ lease' = lease /\ held[p] /\ late'[p] /\ ~late[p] /\ sweep[p] = "due"
      BY <1>t, <1>10 DEF Room!RenewFails, RoomTyped, Undisturbed
    <2>2. lease + 1 >= Lease
      BY <1>t, <1>n, <2>1 DEF Own, Covered, RoomTyped
    <2>3. Covered(p)'
      BY <2>1, <2>2 DEF Covered
    <2>. QED
      BY <1>t, <1>10, <2>3 DEF RoomTyped, Own, Room!RenewFails
  <1>11. CASE Room!Probe(p)
    <2>1. held[p] => holder = p
      BY <1>t DEF Own
    <2>2. /\ UNCHANGED <<Room!redisVars, holder, work, late, ending, unclaiming, leaving>>
          /\ held'[p] = held[p] /\ sweep'[p] \in {"lock", "asleep"}
          /\ sweep[p] = "probe" \/ ~held[p]
      BY <1>t, <1>11, <2>1 DEF RoomTyped, Room!Probe, Room!Look, Room!Connected
    <2>. QED
      BY <1>t, <2>2, <1>c DEF Own
  <1>12. CASE Room!ReleaseClaim(p)
    <2>1. /\ UNCHANGED <<holder, held, sweep, ending, unclaiming, leaving>> /\ ~held[p]
          /\ work'[p] = "leave"
      BY <1>t, <1>12 DEF RoomTyped, Own, Room!ReleaseClaim
    <2>. QED
      BY <1>t, <2>1 DEF Own
  <1>13. CASE Room!ReleaseIdle(p)
    BY <1>t, <1>13, <1>c DEF RoomTyped, Own, Room!ReleaseIdle, Room!Locked
  <1>14. CASE Room!Leave(p)
    BY <1>t, <1>14 DEF RoomTyped, Locking, Own, Room!Leave, Room!Unlocked, Room!SweepOn
  <1>15. CASE Room!Restart(p)
    BY <1>t, <1>15 DEF RoomTyped, Off, Own, Room!Restart
  <1>16. CASE Room!Crash(p) \/ Room!Shutdown(p)
    BY <1>t, <1>16 DEF RoomTyped, Own, Room!Crash, Room!Shutdown, Room!Gone, Room!Unlocked
  <1>17. ~(Room!Yield(p) \/ Room!ReleaseLost(p) \/ Room!Cleanup(p) \/ Room!Unclaim(p) \/ Room!Disconnect(p))
    BY <1>t DEF Own, Room!Yield, Room!ReleaseLost, Room!Cleanup, Room!Unclaim, Room!Disconnect
  <1>. QED
    BY <1>1, <1>2, <1>3, <1>4, <1>5, <1>6, <1>7, <1>8, <1>9, <1>10, <1>11, <1>12, <1>13, <1>14,
       <1>15, <1>16, <1>17 DEF Room!Step

LEMMA NextOwned ==
    ASSUME Room!LeaseConstants
    PROVE  3 <= Lease /\ RIndInv /\ [Room!Next]_(Room!vars) => RIndInv'
  <1>. SUFFICES ASSUME 3 <= Lease, RIndInv, [Room!Next]_(Room!vars) PROVE RIndInv'
    OBVIOUS
  <1>1. CASE (\E missed \in SUBSET Replicas : Room!HumansJoin(missed) \/ Room!MeetingEnds(missed))
             \/ Room!HumansLeave \/ Room!ConnectionLost
    BY <1>1, MeetingOwned
  <1>2. CASE Room!Tick
    BY <1>2, TickOwned
  <1>3. ASSUME NEW p \in Replicas,
               Room!Step(p) \/ Room!ClaimFails(p) \/ Room!DialFails(p) \/ Room!RenewFails(p) \/ Room!Crash(p) \/ Room!Shutdown(p)
        PROVE  RIndInv'
    BY <1>3, StepTyped, StepApart, StepYields, StepOwns, OneStep
  <1>4. CASE UNCHANGED Room!vars
    BY <1>4 DEF Room!vars, Room!redisVars, Room!roomVars, Room!stateVars, Room!lockVars, Room!taskVars, Room!endVars, Room!counts,
       RIndInv, RoomTyped, Off, Locking, Owned, Own, Covered, Undisturbed
  <1>. QED
    BY <1>1, <1>2, <1>3, <1>4 DEF Room!Next

\* Only a dial takes the identity, and it is made under the lease: no other replica
\* holds the room then.
LEMMA DialEvictsNobody ==
    ASSUME Room!LeaseConstants
    PROVE  RIndInv /\ [Room!Next]_(Room!vars) /\ Undisturbed =>
               \A p, q \in Replicas : Room!Connected(q) /\ held[q] /\ Room!Connected(p)' => p = q
  <1>. SUFFICES ASSUME RIndInv, [Room!Next]_(Room!vars), Undisturbed, NEW p \in Replicas, NEW q \in Replicas,
                       holder = q, held[q], holder' = p, p # q
                PROVE  FALSE
    BY DEF Room!Connected
  <1>n. Nobody # p /\ owner = q
    BY LeaseBounds DEF RIndInv, Owned, Own
  <1>1. CASE (\E missed \in SUBSET Replicas : Room!HumansJoin(missed) \/ Room!MeetingEnds(missed))
             \/ Room!HumansLeave \/ Room!ConnectionLost \/ Room!Tick \/ UNCHANGED Room!vars
    BY <1>1, <1>n DEF Room!HumansJoin, Room!MeetingEnds, Room!HumansLeave, Room!ConnectionLost, Room!Tick, Room!vars
  <1>2. ASSUME NEW r \in Replicas,
               Room!Step(r) \/ Room!ClaimFails(r) \/ Room!DialFails(r) \/ Room!RenewFails(r) \/ Room!Crash(r) \/ Room!Shutdown(r)
        PROVE  FALSE
    <2>1. r = q
      BY <1>2, <1>n, StepYields
    <2>. QED
      BY <1>2, <2>1, <1>n DEF Room!Step, Room!Hydrate, Room!HandleEvent, Room!Reclaim, Room!Retry, Room!Claim, Room!Extend, Room!ClaimFails,
         Room!Dial, Room!DialFails, Room!Renew, Room!RenewFails, Room!Yield, Room!Probe, Room!ReleaseLost, Room!ReleaseClaim, Room!Unclaim, Room!ReleaseIdle,
         Room!Leave, Room!Cleanup, Room!Disconnect, Room!Restart, Room!Crash, Room!Shutdown, Room!Gone, Room!Connected
  <1>. QED
    BY <1>1, <1>2 DEF Room!Next

\* A replica that is connected to its room loses it to no other while Redis keeps its data:
\* it renews before the lease can run out, however the failed calls, events, sweeps and
\* restarts fall, unless two renewals in a row fail; a lease lasts three sweeps.
THEOREM NoBotEvicted ==
    Room!LeaseConstants /\ 3 <= Lease => (Room!Spec => Room!NoEviction)
  <1>. SUFFICES ASSUME Room!LeaseConstants, 3 <= Lease PROVE Room!Spec => Room!NoEviction
    OBVIOUS
  <1>1. RIndInv /\ [Room!Next]_(Room!vars) => RIndInv'
    BY NextOwned
  <1>2. RIndInv /\ [Room!Next]_(Room!vars) =>
            [~ended /\ ~lost /\ ~starved =>
                \A p, q \in Replicas : Room!Connected(q) /\ held[q] /\ Room!Connected(p)' => p = q]_(Room!vars)
    BY DialEvictsNobody DEF Undisturbed
  <1>. QED
    BY InitOwned, <1>1, <1>2, PTL DEF Room!Spec, Room!NoEviction
=============================================================================
