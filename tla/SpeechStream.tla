---------------------------- MODULE SpeechStream ----------------------------
(***************************************************************************)
(* One speaker in flash mode.  While the speaker talks, each piece of a    *)
(* turn is a frame, which a loop of its own appends to the buffer of the   *)
(* speaker's open session; when the turn ends, a chunk that carries all    *)
(* its audio is transcribed under the speaker's lock: the buffer is        *)
(* committed if it is known to hold the turn, otherwise the audio is sent  *)
(* first.  Frames and chunks travel on two streams; frames may be lost,    *)
(* sessions are opened, replaced and swept beside both, chunks are         *)
(* delivered again after a failure.                                        *)
(***************************************************************************)
EXTENDS Integers, Sequences, FiniteSets, SequencesExt

CONSTANTS
    MaxTurns,     \* bound: turns spoken
    MaxPieces,    \* bound: pieces of speech, over all turns
    MaxFaults,    \* bound: losses, errors, timeouts, crashes, sessions replaced
    MaxSessions   \* bound: sessions opened

ASSUME Bounds ==
    {MaxTurns, MaxPieces, MaxSessions} \subseteq Nat \ {0} /\ MaxFaults \in Nat

None == "none"
Turns == 1..MaxTurns
Pieces == Turns \X (1..MaxPieces)
\* A session is opened for the track, for a first chunk, after a fault, after a
\* commit of nothing.
Epochs == 1..MaxSessions
Attempts == 1..(MaxFaults + 1)

VARIABLES
    said,       \* of each turn, how many pieces were spoken
    turn,       \* the turn being spoken
    stream,     \* frames published and not yet read
    chunks,     \* turns whose chunk waits for its handler, in order
    pending,    \* turns whose chunk was handled in vain and not acknowledged
    tries,      \* of each turn: how often its chunk was handled
    marked,     \* turns whose chunk is marked as published
    out,        \* of each turn: the attempts that published a line of it
    streaming,  \* _streamed_turns: the turn in the buffer, where, and its next frame
    closed,     \* _closed_turns: the turn that ended last
    held,       \* _held_frames: frames kept while a chunk is transcribed
    mode,       \* _frame_mode: what becomes of a frame while the lock is taken
    since,      \* _held_since: a frame was held in this window
    app,        \* the append under way, in the frame loop and in the chunk's handler
    hand,       \* the handler of a chunk
    session,    \* _sessions: the epoch of the speaker's session, 0 if there is none
    opened,     \* sessions opened
    opening,    \* the track's session is being opened
    sock,       \* of each session: its buffer, and what the worker notes of it
    torn,       \* sessions whose buffer is no one's: a cancelled handler left its audio
                \* there, it could not be cleared, or was cleared under a handler
    overtaken,  \* turns of an append that was under way when the lock or the session
                \* changed hands
    replaced,   \* turns being streamed when the track's session took the place of theirs
    unmarked,   \* turns whose mark could not be set or read
    faults

voice == <<said, turn, stream>>
work == <<chunks, pending, tries>>
lines == <<marked, out, unmarked>>
window == <<held, mode, since>>
sessions == <<session, opened, opening>>
ghosts == <<torn, overtaken, replaced>>
vars == <<voice, work, lines, streaming, closed, window, app, hand, sessions, sock, ghosts, faults>>

Idle == [at |-> "idle", frame |-> <<0, 0>>, epoch |-> 0, direct |-> FALSE]
Free == [at |-> "idle", turn |-> 0, epoch |-> 0, conn |-> 0, sent |-> 0, again |-> "no", item |-> <<>>]
Empty == [buf |-> <<>>, dirty |-> FALSE, busy |-> FALSE]
NoTurn == [turn |-> 0, epoch |-> 0, next |-> 1]

Init ==
    /\ said = [t \in Turns |-> 0] /\ turn = 1 /\ stream = <<>>
    /\ chunks = <<>> /\ pending = {} /\ tries = [t \in Turns |-> 0]
    /\ marked = {} /\ out = [t \in Turns |-> {}] /\ unmarked = {}
    /\ streaming = NoTurn /\ closed = 0 /\ held = <<>> /\ mode = None /\ since = FALSE
    /\ app = [w \in {"loop", "chunk"} |-> Idle] /\ hand = Free
    /\ session = 0 /\ opened = 0 /\ opening \in BOOLEAN
    /\ sock = [e \in Epochs |-> Empty] /\ torn = {} /\ overtaken = {} /\ replaced = {} /\ faults = 0

Fault == faults < MaxFaults /\ faults' = faults + 1
Maybe(bad) == IF bad THEN Fault ELSE UNCHANGED faults

\* The speaker's lock: a chunk's handler has it, or the loop while it appends a frame.
Handling == hand.at # "idle"
Appending == app["loop"].at = "sent" /\ ~app["loop"].direct

(***************************************************************************)
(* The speaker, and the ingress that publishes what is said.               *)
(***************************************************************************)
Spoken == FoldFunction(+, 0, said)

Speak == \E lost \in BOOLEAN :
    /\ turn \in Turns /\ Spoken < MaxPieces /\ Maybe(lost)
    /\ said' = [said EXCEPT ![turn] = @ + 1]
    /\ stream' = IF lost THEN stream ELSE Append(stream, <<turn, said[turn] + 1>>)
    /\ UNCHANGED <<turn, work, lines, streaming, closed, window, app, hand, sessions, sock, ghosts>>

\* A turn that was too short has no chunk.
EndOfTurn == \E long \in BOOLEAN :
    /\ turn \in Turns /\ said[turn] > 0 /\ turn' = turn + 1
    /\ chunks' = IF long THEN Append(chunks, turn) ELSE chunks
    /\ UNCHANGED <<said, stream, pending, tries, lines, streaming, closed, window, app, hand,
                   sessions, sock, ghosts, faults>>

(***************************************************************************)
(* Sessions.                                                               *)
(***************************************************************************)
Track ==
    /\ ~opening /\ session = 0 /\ Fault /\ opening' = TRUE
    /\ UNCHANGED <<voice, work, lines, streaming, closed, window, app, hand, session, opened, sock, ghosts>>

\* The turns of the frames that are being sent.
Sending == {app[w].frame[1] : w \in {v \in DOMAIN app : app[v].at = "sent"}}

\* A new session takes the place of the speaker's.
Opens == opened < MaxSessions /\ opened' = opened + 1 /\ session' = opened'

\* A chunk may have opened a session meanwhile: this one takes its place.
Prewarmed ==
    /\ opening /\ opening' = FALSE /\ Opens
    /\ overtaken' = overtaken \cup Sending
    /\ replaced' = replaced \cup ({streaming.turn} \ {0})
    /\ UNCHANGED <<voice, work, lines, streaming, closed, window, app, hand, sock, torn, faults>>

\* A session too old, or unused for long, goes when any speaker's is looked up.
Sweep ==
    /\ session # 0 /\ Fault /\ session' = 0
    /\ UNCHANGED <<voice, work, lines, streaming, closed, window, app, hand, opened, opening, sock, ghosts>>

\* Nothing is in the buffer, or what is there is a turn that ended long ago.
Quiet ==
    LET over == \A f \in Range(stream) \cup Range(held) : f[1] # streaming.turn IN
    /\ ~sock[session].busy
    /\ (~sock[session].dirty \/ (streaming.turn # turn /\ over /\ app["loop"] = Idle))

Renew ==
    /\ session # 0 /\ Quiet /\ Fault /\ Opens
    /\ overtaken' = overtaken \cup Sending
    /\ UNCHANGED <<voice, work, lines, streaming, closed, window, app, hand, opening, sock, torn, replaced>>

(***************************************************************************)
(* Frames.                                                                 *)
(***************************************************************************)
\* The buffer is emptied, if the session is not dead, whoever is sending into it.
\* bad: this is for a fault already.
Clear(bad) == \E refused \in BOOLEAN :
    /\ refused => session # 0
    /\ Maybe(bad \/ refused)
    /\ sock' = IF refused \/ session = 0 THEN sock
               ELSE [sock EXCEPT ![session].buf = <<>>, ![session].dirty = FALSE]
    /\ torn' = IF refused \/ (hand.at = "sending" /\ hand.conn = session)
               THEN torn \cup {session} ELSE torn \ {session}

\* The turn t is over: what is left of it is dropped, and so is the buffer.
Abandon(t, bad) == streaming' = NoTurn /\ closed' = t /\ Clear(bad)

Stop(w) == app' = [app EXCEPT ![w] = Idle]

\* Suspended until the frame is sent, under the lock if it is not direct.
Send(w, f, direct) ==
    \/ /\ session # 0 /\ sock' = [sock EXCEPT ![session].buf = Append(@, f)]
       /\ app' = [app EXCEPT ![w] = [at |-> "sent", frame |-> f, epoch |-> session, direct |-> direct]]
       /\ UNCHANGED <<streaming, closed, torn, faults>>
    \/ session = 0 /\ Abandon(f[1], FALSE) /\ Stop(w)

\* next: the frame that is expected.  A frame out of order, or one that meets a
\* chunk it was not held for, ends its turn.  The loop may find a handler waiting
\* for the lock before it.
Check(w, f, direct, next) ==
    IF f[2] # next \/ (Handling /\ ~direct)
    THEN Abandon(f[1], FALSE) /\ Stop(w)
    ELSE \/ Send(w, f, direct)
         \/ /\ ~direct /\ chunks # <<>>
            /\ app' = [app EXCEPT ![w] = [at |-> "queued", frame |-> f, epoch |-> 0, direct |-> FALSE]]
            /\ UNCHANGED <<streaming, closed, sock, torn, faults>>

\* Mutant: a frame is appended whatever was lost before it.
AppendAnyFrame(w, f, direct) ==
    IF closed = f[1] THEN Stop(w) /\ UNCHANGED <<streaming, closed, sock, torn, faults>>
    ELSE IF streaming.turn \notin {0, f[1]}
    THEN /\ Abandon(streaming.turn, FALSE)
         /\ app' = [app EXCEPT ![w] = [at |-> "cleared", frame |-> f, epoch |-> 0, direct |-> direct]]
    ELSE Check(w, f, direct, f[2])

AppendFrame(w, f, direct) ==
    IF closed = f[1] THEN Stop(w) /\ UNCHANGED <<streaming, closed, sock, torn, faults>>
    ELSE IF streaming.turn \notin {0, f[1]}
    THEN /\ Abandon(streaming.turn, FALSE)
         /\ app' = [app EXCEPT ![w] = [at |-> "cleared", frame |-> f, epoch |-> 0, direct |-> direct]]
    ELSE Check(w, f, direct, streaming.next)

Receive ==
    /\ app["loop"] = Idle /\ stream # <<>> /\ stream' = Tail(stream)
    /\ IF Handling /\ mode # "direct"
       THEN /\ \/ mode = "gave_up" /\ UNCHANGED <<window, closed>>
               \/ /\ mode # "gave_up" /\ held' = Append(held, Head(stream)) /\ since' = TRUE
                  /\ UNCHANGED <<mode, closed>>
               \/ /\ mode # "gave_up" /\ since /\ held' = <<>> /\ mode' = "gave_up"
                  /\ closed' = Head(stream)[1] /\ UNCHANGED since
            /\ UNCHANGED <<streaming, app, sock, torn, faults>>
       ELSE AppendFrame("loop", Head(stream), mode = "direct") /\ UNCHANGED window
    /\ UNCHANGED <<said, turn, work, lines, hand, sessions, overtaken, replaced>>

\* The previous turn's buffer is cleared: what was read before is used after it.
GoOn(w) ==
    /\ app[w].at = "cleared" /\ Check(w, app[w].frame, app[w].direct, 1)
    /\ UNCHANGED <<voice, work, lines, window, hand, sessions, overtaken, replaced>>

HaveLock ==
    /\ app["loop"].at = "queued" /\ ~Handling /\ Send("loop", app["loop"].frame, FALSE)
    /\ UNCHANGED <<voice, work, lines, window, hand, sessions, overtaken, replaced>>

\* The session may refuse the frame.
Landed(w) ==
    /\ app[w].at = "sent" /\ Stop(w)
    /\ \/ /\ sock' = [sock EXCEPT ![app[w].epoch].dirty = TRUE]
          /\ streaming' = [turn |-> app[w].frame[1], epoch |-> app[w].epoch, next |-> app[w].frame[2] + 1]
          /\ UNCHANGED <<closed, torn, faults>>
       \/ Abandon(app[w].frame[1], TRUE)
    /\ UNCHANGED <<voice, work, lines, window, hand, sessions, overtaken, replaced>>

(***************************************************************************)
(* Chunks.                                                                 *)
(***************************************************************************)

\* process is over: frames that were still held are dropped.
EndWindow ==
    /\ held' = <<>> /\ mode' = None /\ since' = FALSE
    /\ app' = [app EXCEPT !["chunk"] = Idle] /\ hand' = Free

Take ==
    /\ ~Handling /\ ~Appending /\ chunks # <<>>
    /\ hand' = [Free EXCEPT !.at = "begun", !.turn = Head(chunks)]
    /\ chunks' = Tail(chunks) /\ tries' = [tries EXCEPT ![Head(chunks)] = @ + 1]
    \* The loop was let past the lock of the handler before, or waits for this one's.
    /\ overtaken' = overtaken \cup (IF app["loop"].direct THEN {app["loop"].frame[1], Head(chunks)}
                                  ELSE IF app["loop"].at = "queued" THEN {app["loop"].frame[1]} ELSE {})
    /\ UNCHANGED <<voice, pending, lines, streaming, closed, window, app, sessions, sock, torn, replaced, faults>>

\* A chunk already published from, or of a room that does not want it.
Skip ==
    /\ hand.at = "begun" /\ Maybe(hand.turn \notin marked) /\ EndWindow
    /\ UNCHANGED <<voice, work, lines, streaming, closed, sessions, sock, ghosts>>

\* The mark may be unreadable.
Pop ==
    /\ hand.at = "begun"
    /\ unmarked' = unmarked \cup ({hand.turn} \cap marked)
    /\ hand' = [hand EXCEPT !.at = "ready",
                            !.epoch = IF streaming.turn = hand.turn THEN streaming.epoch ELSE 0]
    /\ IF streaming.turn \in {0, hand.turn} THEN Maybe(hand.turn \in marked) /\ UNCHANGED <<sock, torn>>
       ELSE Clear(hand.turn \in marked)
    /\ streaming' = NoTurn /\ closed' = hand.turn
    /\ UNCHANGED <<voice, work, marked, out, window, app, sessions, overtaken, replaced>>

\* The session is the speaker's, or a new one: there is none, or it is too old.
UseSession == \E new \in BOOLEAN :
    /\ hand.at = "ready" /\ (session = 0 => new) /\ Maybe(new /\ session # 0)
    /\ IF new THEN Opens ELSE UNCHANGED <<session, opened>>
    /\ sock' = [sock EXCEPT ![session'].busy = TRUE]
    /\ hand' = [hand EXCEPT !.at = "sending", !.conn = session',
                            !.sent = IF hand.epoch = session' THEN said[hand.turn] ELSE 0]
    /\ UNCHANGED <<voice, work, lines, streaming, closed, window, app, opening, ghosts>>

SendAudio ==
    /\ hand.at = "sending" /\ hand.sent < said[hand.turn]
    /\ sock' = [sock EXCEPT ![hand.conn].buf = Append(@, <<hand.turn, hand.sent + 1>>)]
    /\ hand' = [hand EXCEPT !.sent = @ + 1]
    /\ UNCHANGED <<voice, work, lines, streaming, closed, window, app, sessions, ghosts, faults>>

\* The service refuses to commit an empty buffer.
Commit ==
    /\ hand.at = "sending" /\ hand.sent = said[hand.turn]
    /\ sock' = [sock EXCEPT ![hand.conn].buf = <<>>, ![hand.conn].dirty = FALSE]
    /\ hand' = [hand EXCEPT !.at = IF sock[hand.conn].buf = <<>> THEN "refused" ELSE "listening",
                            !.item = sock[hand.conn].buf]
    /\ torn' = torn \ {hand.conn}
    /\ UNCHANGED <<voice, work, lines, streaming, closed, window, app, sessions, overtaken, replaced, faults>>

\* Mutant: a line published before the turn is complete leaves no mark.
PublishUnmarked(fails) ==
    /\ Maybe(fails) /\ unmarked' = unmarked /\ marked' = IF hand.at = "listening" THEN marked ELSE marked \cup {hand.turn}
    /\ out' = IF fails THEN out ELSE [out EXCEPT ![hand.turn] = @ \cup {tries[hand.turn]}]

\* Marked first, if that can be; then published, if that can be.
Publish(fails) ==
    \E mark \in BOOLEAN :
        /\ mark \/ (~fails /\ hand.turn \notin marked)
        /\ Maybe(fails \/ ~mark)
        /\ marked' = IF mark THEN marked \cup {hand.turn} ELSE marked
        /\ unmarked' = IF mark THEN unmarked ELSE unmarked \cup {hand.turn}
        /\ out' = IF fails THEN out ELSE [out EXCEPT ![hand.turn] = @ \cup {tries[hand.turn]}]

\* A sentence complete before the turn is.
Early ==
    /\ hand.at = "listening" /\ Publish(FALSE) /\ hand' = [hand EXCEPT !.at = "heard"]
    /\ UNCHANGED <<voice, work, streaming, closed, window, app, sessions, sock, ghosts>>

Quit == sock' = [sock EXCEPT ![hand.conn].busy = FALSE]

\* A turn that waited too long for this item is not handed over.
Release == IF mode = "gave_up" THEN "publishing" ELSE "drain"

\* Speech that was streamed and gave nothing is sent once more.
Complete == \E again \in BOOLEAN :
    /\ hand.at \in {"listening", "heard"} /\ Quit
    /\ again => hand.at = "listening" /\ hand.epoch # 0 /\ hand.again = "no"
    /\ hand' = IF again THEN [hand EXCEPT !.at = "ready", !.epoch = 0, !.again = "empty", !.item = <<>>]
               ELSE [hand EXCEPT !.at = Release]
    /\ mode' = IF again \/ mode = "gave_up" THEN mode ELSE "draining"
    /\ UNCHANGED <<voice, work, lines, streaming, closed, held, since, app, sessions, ghosts, faults>>

\* The session cannot be had, the socket fails, the service reports an error, or an
\* early sentence cannot be published.  A socket that fails takes its buffer with
\* it.  The first time, the session is dropped and all is done again without what
\* was streamed.
Fails ==
    /\ hand.at \in {"ready", "sending", "listening", "heard", "refused"}
    /\ \/ hand.at = "refused" /\ UNCHANGED <<lines, faults>>
       \/ hand.at # "refused" /\ Fault /\ UNCHANGED lines
       \/ hand.at \in {"listening", "heard"} /\ Publish(TRUE)
    /\ sock' = IF hand.at = "sending" THEN [sock EXCEPT ![hand.conn] = Empty]
               ELSE IF hand.conn # 0 THEN [sock EXCEPT ![hand.conn].busy = FALSE] ELSE sock
    /\ CASE hand.again = "no" ->
              /\ session' = 0 /\ UNCHANGED mode
              /\ hand' = [hand EXCEPT !.at = "ready", !.epoch = 0, !.again = "failed", !.item = <<>>]
         [] hand.again = "failed" ->
              hand' = [hand EXCEPT !.at = "publishing"] /\ UNCHANGED <<session, mode>>
         [] hand.again = "empty" ->
              /\ mode' = IF mode = "gave_up" THEN mode ELSE "draining"
              /\ hand' = [hand EXCEPT !.at = Release] /\ UNCHANGED session
    /\ UNCHANGED <<voice, work, streaming, closed, held, since, app, opened, opening, ghosts>>

\* The item is complete: the frames that were held are appended, in order.
Drain ==
    /\ hand.at = "drain" /\ held # <<>> /\ app["chunk"] = Idle
    /\ held' = Tail(held) /\ AppendFrame("chunk", Head(held), TRUE)
    /\ UNCHANGED <<voice, work, lines, mode, since, hand, sessions, overtaken, replaced>>

\* Mutant: a turn that is given up meanwhile is waited for.
DrainedUnlessGaveUp ==
    /\ hand.at = "drain" /\ held = <<>> /\ app["chunk"] = Idle /\ mode = "draining"
    /\ mode' = "direct" /\ hand' = [hand EXCEPT !.at = "publishing"]
    /\ UNCHANGED <<voice, work, lines, streaming, closed, held, since, app, sessions, sock, ghosts, faults>>

Drained ==
    /\ hand.at = "drain" /\ held = <<>> /\ app["chunk"] = Idle
    /\ mode' = "direct" /\ hand' = [hand EXCEPT !.at = "publishing"]
    /\ UNCHANGED <<voice, work, lines, streaming, closed, held, since, app, sessions, sock, ghosts, faults>>

\* What is left to publish, if anything; then the chunk is acknowledged.
Finish ==
    /\ hand.at = "publishing" /\ EndWindow
    /\ Publish(FALSE) \/ UNCHANGED <<lines, faults>>
    /\ UNCHANGED <<voice, work, streaming, closed, sessions, sock, ghosts>>

Leave ==
    /\ EndWindow /\ pending' = pending \cup {hand.turn}
    /\ UNCHANGED <<voice, chunks, tries, streaming, closed>>

Raises ==
    /\ \/ hand.at = "begun" /\ Fault /\ UNCHANGED lines
       \/ hand.at = "publishing" /\ Publish(TRUE)
    /\ Leave /\ UNCHANGED <<sessions, sock, ghosts>>

\* The handler is cancelled wherever it is.
TimesOut ==
    /\ Handling /\ Fault /\ Leave
    /\ sock' = IF hand.conn = 0 THEN sock ELSE [sock EXCEPT ![hand.conn].busy = FALSE]
    /\ torn' = (torn \cup {app["chunk"].epoch} \cup
                (IF hand.at \in {"ready", "sending"} THEN {hand.epoch, hand.conn} ELSE {})) \ {0}
    /\ UNCHANGED <<lines, sessions, overtaken, replaced>>

Reclaim(t) ==
    /\ t \in pending /\ pending' = pending \ {t} /\ chunks' = Append(chunks, t)
    /\ UNCHANGED <<voice, tries, lines, streaming, closed, window, app, hand, sessions, sock, ghosts, faults>>

\* The worker dies: frames it had read are dropped, a chunk it had is delivered again.
Crash ==
    /\ Fault /\ (Handling \/ session # 0)
    /\ held' = <<>> /\ mode' = None /\ since' = FALSE
    /\ app' = [w \in {"loop", "chunk"} |-> Idle] /\ hand' = Free
    /\ pending' = pending \cup (IF Handling THEN {hand.turn} ELSE {})
    /\ streaming' = NoTurn /\ closed' = 0 /\ session' = 0 /\ opening' = FALSE
    /\ UNCHANGED <<voice, chunks, tries, lines, opened, sock, ghosts>>

Frames == Receive \/ (\E w \in {"loop", "chunk"} : GoOn(w) \/ Landed(w)) \/ HaveLock
Handle ==
    \/ Take \/ Skip \/ Pop \/ UseSession \/ SendAudio \/ Commit \/ Early \/ Complete
    \/ Fails \/ Drain \/ Drained \/ Finish \/ Raises

Next ==
    \/ Speak \/ EndOfTurn \/ Track \/ Prewarmed \/ Sweep \/ Renew
    \/ Frames \/ Handle \/ TimesOut \/ Crash
    \/ \E t \in Turns : Reclaim(t)

Spec == Init /\ [][Next]_vars
FairSpec ==
    Spec /\ WF_vars(Frames) /\ WF_vars(Handle) /\ WF_vars(\E t \in Turns : Reclaim(t))

(***************************************************************************)
(* Properties.                                                             *)
(***************************************************************************)
\* Every variable has its type.
TypeOK ==
    /\ said \in [Turns -> 0..MaxPieces] /\ turn \in 1..(MaxTurns + 1)
    /\ Range(stream) \cup Range(held) \subseteq Pieces
    /\ Range(chunks) \cup pending \cup marked \cup unmarked \subseteq Turns
    /\ tries \in [Turns -> Attempts \cup {0}] /\ out \in [Turns -> SUBSET Attempts]
    /\ streaming \in [turn : Turns \cup {0}, epoch : Epochs \cup {0}, next : 1..(MaxPieces + 1)]
    /\ closed \in Turns \cup {0} /\ since \in BOOLEAN
    /\ mode \in {None, "draining", "direct", "gave_up"}
    /\ \A w \in DOMAIN app : app[w].at \in {"idle", "cleared", "queued", "sent"}
    /\ hand.at \in {"idle", "begun", "ready", "sending", "listening", "heard", "refused", "drain", "publishing"}
    /\ hand.turn \in Turns \cup {0} /\ (Handling <=> hand.turn # 0)
    /\ session \in Epochs \cup {0} /\ opened \in Epochs \cup {0} /\ opening \in BOOLEAN
    /\ \A e \in Epochs : Range(sock[e].buf) \subseteq Pieces /\ {sock[e].dirty, sock[e].busy} \subseteq BOOLEAN
    /\ faults \in 0..MaxFaults

\* What a commit takes is the beginning of its own turn, in order and nothing else,
\* whatever was lost, held, dropped, abandoned, renewed or done again
\* (stt_worker/worker.py:645, stt_worker/model.py:1684).  But for four ways of
\* the code: an append waits for the lock, goes past it or is being sent when a
\* handler takes it or the session is replaced; the track's session takes the
\* place of one in use, and the turn is not sent again; a clear fails, or empties the
\* buffer under a handler that is sending; a handler is cancelled in the middle.
FromTheBeginning == [][hand.at = "sending" /\ hand'.at = "listening" =>
    \/ \A i \in DOMAIN hand'.item : hand'.item[i] = <<hand.turn, i>>
    \/ hand.turn \in overtaken
    \/ hand.turn \in replaced /\ hand.epoch = hand.conn
    \/ hand.conn \in torn]_vars

\* The same with no exception, as stt_worker/worker.py:645 and model.py:3121 have it.
NothingButItsTurn == [][hand.at = "sending" /\ hand'.at = "listening" =>
    \A i \in DOMAIN hand'.item : hand'.item[i] = <<hand.turn, i>>]_vars

\* What a commit takes is its whole turn (stt_worker/worker.py:639).
WholeTurn == hand.at \in {"listening", "heard"} => Len(hand.item) >= said[hand.turn]

\* One delivery of a chunk publishes, whatever happens to the others: a second
\* transcription would be other lines (stt_worker/worker.py:1135).
OneDelivery == \A t \in Turns : Cardinality(out[t]) > 1 => t \in unmarked

\* The chunks are all handled to their end, again and again
\* (stt_worker/worker.py:854).
Settled == []<>(Range(chunks) \cup pending = {} /\ ~Handling)
=============================================================================
