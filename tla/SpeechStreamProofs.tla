------------------------ MODULE SpeechStreamProofs ------------------------
(* Theorems about SpeechStream, for any numbers of turns, pieces, sessions *)
(* and faults.                                                             *)
EXTENDS SpeechStream, SequenceTheorems, FiniteSetTheorems, TLAPS

Ws == {"loop", "chunk"}
Piece == Turns \X (Nat \ {0})
Waiting == [at : {"cleared", "queued"}, frame : Piece, epoch : {0}, direct : BOOLEAN]
Sent == [at : {"sent"}, frame : Piece, epoch : Epochs, direct : BOOLEAN]
Stages == {"begun", "ready", "sending", "listening", "heard", "refused", "drain", "publishing"}
Sock == [buf : Seq(Piece), dirty : BOOLEAN, busy : BOOLEAN]

VoiceTyped ==
    /\ said \in [Turns -> Nat] /\ turn \in 1..(MaxTurns + 1) /\ stream \in Seq(Piece)
    /\ chunks \in Seq(Turns) /\ pending \subseteq Turns /\ tries \in [Turns -> Nat]

LinesTyped == marked \subseteq Turns /\ unmarked \subseteq Turns /\ out \in [Turns -> SUBSET Nat]

WindowTyped ==
    /\ held \in Seq(Piece) /\ since \in BOOLEAN
    /\ mode \in {None, "draining", "direct", "gave_up"}

\* What an append changes.
AppTyped ==
    /\ streaming \in [turn : Turns \cup {0}, epoch : Epochs \cup {0}, next : Nat \ {0}]
    /\ closed \in Turns \cup {0}
    /\ app \in [Ws -> {Idle} \cup Waiting \cup Sent]
    /\ sock \in [Epochs -> Sock] /\ torn \subseteq Epochs /\ faults \in Nat

Hands == [at : Stages \cup {"idle"}, turn : Turns \cup {0}, epoch : Epochs \cup {0},
          conn : Epochs \cup {0}, sent : Nat, again : {"no", "empty", "failed"},
          item : Seq(Piece)]

HandTyped ==
    /\ hand \in Hands
    /\ hand.at = "idle" => hand = Free
    /\ hand.at # "idle" => hand.turn \in Turns
    /\ hand.at \in {"sending", "listening", "heard", "refused"} => hand.conn # 0

SessionTyped ==
    /\ session \in Epochs \cup {0} /\ opened \in Epochs \cup {0} /\ opening \in BOOLEAN
    /\ overtaken \subseteq Turns /\ replaced \subseteq Turns

Typed ==
    /\ VoiceTyped /\ LinesTyped /\ WindowTyped /\ AppTyped /\ HandTyped /\ SessionTyped

LEMMA BoundsTyped ==
    MaxTurns \in Nat \ {0} /\ MaxPieces \in Nat \ {0} /\ MaxSessions \in Nat \ {0} /\ MaxFaults \in Nat
BY Bounds

LEMMA InitTyped == Init => Typed
  <1>. SUFFICES ASSUME Init PROVE Typed
    OBVIOUS
  <1>1. Empty \in Sock
    <2>1. <<>> \in Seq(Piece)
      OBVIOUS
    <2>. QED
      BY <2>1 DEF Empty, Sock
  <1>2. sock \in [Epochs -> Sock]
    BY <1>1 DEF Init
  <1>3. hand = Free /\ Free \in Hands
    <2>1. <<>> \in Seq(Piece)
      OBVIOUS
    <2>. QED
      BY <2>1 DEF Init, Free, Hands
  <1>4. app \in [Ws -> {Idle} \cup Waiting \cup Sent]
    BY DEF Init, Ws
  <1>5. stream \in Seq(Piece) /\ held \in Seq(Piece) /\ chunks \in Seq(Turns)
    BY DEF Init
  <1>6. hand.at = "idle"
    BY DEF Init, Free
  <1>. QED
    <2>1. VoiceTyped /\ LinesTyped /\ WindowTyped
      <3>1. 1 \in 1..(MaxTurns + 1)
        BY BoundsTyped
      <3>. QED
        BY <1>5, <3>1 DEF Init, None, VoiceTyped, LinesTyped, WindowTyped
    <2>2. AppTyped
      BY <1>2, <1>4 DEF Init, NoTurn, AppTyped
    <2>3. HandTyped /\ SessionTyped
      BY <1>3, <1>6 DEF Init, Free, HandTyped, SessionTyped
    <2>. QED
      BY <2>1, <2>2, <2>3 DEF Typed

\* A session's record, whatever becomes of its buffer.
LEMMA SockFields ==
    ASSUME NEW s \in Sock, NEW b \in Seq(Piece), NEW d \in BOOLEAN
    PROVE  /\ [s EXCEPT !.buf = b] \in Sock /\ [s EXCEPT !.dirty = d] \in Sock
           /\ [s EXCEPT !.busy = d] \in Sock
           /\ [[s EXCEPT !.buf = b] EXCEPT !.dirty = d] \in Sock
           /\ s.buf \in Seq(Piece)
BY DEF Sock

LEMMA EmptyTyped == Empty \in Sock /\ <<>> \in Seq(Piece)
  <1>1. <<>> \in Seq(Piece)
    OBVIOUS
  <1>. QED
    BY <1>1 DEF Empty, Sock

LEMMA StopTyped == ASSUME Typed, NEW w \in Ws, Stop(w)
                   PROVE app' \in [Ws -> {Idle} \cup Waiting \cup Sent]
BY DEF Stop, Typed, VoiceTyped, LinesTyped, WindowTyped, AppTyped, HandTyped, SessionTyped

LEMMA MaybeTyped == ASSUME Typed, NEW b, Maybe(b) PROVE faults' \in Nat
BY DEF Maybe, Fault, Typed, AppTyped

\* The speaker's buffer is emptied or left as it was.
Emptied == IF session = 0 THEN sock
           ELSE [sock EXCEPT ![session].buf = <<>>, ![session].dirty = FALSE]
Wiped ==
    \/ session # 0 /\ sock' = sock /\ torn' = torn \cup {session}
    \/ /\ sock' = Emptied
       /\ torn' = IF hand.at = "sending" /\ hand.conn = session
                  THEN torn \cup {session} ELSE torn \ {session}

LEMMA ClearWipes == ASSUME NEW b, Clear(b) PROVE Wiped /\ \E c \in BOOLEAN : Maybe(b \/ c)
BY DEF Clear, Wiped, Emptied

LEMMA EmptiedTyped == Typed => Emptied \in [Epochs -> Sock]
  <1>. SUFFICES ASSUME Typed, session # 0 PROVE Emptied \in [Epochs -> Sock]
    BY DEF Emptied, Typed, AppTyped
  <1>1. sock[session] \in Sock /\ session \in Epochs
    BY DEF Typed, AppTyped, SessionTyped
  <1>. DEFINE x == [[sock[session] EXCEPT !.buf = <<>>] EXCEPT !.dirty = FALSE]
  <1>2. x \in Sock
    BY <1>1, SockFields, EmptyTyped
  <1>3. Emptied = [sock EXCEPT ![session] = x]
    BY <1>1 DEF Emptied, Typed, AppTyped
  <1>. QED
    BY <1>1, <1>2, <1>3 DEF Typed, AppTyped

LEMMA WipedTyped == ASSUME Typed, Wiped PROVE sock' \in [Epochs -> Sock] /\ torn' \subseteq Epochs
  <1>1. session # 0 => session \in Epochs
    BY DEF Typed, SessionTyped
  <1>2. session = 0 => hand.at # "sending" \/ hand.conn # session
    BY DEF Typed, HandTyped
  <1>. QED
    BY <1>1, <1>2, EmptiedTyped DEF Wiped, Typed, AppTyped

\* What a clear leaves.
LEMMA WipedFacts ==
    ASSUME Typed, Wiped, NEW e \in Epochs
    PROVE  /\ e # session => sock'[e] = sock[e] /\ (e \in torn' <=> e \in torn)
           /\ e = session /\ e \notin torn' => sock'[e].buf = <<>> /\ ~(hand.at = "sending" /\ hand.conn = e)
           /\ sock'[e].buf \in {<<>>, sock[e].buf}
  <1>1. sock \in [Epochs -> Sock] /\ session \in Epochs \cup {0} /\ 0 \notin Epochs
    BY DEF Typed, AppTyped, SessionTyped, Epochs
  <1>2. CASE session # 0 /\ sock' = sock /\ torn' = torn \cup {session}
    BY <1>1, <1>2
  <1>3. CASE /\ sock' = Emptied
             /\ torn' = IF hand.at = "sending" /\ hand.conn = session
                        THEN torn \cup {session} ELSE torn \ {session}
    <2>1. e # session => sock'[e] = sock[e]
      BY <1>1, <1>3 DEF Emptied
    <2>2. e = session => sock'[e].buf = <<>>
      BY <1>1, <1>3 DEF Emptied, Sock
    <2>. QED
      BY <1>3, <2>1, <2>2
  <1>. QED
    BY <1>2, <1>3 DEF Wiped

LEMMA AbandonTyped ==
    ASSUME Typed, NEW t \in Turns \cup {0}, NEW b, Abandon(t, b)
    PROVE  /\ streaming' \in [turn : Turns \cup {0}, epoch : Epochs \cup {0}, next : Nat \ {0}]
           /\ closed' \in Turns \cup {0} /\ sock' \in [Epochs -> Sock]
           /\ torn' \subseteq Epochs /\ faults' \in Nat
BY ClearWipes, WipedTyped, MaybeTyped DEF Abandon, NoTurn

LEMMA SendTyped ==
    ASSUME Typed, NEW w \in Ws, NEW f \in Piece, NEW d \in BOOLEAN, Send(w, f, d)
    PROVE  AppTyped'
  <1>1. CASE Abandon(f[1], FALSE) /\ Stop(w)
    BY <1>1, AbandonTyped, StopTyped DEF Piece, Typed, VoiceTyped, LinesTyped, WindowTyped, AppTyped, HandTyped, SessionTyped
  <1>2. CASE /\ session # 0 /\ sock' = [sock EXCEPT ![session].buf = Append(@, f)]
             /\ app' = [app EXCEPT ![w] = [at |-> "sent", frame |-> f, epoch |-> session, direct |-> d]]
             /\ UNCHANGED <<streaming, closed, torn, faults>>
    <2>1. [at |-> "sent", frame |-> f, epoch |-> session, direct |-> d] \in Sent
      BY <1>2 DEF Sent, Typed, VoiceTyped, LinesTyped, WindowTyped, AppTyped, HandTyped, SessionTyped
    <2>2. app' \in [Ws -> {Idle} \cup Waiting \cup Sent]
      BY <1>2, <2>1 DEF Typed, VoiceTyped, LinesTyped, WindowTyped, AppTyped, HandTyped, SessionTyped
    <2>3. sock' \in [Epochs -> Sock]
      <3>. DEFINE x == [sock[session] EXCEPT !.buf = Append(@, f)]
      <3>1. sock[session] \in Sock /\ session \in Epochs
        BY <1>2 DEF Typed, VoiceTyped, LinesTyped, WindowTyped, AppTyped, HandTyped, SessionTyped
      <3>2. x \in Sock
        <4>1. Append(sock[session].buf, f) \in Seq(Piece)
          <5>1. sock[session].buf \in Seq(Piece)
            BY <3>1 DEF Sock
          <5>. QED
            BY <5>1
        <4>. QED
          BY <3>1, <4>1, SockFields
      <3>3. sock' = [sock EXCEPT ![session] = x]
        BY <1>2
      <3>. QED
        BY <3>1, <3>2, <3>3 DEF Typed, VoiceTyped, LinesTyped, WindowTyped, AppTyped, HandTyped, SessionTyped
    <2>. QED
      BY <1>2, <2>2, <2>3 DEF Typed, VoiceTyped, LinesTyped, WindowTyped, AppTyped, HandTyped, SessionTyped
  <1>. QED
    BY <1>1, <1>2 DEF Send

LEMMA WaitTyped ==
    ASSUME Typed, NEW w \in Ws, NEW f \in Piece, NEW d \in BOOLEAN, NEW a \in {"cleared", "queued"},
           app' = [app EXCEPT ![w] = [at |-> a, frame |-> f, epoch |-> 0, direct |-> d]]
    PROVE  app' \in [Ws -> {Idle} \cup Waiting \cup Sent]
BY DEF Waiting, Typed, VoiceTyped, LinesTyped, WindowTyped, AppTyped, HandTyped, SessionTyped

LEMMA CheckTyped ==
    ASSUME Typed, NEW w \in Ws, NEW f \in Piece, NEW d \in BOOLEAN, NEW n, Check(w, f, d, n)
    PROVE  AppTyped'
  <1>1. CASE Abandon(f[1], FALSE) /\ Stop(w)
    BY <1>1, AbandonTyped, StopTyped DEF Piece, Typed, VoiceTyped, LinesTyped, WindowTyped, AppTyped, HandTyped, SessionTyped
  <1>2. CASE Send(w, f, d)
    BY <1>2, SendTyped
  <1>3. CASE /\ app' = [app EXCEPT ![w] = [at |-> "queued", frame |-> f, epoch |-> 0, direct |-> FALSE]]
             /\ UNCHANGED <<streaming, closed, sock, torn, faults>>
    BY <1>3, WaitTyped DEF Typed, VoiceTyped, LinesTyped, WindowTyped, AppTyped, HandTyped, SessionTyped
  <1>. QED
    BY <1>1, <1>2, <1>3 DEF Check

LEMMA AppendTyped ==
    ASSUME Typed, NEW w \in Ws, NEW f \in Piece, NEW d \in BOOLEAN, AppendFrame(w, f, d)
    PROVE  AppTyped'
  <1>1. CASE Stop(w) /\ UNCHANGED <<streaming, closed, sock, torn, faults>>
    BY <1>1, StopTyped DEF Typed, VoiceTyped, LinesTyped, WindowTyped, AppTyped, HandTyped, SessionTyped
  <1>2. CASE /\ Abandon(streaming.turn, FALSE)
             /\ app' = [app EXCEPT ![w] = [at |-> "cleared", frame |-> f, epoch |-> 0, direct |-> d]]
    <2>1. streaming.turn \in Turns \cup {0}
      BY DEF Typed, VoiceTyped, LinesTyped, WindowTyped, AppTyped, HandTyped, SessionTyped
    <2>. QED
      BY <1>2, <2>1, AbandonTyped, WaitTyped DEF Typed, VoiceTyped, LinesTyped, WindowTyped, AppTyped, HandTyped, SessionTyped
  <1>3. CASE Check(w, f, d, streaming.next)
    BY <1>3, CheckTyped
  <1>. QED
    BY <1>1, <1>2, <1>3 DEF AppendFrame

LEMMA PublishTyped ==
    ASSUME Typed, NEW b \in BOOLEAN, Publish(b), hand.turn \in Turns
    PROVE  /\ marked' \subseteq Turns /\ unmarked' \subseteq Turns /\ out' \in [Turns -> SUBSET Nat]
           /\ faults' \in Nat
BY DEF Publish, Maybe, Fault, Typed, VoiceTyped, LinesTyped, WindowTyped, AppTyped, HandTyped, SessionTyped

LEMMA Unchanged ==
    /\ VoiceTyped /\ UNCHANGED <<voice, work>> => VoiceTyped'
    /\ LinesTyped /\ UNCHANGED lines => LinesTyped'
    /\ WindowTyped /\ UNCHANGED window => WindowTyped'
    /\ AppTyped /\ UNCHANGED <<streaming, closed, app, sock, torn, faults>> => AppTyped'
    /\ AppTyped /\ UNCHANGED <<streaming, closed, app, sock, torn>> /\ faults' \in Nat => AppTyped'
    /\ HandTyped /\ UNCHANGED hand => HandTyped'
    /\ SessionTyped /\ UNCHANGED <<sessions, overtaken, replaced>> => SessionTyped'
BY DEF voice, work, lines, window, sessions, ghosts, VoiceTyped, LinesTyped, WindowTyped, AppTyped,
       HandTyped, SessionTyped

LEMMA NextTyped == Typed /\ [Next]_vars => Typed'
  <1>. SUFFICES ASSUME Typed, [Next]_vars PROVE Typed'
    OBVIOUS
  <1>. USE Bounds DEF voice, work, lines, window, sessions, ghosts
  <1>a. Typed => AppTyped
    BY DEF Typed, VoiceTyped, LinesTyped, WindowTyped, AppTyped, HandTyped, SessionTyped
  <1>1. CASE Speak
    <2>1. PICK lost \in BOOLEAN :
             /\ Maybe(lost) /\ turn \in Turns
             /\ said' = [said EXCEPT ![turn] = @ + 1]
             /\ stream' = IF lost THEN stream ELSE Append(stream, <<turn, said[turn] + 1>>)
             /\ UNCHANGED <<turn, work, lines, streaming, closed, window, app, hand, sessions, sock, ghosts>>
      BY <1>1 DEF Speak
    <2>2. <<turn, said[turn] + 1>> \in Piece
      BY <2>1 DEF Piece, Typed, VoiceTyped, LinesTyped, WindowTyped, AppTyped, HandTyped, SessionTyped
    <2>3. stream' \in Seq(Piece) /\ said' \in [Turns -> Nat]
      BY <2>1, <2>2 DEF Typed, VoiceTyped, LinesTyped, WindowTyped, AppTyped, HandTyped, SessionTyped
    <2>. QED
      BY <2>1, <2>3, MaybeTyped, Unchanged DEF Typed, VoiceTyped
  <1>2. CASE EndOfTurn
    <2>1. turn' = turn + 1 /\ turn \in Turns /\ chunks' \in {chunks, Append(chunks, turn)}
          /\ UNCHANGED <<said, stream, pending, tries, lines, streaming, closed, window, app, hand,
                   sessions, sock, ghosts, faults>>
      BY <1>2 DEF EndOfTurn
    <2>2. turn' \in 1..(MaxTurns + 1) /\ chunks' \in Seq(Turns)
      <3>1. turn + 1 \in 1..(MaxTurns + 1)
        BY <2>1, BoundsTyped DEF Turns
      <3>2. chunks \in Seq(Turns)
        BY DEF Typed, VoiceTyped
      <3>. QED
        BY <2>1, <3>1, <3>2
    <2>. QED
      BY <2>1, <2>2 DEF Typed, VoiceTyped, LinesTyped, WindowTyped, AppTyped, HandTyped, SessionTyped
  <1>3. CASE Track
    BY <1>3 DEF Track, Fault, Typed, VoiceTyped, LinesTyped, WindowTyped, AppTyped, HandTyped, SessionTyped
  <1>s. Sending \subseteq Turns
    <2>1. \A w \in Ws : app[w].at = "sent" => app[w].frame[1] \in Turns
      BY DEF Idle, Waiting, Sent, Piece, Typed, AppTyped
    <2>2. DOMAIN app = Ws
      BY DEF Typed, AppTyped
    <2>. QED
      BY <2>1, <2>2 DEF Sending
  <1>4. CASE Prewarmed
    <2>1. overtaken' \subseteq Turns /\ replaced' \subseteq Turns
      <3>1. streaming.turn \in Turns \cup {0}
        BY DEF Typed, AppTyped
      <3>. QED
        BY <1>4, <1>s, <3>1 DEF Prewarmed, Typed, SessionTyped
    <2>2. opened' \in Epochs /\ session' \in Epochs
      BY <1>4 DEF Prewarmed, Opens, Epochs, Typed, SessionTyped
    <2>. QED
      BY <1>4, <2>1, <2>2 DEF Prewarmed, Typed, VoiceTyped, LinesTyped, WindowTyped, AppTyped, HandTyped, SessionTyped
  <1>5. CASE Sweep
    BY <1>5 DEF Sweep, Fault, Typed, VoiceTyped, LinesTyped, WindowTyped, AppTyped, HandTyped, SessionTyped
  <1>6. CASE Renew
    <2>1. overtaken' \subseteq Turns
      BY <1>6, <1>s DEF Renew, Typed, SessionTyped
    <2>2. opened' \in Epochs /\ session' \in Epochs
      BY <1>6 DEF Renew, Opens, Epochs, Typed, SessionTyped
    <2>. QED
      BY <1>6, <2>1, <2>2 DEF Renew, Fault, Typed, VoiceTyped, LinesTyped, WindowTyped, AppTyped, HandTyped, SessionTyped
  <1>7. CASE Receive
    <2>1. /\ stream # <<>> /\ stream' = Tail(stream)
          /\ UNCHANGED <<said, turn, work, lines, hand, sessions, overtaken, replaced>>
      BY <1>7 DEF Receive
    <2>2. Head(stream) \in Piece /\ stream' \in Seq(Piece) /\ Head(stream)[1] \in Turns
      <3>1. stream \in Seq(Piece)
        BY DEF Typed, VoiceTyped
      <3>2. Head(stream) \in Piece /\ Tail(stream) \in Seq(Piece)
        BY <2>1, <3>1
      <3>. QED
        BY <2>1, <3>2 DEF Piece
    <2>3. CASE Handling /\ mode # "direct"
      <3>1. /\ held' \in Seq(Piece) /\ since' \in BOOLEAN /\ closed' \in Turns \cup {0}
            /\ mode' \in {None, "draining", "direct", "gave_up"}
            /\ UNCHANGED <<streaming, app, sock, torn, faults>>
        <4>1. Append(held, Head(stream)) \in Seq(Piece) /\ <<>> \in Seq(Piece)
          BY <2>2, EmptyTyped DEF Typed, WindowTyped
        <4>. QED
          BY <1>7, <2>2, <2>3, <4>1 DEF Receive, Typed, WindowTyped, AppTyped
      <3>. QED
        BY <2>1, <2>2, <3>1 DEF Typed, VoiceTyped, LinesTyped, WindowTyped, AppTyped, HandTyped, SessionTyped
    <2>4. CASE ~(Handling /\ mode # "direct")
      <3>1. AppendFrame("loop", Head(stream), mode = "direct") /\ UNCHANGED window
        BY <1>7, <2>4 DEF Receive
      <3>2. AppTyped'
        BY <2>2, <3>1, AppendTyped DEF Ws
      <3>. QED
        BY <2>1, <2>2, <3>1, <3>2 DEF Typed, VoiceTyped, LinesTyped, WindowTyped, AppTyped, HandTyped, SessionTyped
    <2>. QED
      BY <2>3, <2>4
  <1>8. ASSUME NEW w \in Ws, GoOn(w) PROVE Typed'
    <2>1. app[w].frame \in Piece /\ app[w].direct \in BOOLEAN
      BY <1>8 DEF GoOn, Idle, Waiting, Sent, Typed, VoiceTyped, LinesTyped, WindowTyped, AppTyped, HandTyped, SessionTyped
    <2>2. AppTyped'
      BY <1>8, <2>1, CheckTyped DEF GoOn
    <2>. QED
      BY <1>8, <2>2 DEF GoOn, Typed, VoiceTyped, LinesTyped, WindowTyped, AppTyped, HandTyped, SessionTyped
  <1>9. CASE HaveLock
    <2>1. app["loop"].frame \in Piece
      BY <1>9 DEF HaveLock, Idle, Waiting, Sent, Ws, Typed, VoiceTyped, LinesTyped, WindowTyped, AppTyped, HandTyped, SessionTyped
    <2>2. AppTyped'
      BY <1>9, <2>1, SendTyped DEF HaveLock, Ws
    <2>. QED
      BY <1>9, <2>2 DEF HaveLock, Typed, VoiceTyped, LinesTyped, WindowTyped, AppTyped, HandTyped, SessionTyped
  <1>10. ASSUME NEW w \in Ws, Landed(w) PROVE Typed'
    <2>1. app[w].frame \in Piece /\ app[w].epoch \in Epochs
      <3>1. app[w] \in {Idle} \cup Waiting \cup Sent /\ app[w].at = "sent"
        BY <1>10 DEF Landed, Typed, AppTyped
      <3>2. app[w] \in Sent
        BY <3>1 DEF Idle, Waiting
      <3>. QED
        BY <3>2 DEF Sent
    <2>2. app' \in [Ws -> {Idle} \cup Waiting \cup Sent]
      BY <1>10, StopTyped DEF Landed
    <2>3. CASE Abandon(app[w].frame[1], TRUE)
      <3>1. app[w].frame[1] \in Turns
        BY <2>1 DEF Piece
      <3>. QED
        BY <1>10, <2>2, <2>3, <3>1, AbandonTyped DEF Landed, Typed, VoiceTyped, LinesTyped, WindowTyped, AppTyped, HandTyped, SessionTyped
    <2>4. CASE /\ sock' = [sock EXCEPT ![app[w].epoch].dirty = TRUE]
               /\ streaming' = [turn |-> app[w].frame[1], epoch |-> app[w].epoch, next |-> app[w].frame[2] + 1]
               /\ UNCHANGED <<closed, torn, faults>>
      <3>1. streaming' \in [turn : Turns \cup {0}, epoch : Epochs \cup {0}, next : Nat \ {0}]
        BY <2>1, <2>4 DEF Piece
      <3>. DEFINE x == [sock[app[w].epoch] EXCEPT !.dirty = TRUE]
      <3>2. sock[app[w].epoch] \in Sock
        BY <2>1 DEF Typed, AppTyped
      <3>3. x \in Sock
        BY <3>2, SockFields, EmptyTyped
      <3>4. sock' \in [Epochs -> Sock]
        BY <2>1, <2>4, <3>3 DEF Typed, AppTyped
      <3>. QED
        BY <1>10, <2>2, <2>4, <3>1, <3>4 DEF Landed, Typed, VoiceTyped, LinesTyped, WindowTyped, AppTyped, HandTyped, SessionTyped
    <2>. QED
      BY <1>10, <2>3, <2>4 DEF Landed
  <1>11. CASE Take
    <2>1. /\ chunks # <<>> /\ hand' = [Free EXCEPT !.at = "begun", !.turn = Head(chunks)]
          /\ chunks' = Tail(chunks) /\ tries' = [tries EXCEPT ![Head(chunks)] = @ + 1]
          /\ overtaken' = overtaken \cup (IF app["loop"].direct THEN {app["loop"].frame[1], Head(chunks)}
                              ELSE IF app["loop"].at = "queued" THEN {app["loop"].frame[1]} ELSE {})
          /\ UNCHANGED <<voice, pending, lines, streaming, closed, window, app, sessions, sock, torn, replaced, faults>>
      BY <1>11 DEF Take
    <2>2. Head(chunks) \in Turns /\ Tail(chunks) \in Seq(Turns)
      <3>1. chunks \in Seq(Turns)
        BY DEF Typed, VoiceTyped
      <3>. QED
        BY <2>1, <3>1
    <2>3. app["loop"].direct \/ app["loop"].at = "queued" => app["loop"].frame[1] \in Turns
      <3>1. app["loop"] # Idle => app["loop"].frame[1] \in Turns
        BY DEF Typed, AppTyped, Ws, Waiting, Sent, Piece
      <3>. QED
        BY <3>1 DEF Idle
    <2>4. hand' \in Hands /\ hand'.at = "begun" /\ hand'.turn = Head(chunks)
      BY <2>1, <2>2, EmptyTyped DEF Free, Hands, Stages
    <2>. QED
      <3>0. tries' \in [Turns -> Nat]
        BY <2>1, <2>2 DEF Typed, VoiceTyped
      <3>1. VoiceTyped'
        BY <2>1, <2>2, <3>0 DEF Typed, VoiceTyped
      <3>2. SessionTyped'
        BY <2>1, <2>2, <2>3 DEF Typed, SessionTyped
      <3>3. HandTyped'
        BY <2>2, <2>4 DEF HandTyped
      <3>. QED
        BY <2>1, <3>1, <3>2, <3>3, Unchanged DEF Typed
  <1>e. ASSUME EndWindow PROVE WindowTyped' /\ HandTyped' /\ app' \in [Ws -> {Idle} \cup Waiting \cup Sent]
    <2>1. Free \in Hands /\ Free.at = "idle"
      BY EmptyTyped DEF Free, Hands
    <2>2. app' \in [Ws -> {Idle} \cup Waiting \cup Sent]
      BY <1>e DEF EndWindow, Typed, AppTyped
    <2>. QED
      BY <1>e, <2>1, <2>2, EmptyTyped DEF EndWindow, WindowTyped, HandTyped
  <1>h. HandTyped /\ hand \in Hands /\ AppTyped /\ (hand.at # "idle" => hand.turn \in Turns)
    BY DEF Typed, HandTyped
  <1>12. CASE Skip
    BY <1>12, <1>e, MaybeTyped, Unchanged DEF Skip, Typed, AppTyped
  <1>13. CASE Pop
    <2>1. /\ hand.at = "begun"
          /\ unmarked' = unmarked \cup ({hand.turn} \cap marked)
          /\ hand' = [hand EXCEPT !.at = "ready",
                                  !.epoch = IF streaming.turn = hand.turn THEN streaming.epoch ELSE 0]
          /\ streaming' = NoTurn /\ closed' = hand.turn
          /\ UNCHANGED <<voice, work, marked, out, window, app, sessions, overtaken, replaced>>
      BY <1>13 DEF Pop
    <2>2. HandTyped'
      BY <1>h, <2>1 DEF HandTyped, Hands, Stages, AppTyped
    <2>3. sock' \in [Epochs -> Sock] /\ torn' \subseteq Epochs /\ faults' \in Nat
      <3>1. (Maybe(hand.turn \in marked) /\ UNCHANGED <<sock, torn>>) \/ Clear(hand.turn \in marked)
        BY <1>13 DEF Pop
      <3>2. CASE Maybe(hand.turn \in marked) /\ UNCHANGED <<sock, torn>>
        BY <3>2, MaybeTyped DEF Typed, AppTyped
      <3>3. CASE Clear(hand.turn \in marked)
        BY <3>3, ClearWipes, WipedTyped, MaybeTyped
      <3>. QED
        BY <3>1, <3>2, <3>3
    <2>4. LinesTyped'
      BY <2>1 DEF Typed, LinesTyped
    <2>. QED
      BY <1>h, <2>1, <2>2, <2>3, <2>4, Unchanged DEF Typed, AppTyped, NoTurn
  <1>q. ASSUME NEW e \in Epochs, NEW b \in BOOLEAN, sock' = [sock EXCEPT ![e].busy = b]
        PROVE  sock' \in [Epochs -> Sock]
    <2>1. sock[e] \in Sock /\ sock \in [Epochs -> Sock]
      BY DEF Typed, AppTyped
    <2>2. [sock[e] EXCEPT !.busy = b] \in Sock
      BY <2>1 DEF Sock
    <2>. QED
      BY <1>q, <2>1, <2>2
  <1>14. CASE UseSession
    <2>1. PICK new \in BOOLEAN :
             /\ hand.at = "ready" /\ (session = 0 => new) /\ Maybe(new /\ session # 0)
             /\ IF new THEN Opens ELSE UNCHANGED <<session, opened>>
             /\ sock' = [sock EXCEPT ![session'].busy = TRUE]
             /\ hand' = [hand EXCEPT !.at = "sending", !.conn = session',
                                     !.sent = IF hand.epoch = session' THEN said[hand.turn] ELSE 0]
             /\ UNCHANGED <<voice, work, lines, streaming, closed, window, app, opening, ghosts>>
      BY <1>14 DEF UseSession
    <2>2. session' \in Epochs /\ opened' \in Epochs \cup {0}
      BY <2>1, BoundsTyped DEF Opens, Typed, SessionTyped, Epochs
    <2>3. said[hand.turn] \in Nat
      BY <1>h, <2>1 DEF Typed, VoiceTyped
    <2>4. HandTyped'
      <3>1. 0 \notin Epochs
        BY DEF Epochs
      <3>. QED
        BY <1>h, <2>1, <2>2, <2>3, <3>1 DEF HandTyped, Hands, Stages
    <2>5. sock' \in [Epochs -> Sock]
      BY <1>q, <2>1, <2>2
    <2>. QED
      BY <1>h, <2>1, <2>2, <2>4, <2>5, MaybeTyped, Unchanged DEF Typed, AppTyped, SessionTyped
  <1>15. CASE SendAudio
    <2>1. /\ hand.at = "sending" /\ hand.sent < said[hand.turn]
          /\ sock' = [sock EXCEPT ![hand.conn].buf = Append(@, <<hand.turn, hand.sent + 1>>)]
          /\ hand' = [hand EXCEPT !.sent = @ + 1]
          /\ UNCHANGED <<voice, work, lines, streaming, closed, window, app, sessions, ghosts, faults>>
      BY <1>15 DEF SendAudio
    <2>2. hand.conn \in Epochs /\ hand.turn \in Turns /\ hand.sent \in Nat
      BY <2>1 DEF Typed, HandTyped, Hands
    <2>3. HandTyped'
      BY <1>h, <2>1, <2>2 DEF HandTyped, Hands
    <2>4. sock' \in [Epochs -> Sock]
      <3>1. <<hand.turn, hand.sent + 1>> \in Piece /\ sock[hand.conn] \in Sock
        BY <2>2 DEF Piece, Typed, AppTyped
      <3>2. Append(sock[hand.conn].buf, <<hand.turn, hand.sent + 1>>) \in Seq(Piece)
        <4>1. sock[hand.conn].buf \in Seq(Piece)
          BY <3>1 DEF Sock
        <4>. QED
          BY <3>1, <4>1
      <3>3. [sock[hand.conn] EXCEPT !.buf = Append(@, <<hand.turn, hand.sent + 1>>)] \in Sock
        BY <3>1, <3>2, SockFields
      <3>. QED
        BY <2>1, <2>2, <3>3 DEF Typed, AppTyped
    <2>. QED
      BY <1>h, <2>1, <2>3, <2>4, Unchanged DEF Typed, AppTyped
  <1>16. CASE Commit
    <2>1. /\ hand.at = "sending"
          /\ sock' = [sock EXCEPT ![hand.conn].buf = <<>>, ![hand.conn].dirty = FALSE]
          /\ hand' = [hand EXCEPT !.at = IF sock[hand.conn].buf = <<>> THEN "refused" ELSE "listening",
                                  !.item = sock[hand.conn].buf]
          /\ torn' = torn \ {hand.conn}
          /\ UNCHANGED <<voice, work, lines, streaming, closed, window, app, sessions, overtaken, replaced, faults>>
      BY <1>16 DEF Commit
    <2>2. hand.conn \in Epochs /\ hand.turn \in Turns /\ sock[hand.conn] \in Sock
      BY <2>1 DEF Typed, HandTyped, Hands, AppTyped
    <2>3. HandTyped'
      <3>1. sock[hand.conn].buf \in Seq(Piece)
        BY <2>2 DEF Sock
      <3>. QED
        BY <1>h, <2>1, <2>2, <3>1 DEF HandTyped, Hands, Stages
    <2>4. sock' \in [Epochs -> Sock]
      <3>. DEFINE x == [[sock[hand.conn] EXCEPT !.buf = <<>>] EXCEPT !.dirty = FALSE]
      <3>1. x \in Sock
        BY <2>2, SockFields, EmptyTyped
      <3>2. sock' = [sock EXCEPT ![hand.conn] = x]
        BY <2>1, <2>2 DEF Typed, AppTyped
      <3>. QED
        BY <2>2, <3>1, <3>2 DEF Typed, AppTyped
    <2>. QED
      BY <1>h, <2>1, <2>3, <2>4, Unchanged DEF Typed, AppTyped
  <1>p. ASSUME NEW b \in BOOLEAN, Publish(b), hand.turn \in Turns PROVE LinesTyped' /\ faults' \in Nat
    BY <1>p, PublishTyped DEF LinesTyped
  <1>17. CASE Early
    <2>1. HandTyped'
      BY <1>h, <1>17 DEF Early, HandTyped, Hands, Stages
    <2>2. hand.turn \in Turns
      BY <1>h, <1>17 DEF Early
    <2>. QED
      BY <1>17, <1>p, <2>1, <2>2, Unchanged DEF Early, Typed
  <1>k. ASSUME Quit, hand.at \in {"sending", "listening", "heard", "refused"} PROVE sock' \in [Epochs -> Sock]
    <2>1. hand.conn \in Epochs
      BY <1>k DEF Typed, HandTyped, Hands
    <2>. QED
      BY <1>k, <1>q, <2>1 DEF Quit
  <1>18. CASE Complete
    <2>1. hand.at \in {"listening", "heard"} /\ Quit
          /\ UNCHANGED <<voice, work, lines, streaming, closed, held, since, app, sessions, ghosts, faults>>
      BY <1>18 DEF Complete
    <2>2. HandTyped' /\ WindowTyped'
      <3>1. /\ hand' \in {[hand EXCEPT !.at = "ready", !.epoch = 0, !.again = "empty", !.item = <<>>],
                         [hand EXCEPT !.at = "publishing"], [hand EXCEPT !.at = "drain"]}
            /\ mode' \in {mode, "draining"}
        BY <1>18 DEF Complete, Release
      <3>2. HandTyped'
        BY <1>h, <2>1, <3>1, EmptyTyped DEF HandTyped, Hands, Stages
      <3>. QED
        BY <2>1, <3>1, <3>2 DEF Typed, WindowTyped
    <2>. QED
      BY <1>h, <1>k, <2>1, <2>2, Unchanged DEF Typed, AppTyped
  <1>19. CASE Fails
    <2>1. /\ hand.at \in {"ready", "sending", "listening", "heard", "refused"}
          /\ sock' = IF hand.at = "sending" THEN [sock EXCEPT ![hand.conn] = Empty]
                     ELSE IF hand.conn # 0 THEN [sock EXCEPT ![hand.conn].busy = FALSE] ELSE sock
          /\ UNCHANGED <<voice, work, streaming, closed, held, since, app, opened, opening, ghosts>>
      BY <1>19 DEF Fails
    <2>2. LinesTyped' /\ faults' \in Nat
      <3>1. \/ UNCHANGED <<lines, faults>> \/ (Fault /\ UNCHANGED lines) \/ Publish(TRUE)
        BY <1>19 DEF Fails
      <3>2. faults \in Nat /\ LinesTyped
        BY DEF Typed, AppTyped
      <3>3. CASE UNCHANGED lines /\ (Fault \/ UNCHANGED faults)
        BY <3>2, <3>3, Unchanged DEF Fault
      <3>4. CASE Publish(TRUE)
        <4>1. hand.turn \in Turns
          BY <1>h, <2>1, <3>1
        <4>. QED
          BY <1>p, <3>4, <4>1
      <3>. QED
        BY <3>1, <3>3, <3>4
    <2>3. hand.conn \in Epochs \cup {0} /\ (hand.at = "sending" => hand.conn # 0)
      BY <2>1 DEF Typed, HandTyped, Hands
    <2>4. sock' \in [Epochs -> Sock]
      BY <1>q, <2>1, <2>3, EmptyTyped DEF Typed, AppTyped
    <2>5. /\ hand' \in {[hand EXCEPT !.at = "ready", !.epoch = 0, !.again = "failed", !.item = <<>>],
                       [hand EXCEPT !.at = "publishing"], [hand EXCEPT !.at = "drain"]}
          /\ session' \in {0, session} /\ mode' \in {mode, "draining"}
      BY <1>19 DEF Fails, Release, Typed, HandTyped, Hands
    <2>6. HandTyped'
      BY <1>h, <2>1, <2>5, EmptyTyped DEF HandTyped, Hands, Stages
    <2>7. WindowTyped' /\ SessionTyped'
      BY <2>1, <2>5 DEF Typed, WindowTyped, SessionTyped
    <2>. QED
      BY <1>h, <2>1, <2>2, <2>4, <2>6, <2>7, Unchanged DEF Typed, AppTyped
  <1>20. CASE Drain
    <2>1. /\ held # <<>> /\ held' = Tail(held) /\ AppendFrame("chunk", Head(held), TRUE)
          /\ UNCHANGED <<voice, work, lines, mode, since, hand, sessions, overtaken, replaced>>
      BY <1>20 DEF Drain
    <2>2. Head(held) \in Piece /\ held' \in Seq(Piece)
      <3>1. held \in Seq(Piece)
        BY DEF Typed, WindowTyped
      <3>. QED
        BY <2>1, <3>1
    <2>3. AppTyped'
      BY <2>1, <2>2, AppendTyped DEF Ws
    <2>. QED
      BY <2>1, <2>2, <2>3, Unchanged DEF Typed, WindowTyped
  <1>21. CASE Drained
    <2>1. HandTyped' /\ WindowTyped'
      BY <1>h, <1>21 DEF Drained, HandTyped, Hands, Stages, WindowTyped, Typed
    <2>. QED
      BY <1>21, <2>1, Unchanged DEF Drained, Typed
  <1>22. CASE Finish
    <2>1. LinesTyped' /\ faults' \in Nat
      BY <1>h, <1>22, <1>p, Unchanged DEF Finish, Typed, AppTyped
    <2>. QED
      BY <1>22, <1>e, <2>1, Unchanged DEF Finish, Typed, AppTyped
  <1>v. ASSUME Leave, hand.at # "idle" PROVE VoiceTyped' /\ WindowTyped' /\ HandTyped' /\ UNCHANGED <<streaming, closed>>
                        /\ app' \in [Ws -> {Idle} \cup Waiting \cup Sent]
    BY <1>e, <1>h, <1>v DEF Leave, VoiceTyped, Typed
  <1>23. CASE Raises
    <2>1. LinesTyped' /\ faults' \in Nat
      <3>1. hand.at # "idle" /\ ((Fault /\ UNCHANGED lines) \/ Publish(TRUE))
        BY <1>23 DEF Raises
      <3>2. faults \in Nat /\ LinesTyped
        BY DEF Typed, AppTyped
      <3>3. CASE UNCHANGED lines /\ (Fault \/ UNCHANGED faults)
        BY <3>2, <3>3, Unchanged DEF Fault
      <3>4. CASE Publish(TRUE)
        <4>1. hand.turn \in Turns
          BY <1>h, <3>1
        <4>. QED
          BY <1>p, <3>4, <4>1
      <3>. QED
        BY <3>1, <3>3, <3>4
    <2>. QED
      BY <1>23, <1>v, <2>1, Unchanged DEF Raises, Typed, AppTyped
  <1>24. CASE TimesOut
    <2>1. /\ hand.at # "idle" /\ Fault /\ Leave /\ UNCHANGED <<lines, sessions, overtaken, replaced>>
          /\ sock' = IF hand.conn = 0 THEN sock ELSE [sock EXCEPT ![hand.conn].busy = FALSE]
          /\ torn' = (torn \cup {app["chunk"].epoch} \cup
                (IF hand.at \in {"ready", "sending"} THEN {hand.epoch, hand.conn} ELSE {})) \ {0}
      BY <1>24 DEF TimesOut, Handling
    <2>2. hand.conn \in Epochs \cup {0} /\ hand.epoch \in Epochs \cup {0}
      BY DEF Typed, HandTyped, Hands
    <2>3. app["chunk"].epoch \in Epochs \cup {0}
      BY DEF Typed, AppTyped, Ws, Idle, Waiting, Sent
    <2>4. sock' \in [Epochs -> Sock] /\ faults' \in Nat
      <3>1. faults \in Nat /\ sock \in [Epochs -> Sock]
        BY DEF Typed, AppTyped
      <3>2. faults' \in Nat
        BY <2>1, <3>1 DEF Fault
      <3>. QED
        BY <1>q, <2>1, <2>2, <3>1, <3>2
    <2>5. torn' \subseteq Epochs
      BY <2>1, <2>2, <2>3 DEF Typed, AppTyped
    <2>. QED
      BY <1>v, <2>1, <2>4, <2>5, Unchanged DEF Typed, AppTyped
  <1>25. ASSUME NEW t \in Turns, Reclaim(t) PROVE Typed'
    <2>1. chunks' \in Seq(Turns)
      BY <1>25 DEF Reclaim, Typed, VoiceTyped
    <2>. QED
      BY <1>25, <2>1, Unchanged DEF Reclaim, Typed, VoiceTyped
  <1>26. CASE Crash
    <2>1. Free \in Hands /\ Free.at = "idle"
      BY EmptyTyped DEF Free, Hands
    <2>2. AppTyped'
      BY <1>26 DEF Crash, Fault, Typed, AppTyped, NoTurn, Ws
    <2>3. VoiceTyped'
      BY <1>h, <1>26 DEF Crash, Typed, VoiceTyped, Handling
    <2>. QED
      BY <1>26, <2>1, <2>2, <2>3, EmptyTyped, Unchanged
      DEF Crash, Typed, HandTyped, WindowTyped, SessionTyped
  <1>27. CASE UNCHANGED vars
    BY <1>27, Unchanged DEF Typed, vars
  <1>. QED
    BY <1>1, <1>2, <1>3, <1>4, <1>5, <1>6, <1>7, <1>8, <1>9, <1>10, <1>11, <1>12, <1>13, <1>14, <1>15,
       <1>16, <1>17, <1>18, <1>19, <1>20, <1>21, <1>22, <1>23, <1>24, <1>25, <1>26, <1>27
    DEF Next, Frames, Handle, Ws

-----------------------------------------------------------------------------
(* One delivery publishes.                                                   *)

Begun == hand.at \notin {"idle", "begun"}

\* Unless a mark could not be set or read: what is published is marked, by one
\* delivery, and by this one while its handler is past the look at the mark.
Once ==
    \A t \in Turns \ unmarked :
        /\ out[t] # {} => t \in marked
        /\ \E a \in Nat : out[t] \subseteq {a}
        /\ Begun /\ hand.turn = t => out[t] \subseteq {tries[t]}

LEMMA SameOnce ==
    ASSUME Once, UNCHANGED <<lines, tries>>, Begun' => Begun /\ hand'.turn = hand.turn
    PROVE  Once'
BY DEF Once, lines

LEMMA PublishOnce ==
    ASSUME Typed, Once, Begun, NEW b \in BOOLEAN, Publish(b), UNCHANGED tries,
           Begun' => hand'.turn = hand.turn
    PROVE  Once'
  <1>1. hand.turn \in Turns /\ tries[hand.turn] \in Nat
    BY DEF Typed, HandTyped, VoiceTyped, Begun
  <1>2. PICK mark \in BOOLEAN :
          /\ marked' = IF mark THEN marked \cup {hand.turn} ELSE marked
          /\ unmarked' = IF mark THEN unmarked ELSE unmarked \cup {hand.turn}
          /\ out' = IF b THEN out ELSE [out EXCEPT ![hand.turn] = @ \cup {tries[hand.turn]}]
          /\ mark \/ ~b
    BY DEF Publish
  <1>3. out \in [Turns -> SUBSET Nat]
    BY DEF Typed, LinesTyped
  <1>. SUFFICES ASSUME NEW t \in Turns \ unmarked'
                PROVE  /\ out'[t] # {} => t \in marked'
                       /\ \E a \in Nat : out'[t] \subseteq {a}
                       /\ Begun' /\ hand'.turn = t => out'[t] \subseteq {tries'[t]}
    BY DEF Once
  <1>4. t \notin unmarked
    BY <1>2
  <1>5. CASE t = hand.turn
    <2>1. mark /\ t \in marked' /\ out[t] \subseteq {tries[t]}
      BY <1>2, <1>4, <1>5 DEF Once
    <2>2. out'[t] \subseteq {tries[t]}
      BY <1>2, <1>3, <1>5, <2>1
    <2>. QED
      BY <1>1, <1>5, <2>1, <2>2
  <1>6. CASE t # hand.turn
    <2>1. out'[t] = out[t] /\ (t \in marked => t \in marked')
      BY <1>2, <1>3, <1>6
    <2>. QED
      BY <1>4, <1>6, <2>1 DEF Once
  <1>. QED
    BY <1>5, <1>6

LEMMA NextOnce == Typed /\ Once /\ [Next]_vars => Once'
  <1>. SUFFICES ASSUME Typed, Once, [Next]_vars PROVE Once'
    OBVIOUS
  <1>. USE DEF voice, work, window, sessions, ghosts
  <1>h. hand \in Hands /\ (hand.at # "idle" => hand.turn \in Turns)
    BY DEF Typed, HandTyped
  <1>f. Free.at = "idle"
    BY DEF Free
  <1>1. CASE Speak \/ EndOfTurn \/ Track \/ Prewarmed \/ Sweep \/ Renew \/ HaveLock \/ Receive \/ Drain
    <2>1. UNCHANGED <<lines, tries, hand>>
      BY <1>1 DEF Speak, EndOfTurn, Track, Prewarmed, Sweep, Renew, HaveLock, Receive, Drain
    <2>. QED
      BY <2>1, SameOnce DEF Begun
  <1>2. ASSUME NEW w \in Ws, GoOn(w) \/ Landed(w) PROVE Once'
    BY <1>2, SameOnce DEF Begun, GoOn, Landed
  <1>3. ASSUME NEW t \in Turns, Reclaim(t) PROVE Once'
    BY <1>3, SameOnce DEF Begun, Reclaim
  <1>4. CASE UNCHANGED vars
    BY <1>4, SameOnce DEF Begun, vars
  <1>5. CASE Take
    <2>1. UNCHANGED lines /\ hand'.at = "begun" /\ hand.at = "idle"
      BY <1>5 DEF Take, Free, Handling
    <2>. QED
      BY <2>1 DEF Once, Begun, lines
  <1>6. CASE Skip \/ TimesOut \/ Crash
    <2>1. UNCHANGED <<lines, tries>> /\ hand'.at = "idle"
      BY <1>6, <1>f DEF Skip, TimesOut, Crash, EndWindow, Leave
    <2>. QED
      BY <2>1, SameOnce DEF Begun
  <1>7. CASE Pop
    <2>1. /\ hand.at = "begun" /\ unmarked' = unmarked \cup ({hand.turn} \cap marked)
          /\ hand'.turn = hand.turn /\ UNCHANGED <<marked, out, tries>>
      BY <1>7, <1>h DEF Pop, Hands
    <2>. QED
      BY <2>1 DEF Once
  <1>8. CASE UseSession \/ SendAudio \/ Commit \/ Complete \/ Drained
    <2>1. UNCHANGED <<lines, tries>> /\ Begun /\ hand'.turn = hand.turn
      BY <1>8, <1>h DEF UseSession, SendAudio, Commit, Complete, Drained, Begun, Hands
    <2>. QED
      BY <2>1, SameOnce
  <1>9. CASE Early
    <2>1. Publish(FALSE) /\ Begun /\ UNCHANGED tries /\ hand'.turn = hand.turn
      BY <1>9, <1>h DEF Early, Begun, Hands
    <2>. QED
      BY <2>1, PublishOnce
  <1>10. CASE Fails
    <2>1. /\ Begun /\ UNCHANGED tries /\ hand'.turn = hand.turn
          /\ UNCHANGED lines \/ Publish(TRUE)
      BY <1>10, <1>h DEF Fails, Begun, Hands, Release
    <2>. QED
      BY <2>1, PublishOnce, SameOnce
  <1>11. CASE Finish
    <2>1. Begun /\ UNCHANGED tries /\ hand'.at = "idle" /\ (Publish(FALSE) \/ UNCHANGED lines)
      BY <1>11, <1>f DEF Finish, EndWindow, Begun
    <2>. QED
      BY <2>1, PublishOnce, SameOnce DEF Begun
  <1>12. CASE Raises
    <2>1. /\ UNCHANGED tries /\ hand'.at = "idle"
          /\ UNCHANGED lines \/ (Begun /\ Publish(TRUE))
      BY <1>12, <1>f DEF Raises, Leave, EndWindow, Begun
    <2>. QED
      BY <2>1, PublishOnce, SameOnce DEF Begun
  <1>. QED
    BY <1>1, <1>2, <1>3, <1>4, <1>5, <1>6, <1>7, <1>8, <1>9, <1>10, <1>11, <1>12 DEF Next, Frames, Handle, Ws

LEMMA TypedAlways == Spec => []Typed
  <1>. QED
    BY InitTyped, NextTyped, PTL DEF Spec

\* Whatever fails, is cancelled or is delivered again, one delivery of a
\* chunk publishes lines, unless a mark could not be set or read
\* (STTWorker._publish_stt_result, _chunk_already_published).
THEOREM OneDeliveryPublishes == Spec => []OneDelivery
  <1>1. Init => Once
    BY DEF Init, Once, Begun, Free
  <1>2. Typed /\ Once => OneDelivery
    <2>. SUFFICES ASSUME Typed, Once, NEW t \in Turns, t \notin unmarked PROVE ~(Cardinality(out[t]) > 1)
      BY DEF OneDelivery
    <2>1. PICK a \in Nat : out[t] \subseteq {a}
      BY DEF Once
    <2>2. IsFiniteSet({a}) /\ Cardinality({a}) = 1
      BY FS_Singleton
    <2>3. Cardinality(out[t]) \in Nat /\ Cardinality(out[t]) <= 1
      BY <2>1, <2>2, FS_Subset, FS_CardinalityType
    <2>. QED
      BY <2>3
  <1>. QED
    BY <1>1, <1>2, TypedAlways, NextOnce, PTL DEF Spec
-----------------------------------------------------------------------------
(* What a commit takes is the beginning of its turn.                         *)

Of(w) == app[w].frame[1]
Nth(w) == app[w].frame[2]
SentTo(w, e) == app[w].at = "sent" /\ app[w].epoch = e
Busy == \E w \in Ws : app[w] # Idle
Begins(b, t) == \A i \in DOMAIN b : b[i] = <<t, i>>
Left == Range(stream) \cup Range(held)
\* The turn t is over, and all its frames have been read.
Gone(t) == t # turn /\ \A f \in Left : f[1] # t

\* A chunk comes after its turn; frames are of turns that have begun.
Past ==
    /\ \A f \in Left : f[1] <= turn
    /\ \A w \in Ws : Of(w) <= turn
    /\ streaming.turn <= turn /\ hand.turn < turn
    /\ \A t \in Range(chunks) \cup pending : t < turn

\* A session to be opened is in no one's hands.
Fresh ==
    /\ \A w \in Ws : app[w].epoch <= opened
    /\ streaming.epoch <= opened /\ hand.epoch <= opened /\ hand.conn <= opened
    /\ session \in {0, opened}
    /\ \A e \in Epochs : e > opened => sock[e] = Empty

Shape ==
    /\ streaming.turn = 0 => streaming = NoTurn
    /\ hand.at = "idle" => held = <<>> /\ mode = None
    /\ hand.again # "no" => hand.epoch = 0 /\ hand.at # "begun"
    /\ mode = "direct" => hand.at = "publishing"

Commits == {"ready", "sending", "listening", "heard", "refused"}

\* An append and a handler at once: one was suspended while the other began.
Alone ==
    /\ app["chunk"] # Idle =>
         /\ hand.at = "drain" /\ app["loop"] = Idle /\ app["chunk"].direct
         /\ app["chunk"].at # "queued"
    /\ app["loop"] # Idle /\ Handling /\ ~app["loop"].direct =>
         app["loop"].at = "cleared" \/ (app["loop"].at = "queued" /\ Of("loop") \in overtaken)
    /\ app["loop"] # Idle /\ Handling /\ ~(hand.at = "publishing" /\ mode = "direct") =>
         held = <<>> /\ (app["loop"].direct => hand.turn \in overtaken /\ Of("loop") \in overtaken)
    /\ hand.at \in Commits /\ streaming.turn # 0 =>
         hand.turn \in overtaken /\ streaming.turn \in overtaken

\* What is appended goes on with the turn in the buffer.
Follows ==
    /\ \A w \in Ws : app[w] # Idle => streaming.turn \in {0, Of(w)}
    /\ \A w \in Ws : app[w].at = "cleared" => streaming.turn = 0
    /\ \A w \in Ws : app[w].at = "sent" => streaming.epoch <= app[w].epoch
    /\ app["loop"].at = "queued" => Of("loop") \in overtaken \/ Nth("loop") = streaming.next

\* Turns that an append or the track's session may have spoilt.
Excused == overtaken \cup replaced

\* A session that took the place of another.
Elsewhere == session # 0 =>
    /\ \A w \in Ws : app[w].at = "sent" /\ app[w].epoch # session => Of(w) \in overtaken
    /\ streaming.turn # 0 /\ streaming.turn \notin Excused =>
         IF streaming.epoch = session THEN sock[session].dirty ELSE Gone(streaming.turn) /\ ~Busy

\* The handler's session: what it has popped, or what it sends to.
Taken == \/ hand.at = "ready" /\ hand.epoch = session
         \/ hand.at = "sending" /\ hand.conn = session

\* The buffer of the speaker's session is the beginning of a turn.
Buffered == session # 0 /\ session \notin torn =>
    LET b == sock[session].buf IN
    /\ \A w \in Ws : SentTo(w, session) /\ Of(w) \notin Excused => Begins(b, Of(w)) /\ Len(b) = Nth(w)
    /\ streaming.turn # 0 /\ streaming.epoch = session /\ streaming.turn \notin Excused =>
         \/ \E w \in Ws : SentTo(w, session) /\ Nth(w) = streaming.next
         \/ Begins(b, streaming.turn) /\ Len(b) = streaming.next - 1
    /\ b # <<>> => \/ \E w \in Ws : SentTo(w, session)
                   \/ streaming.turn # 0 /\ streaming.epoch = session
                   \/ Taken

\* What the handler commits is the beginning of its turn.
InHand ==
    /\ hand.at = "sending" => hand.sent <= said[hand.turn]
    /\ hand.turn \notin overtaken =>
         /\ hand.at = "ready" /\ hand.epoch = session /\ session \notin torn \cup {0} /\ hand.turn \notin replaced =>
              Begins(sock[session].buf, hand.turn)
         /\ hand.at = "sending" /\ hand.conn \notin torn /\ (hand.turn \in replaced => hand.epoch # hand.conn) =>
              /\ Begins(sock[hand.conn].buf, hand.turn)
              /\ hand.sent \in {said[hand.turn], Len(sock[hand.conn].buf)}

Inv == Past /\ Fresh /\ Shape /\ Alone /\ Follows /\ Elsewhere /\ Buffered /\ InHand

LEMMA AppFacts ==
    ASSUME Typed, NEW w \in Ws
    PROVE  /\ app[w] \in {Idle} \cup Waiting \cup Sent
           /\ Of(w) \in Turns \cup {0} /\ (app[w] = Idle <=> Of(w) = 0)
           /\ app[w].epoch \in Epochs \cup {0} /\ (app[w].at = "sent" <=> app[w].epoch # 0)
           /\ (app[w] = Idle <=> app[w].at = "idle") /\ Nth(w) \in Nat
           /\ app[w] # Idle => app[w].frame \in Piece /\ app[w].direct \in BOOLEAN
           /\ app[w] # Idle => app[w].at \in {"cleared", "queued", "sent"}
           /\ DOMAIN app = Ws
  <1>1. app[w] \in {Idle} \cup Waiting \cup Sent /\ DOMAIN app = Ws
    BY DEF Typed, AppTyped
  <1>2. 0 \notin Epochs /\ 0 \notin Turns
    BY DEF Epochs, Turns
  <1>3. CASE app[w] = Idle
    BY <1>1, <1>2, <1>3 DEF Idle, Of, Nth
  <1>4. CASE app[w] \in Waiting \cup Sent
    BY <1>1, <1>2, <1>4 DEF Idle, Waiting, Sent, Piece, Of, Nth
  <1>. QED
    BY <1>1, <1>3, <1>4

\* What an append comes to: the frame is dropped, its turn is ended, the turn
\* before it is, or the frame goes on with the turn in the buffer.
Dropped(w) == Stop(w) /\ UNCHANGED <<streaming, sock, torn>>
Over(w) == Stop(w) /\ streaming' = NoTurn /\ Wiped
Restarts(w, f, d) ==
    /\ streaming' = NoTurn /\ Wiped
    /\ app' = [app EXCEPT ![w] = [at |-> "cleared", frame |-> f, epoch |-> 0, direct |-> d]]
Queues(w, f) ==
    /\ ~Handling /\ UNCHANGED <<streaming, sock, torn>>
    /\ app' = [app EXCEPT ![w] = [at |-> "queued", frame |-> f, epoch |-> 0, direct |-> FALSE]]
Sends(w, f, d) ==
    /\ session # 0 /\ (Handling => d) /\ UNCHANGED <<streaming, torn>>
    /\ sock' = [sock EXCEPT ![session].buf = Append(@, f)]
    /\ app' = [app EXCEPT ![w] = [at |-> "sent", frame |-> f, epoch |-> session, direct |-> d]]
Fits(f) == streaming.turn \in {0, f[1]} /\ (f[1] \in overtaken \/ f[2] = streaming.next)
Appends(w, f, d) ==
    \/ Dropped(w) \/ Over(w) \/ Restarts(w, f, d)
    \/ Fits(f) /\ ((~d /\ Queues(w, f)) \/ Sends(w, f, d))

LEMMA CheckAppends ==
    ASSUME Typed, Shape, NEW w, NEW f, NEW d \in BOOLEAN, NEW n, Check(w, f, d, n),
           streaming.turn \in {0, f[1]}, n = streaming.next
    PROVE  Appends(w, f, d)
BY ClearWipes DEF Check, Send, Abandon, Appends, Over, Queues, Sends, Fits

LEMMA FrameAppends ==
    ASSUME Typed, Shape, NEW w, NEW f, NEW d \in BOOLEAN, AppendFrame(w, f, d)
    PROVE  Appends(w, f, d)
  <1>1. CASE Stop(w) /\ UNCHANGED <<streaming, closed, sock, torn, faults>>
    BY <1>1 DEF Appends, Dropped
  <1>2. CASE /\ Abandon(streaming.turn, FALSE)
             /\ app' = [app EXCEPT ![w] = [at |-> "cleared", frame |-> f, epoch |-> 0, direct |-> d]]
    BY <1>2, ClearWipes DEF Abandon, Appends, Restarts
  <1>3. CASE streaming.turn \in {0, f[1]} /\ Check(w, f, d, streaming.next)
    BY <1>3, CheckAppends
  <1>. QED
    BY <1>1, <1>2, <1>3 DEF AppendFrame

\* Where an append may happen.
Context(w, f, d) ==
    /\ \A v \in Ws : v # w => app[v] = Idle
    /\ app[w] # Idle => app[w].frame = f /\ app[w].at \in {"cleared", "queued"}
    /\ app[w] = Idle => f \in Left
    /\ w = "chunk" => hand.at = "drain" /\ d
    /\ w = "loop" => \/ hand.at = "idle"
                     \/ hand.at = "publishing" /\ mode = "direct"
                     \/ d /\ f[1] \in overtaken /\ hand.turn \in overtaken /\ held = <<>>

\* A turn is given up: nothing is appended any more, and the buffer is no one's or empty.
LEMMA OverInv ==
    ASSUME Typed, Typed', Inv, NEW w \in Ws, Over(w), \A v \in Ws : v # w => app[v] = Idle,
           Left' \subseteq Left, held = <<>> => held' = <<>>,
           UNCHANGED <<said, turn, hand, sessions, overtaken, replaced, mode, chunks, pending>>
    PROVE  Inv'
  <1>. USE DEF sessions
  <1>1. \A v \in Ws : app'[v] = Idle
    BY DEF Over, Stop, Typed, AppTyped
  <1>2. /\ Idle.at = "idle" /\ Idle.epoch = 0 /\ Idle.frame = <<0, 0>> /\ NoTurn.turn = 0 /\ NoTurn.next = 1
        /\ NoTurn.epoch = 0 /\ streaming' = NoTurn /\ Wiped /\ "loop" \in Ws /\ "chunk" \in Ws
    BY DEF Idle, NoTurn, Over, Ws
  <1>3. session \in Epochs \cup {0} /\ 0 \notin Epochs /\ Epochs \subseteq Nat /\ opened \in Nat /\ session <= opened
    BY DEF Epochs, Typed, SessionTyped, Inv, Fresh
  <1>4. Past'
    <2>1. 0 <= turn
      BY DEF Typed, VoiceTyped
    <2>. QED
      BY <1>1, <1>2, <2>1 DEF Inv, Past, Of
  <1>5. Fresh'
    <2>1. \A e \in Epochs : e > opened => sock'[e] = Empty
      <3>. SUFFICES ASSUME NEW e \in Epochs, e > opened PROVE sock'[e] = sock[e]
        BY DEF Inv, Fresh
      <3>1. e # session
        BY <1>3
      <3>. QED
        BY <1>2, <3>1, WipedFacts
    <2>. QED
      BY <1>1, <1>2, <1>3, <2>1 DEF Inv, Fresh
  <1>6. Shape' /\ Alone' /\ Follows' /\ Elsewhere'
    BY <1>1, <1>2 DEF Inv, Shape, Alone, Follows, Elsewhere
  <1>7. session # 0 /\ session \notin torn' => sock'[session].buf = <<>> /\ ~(hand.at = "sending" /\ hand.conn = session)
    BY <1>2, <1>3, WipedFacts
  <1>8. Buffered'
    <2>1. \A v \in Ws : ~SentTo(v, session)'
      BY <1>1, <1>2 DEF SentTo
    <2>. QED
      BY <1>2, <1>7, <2>1 DEF Buffered
  <1>9. InHand'
    <2>1. ASSUME hand.at = "sending", hand.conn \notin torn'
          PROVE  sock'[hand.conn] = sock[hand.conn] /\ hand.conn \notin torn
      <3>1. hand.conn \in Epochs
        BY <2>1 DEF Typed, HandTyped, Hands
      <3>2. hand.conn # session
        BY <1>3, <1>7, <2>1, <3>1
      <3>. QED
        BY <1>2, <2>1, <3>1, <3>2, WipedFacts
    <2>2. hand.epoch = session /\ session \notin torn' \cup {0} => sock'[session].buf = <<>>
      BY <1>7
    <2>. QED
      BY <2>1, <2>2 DEF Inv, InHand, Begins
  <1>. QED
    BY <1>4, <1>5, <1>6, <1>8, <1>9 DEF Inv

LEMMA Appended ==
    ASSUME Typed, Typed', Inv, NEW w \in Ws, NEW f \in Piece, NEW d \in BOOLEAN,
           Context(w, f, d), Appends(w, f, d), Left' \subseteq Left, held = <<>> => held' = <<>>,
           UNCHANGED <<said, turn, hand, sessions, overtaken, replaced, mode, chunks, pending>>
    PROVE  Inv'
  <1>. USE DEF sessions
  <1>1. \A v \in Ws : v # w => app'[v] = app[v] /\ app[v] = Idle
    BY DEF Context, Appends, Dropped, Over, Restarts, Queues, Sends, Stop, Typed, AppTyped
  <1>2. /\ Idle.at = "idle" /\ Idle.epoch = 0 /\ Idle.frame = <<0, 0>> /\ NoTurn.turn = 0 /\ NoTurn.next = 1
        /\ NoTurn.epoch = 0 /\ f[1] \in Turns /\ f[1] # 0 /\ f[2] \in Nat \ {0} /\ f[1] <= turn /\ 0 \notin Epochs
        /\ turn \in Nat /\ 0 \notin overtaken
    BY DEF Idle, NoTurn, Piece, Turns, Epochs, Context, Inv, Past, Of, Typed, VoiceTyped, SessionTyped
  <1>3. /\ app[w] = Idle => app[w].at = "idle" /\ Of(w) = 0 /\ app[w].epoch = 0
        /\ app[w] # Idle => Of(w) = f[1] /\ Nth(w) = f[2] /\ app[w].epoch = 0 /\ app[w].at # "sent"
    BY AppFacts, <1>2 DEF Context, Of, Nth
  <1>4. app'[w] \in {Idle, [at |-> "cleared", frame |-> f, epoch |-> 0, direct |-> d],
                     [at |-> "queued", frame |-> f, epoch |-> 0, direct |-> FALSE],
                     [at |-> "sent", frame |-> f, epoch |-> session, direct |-> d]}
    BY DEF Appends, Dropped, Over, Restarts, Queues, Sends, Stop, Typed, AppTyped
  <1>5. /\ app'[w].at \in {"idle", "cleared", "queued", "sent"} /\ (app'[w] = Idle <=> app'[w].at = "idle")
        /\ app'[w] # Idle => app'[w].frame = f
        /\ app'[w].at = "sent" => app'[w].epoch = session
        /\ app'[w].at # "sent" => app'[w].epoch = 0
        /\ app'[w].at = "idle" => app'[w].frame = <<0, 0>>
        /\ app'[w].at \in {"cleared", "sent"} => app'[w].direct = d
    <2>1. CASE app'[w] = Idle
      BY <1>2, <2>1
    <2>2. CASE app'[w] = [at |-> "cleared", frame |-> f, epoch |-> 0, direct |-> d]
      BY <1>2, <2>2
    <2>3. CASE app'[w] = [at |-> "queued", frame |-> f, epoch |-> 0, direct |-> FALSE]
      BY <1>2, <2>3
    <2>4. CASE app'[w] = [at |-> "sent", frame |-> f, epoch |-> session, direct |-> d]
      BY <1>2, <2>4
    <2>. QED
      BY <1>4, <2>1, <2>2, <2>3, <2>4
  <1>6. streaming' \in {streaming, NoTurn}
    BY DEF Appends, Dropped, Over, Restarts, Queues, Sends
  <1>7. /\ app'[w].at \in {"idle", "cleared"} =>
             (streaming' = NoTurn /\ Wiped) \/ (app'[w].at = "idle" /\ UNCHANGED <<streaming, sock, torn>>)
        /\ app'[w].at = "queued" => ~d /\ hand.at = "idle" /\ Fits(f) /\ UNCHANGED <<streaming, sock, torn>>
        /\ app'[w].at = "sent" => /\ session # 0 /\ Fits(f) /\ UNCHANGED <<streaming, torn>> /\ (Handling => d)
                                  /\ sock' = [sock EXCEPT ![session].buf = Append(@, f)]
    <2>1. DOMAIN app = Ws
      BY DEF Typed, AppTyped
    <2>2. CASE Dropped(w) \/ Over(w)
      BY <1>2, <2>1, <2>2 DEF Dropped, Over, Stop
    <2>3. CASE Restarts(w, f, d)
      BY <1>2, <2>1, <2>3 DEF Restarts
    <2>4. CASE Fits(f) /\ ~d /\ Queues(w, f)
      BY <1>2, <2>1, <2>4 DEF Queues, Handling
    <2>5. CASE Fits(f) /\ Sends(w, f, d)
      BY <1>2, <2>1, <2>5 DEF Sends
    <2>. QED
      BY <2>2, <2>3, <2>4, <2>5 DEF Appends
  <1>10. Past'
    <2>1. \A v \in Ws : Of(v)' <= turn
      BY <1>1, <1>2, <1>5 DEF Of
    <2>2. streaming'.turn <= turn
      BY <1>2, <1>6 DEF Inv, Past
    <2>. QED
      BY <2>1, <2>2 DEF Inv, Past
  <1>11. Fresh'
    <2>1. \A e \in Epochs : e > opened => sock'[e] = Empty
      <3>. SUFFICES ASSUME NEW e \in Epochs, e > opened PROVE sock'[e] = sock[e]
        BY DEF Inv, Fresh
      <3>1. e # session
        BY DEF Inv, Fresh, Epochs, Typed, SessionTyped
      <3>. QED
        BY <3>1, WipedFacts DEF Appends, Dropped, Over, Restarts, Queues, Sends, Typed, AppTyped
    <2>2. \A v \in Ws : app'[v].epoch <= opened
      <3>1. 0 <= opened /\ session <= opened
        BY DEF Inv, Fresh, Typed, SessionTyped, Epochs
      <3>. QED
        BY <1>1, <1>2, <1>5, <3>1
    <2>3. streaming'.epoch <= opened
      BY <1>2, <1>6 DEF Inv, Fresh, Typed, SessionTyped, Epochs
    <2>. QED
      BY <2>1, <2>2, <2>3 DEF Inv, Fresh
  <1>12. Shape'
    BY <1>2, <1>6 DEF Inv, Shape
  <1>13. Alone'
    <2>1. app'["chunk"] # Idle =>
            /\ hand.at = "drain" /\ app'["loop"] = Idle /\ app'["chunk"].direct
            /\ app'["chunk"].at # "queued"
      BY <1>1, <1>5, <1>7 DEF Context, Ws
    <2>2. CASE w = "chunk"
      BY <1>1, <1>2, <1>6, <2>1, <2>2 DEF Inv, Alone, Ws
    <2>3. CASE w = "loop"
      <3>1. Handling' <=> Handling
        BY DEF Handling
      <3>2. app'["loop"] # Idle /\ Handling /\ ~app'["loop"].direct => app'["loop"].at = "cleared"
        BY <1>5, <1>7, <2>3 DEF Handling
      <3>3. app'["loop"] # Idle /\ Handling /\ ~(hand.at = "publishing" /\ mode = "direct") =>
              held' = <<>> /\ hand.turn \in overtaken /\ Of("loop")' \in overtaken
        BY <1>5, <2>3 DEF Context, Of, Handling
      <3>. QED
        BY <1>2, <1>6, <2>1, <3>1, <3>2, <3>3 DEF Inv, Alone
    <2>. QED
      BY <2>2, <2>3 DEF Ws
  <1>14. Follows'
    <2>1. /\ app'[w] # Idle => streaming'.turn \in {0, Of(w)'}
          /\ app'[w].at = "cleared" => streaming'.turn = 0
          /\ app'[w].at = "queued" => Of(w)' \in overtaken \/ Nth(w)' = streaming'.next
          /\ app'[w].at = "sent" => streaming'.epoch <= app'[w].epoch
      BY <1>2, <1>5, <1>7 DEF Fits, Of, Nth, Inv, Fresh
    <2>. QED
      BY <1>1, <1>2, <2>1 DEF Inv, Follows, Ws
  <1>15. Elsewhere'
    <2>. SUFFICES ASSUME session # 0 PROVE Elsewhere'
      BY DEF Elsewhere
    <2>1. \A v \in Ws : app'[v].at = "sent" => app'[v].epoch = session
      BY <1>1, <1>2, <1>5
    <2>2. streaming'.turn # 0 => UNCHANGED streaming
      BY <1>2, <1>6
    <2>3. ASSUME streaming.turn # 0, streaming.turn \notin Excused, streaming' = streaming,
                 streaming.epoch = session
          PROVE  sock'[session].dirty
      <3>1. sock[session].dirty
        BY <2>3 DEF Inv, Elsewhere
      <3>2. sock[session] \in Sock /\ session \in Epochs
        BY DEF Typed, AppTyped, SessionTyped
      <3>3. sock' = sock \/ sock' = [sock EXCEPT ![session].buf = Append(@, f)]
        BY <1>2, <1>5, <1>7, <2>3
      <3>. QED
        BY <3>1, <3>2, <3>3 DEF Sock, Typed, AppTyped
    <2>4. ASSUME streaming.turn # 0, streaming.turn \notin Excused, streaming' = streaming,
                 streaming.epoch # session
          PROVE  Gone(streaming.turn)' /\ ~Busy'
      <3>1. Gone(streaming.turn) /\ ~Busy
        BY <2>4 DEF Inv, Elsewhere
      <3>2. streaming.turn # f[1]
        BY <3>1 DEF Gone, Busy, Context
      <3>3. app'[w].at = "idle"
        BY <1>5, <1>7, <2>4, <3>2, <1>2 DEF Fits
      <3>. QED
        BY <1>1, <1>5, <2>4, <3>1, <3>3 DEF Gone, Busy
    <2>. QED
      BY <2>1, <2>2, <2>3, <2>4 DEF Elsewhere, Excused
  <1>16. Buffered'
    <2>. SUFFICES ASSUME session # 0, session \notin torn' PROVE Buffered'
      BY DEF Buffered
    <2>. DEFINE b == sock[session].buf
    <2>1. session \in Epochs /\ sock[session] \in Sock /\ sock \in [Epochs -> Sock] /\ b \in Seq(Piece)
      BY DEF Typed, SessionTyped, AppTyped, Sock
    <2>2. session \notin torn =>
          /\ streaming.turn # 0 /\ streaming.epoch = session /\ streaming.turn \notin Excused =>
             Begins(b, streaming.turn) /\ Len(b) = streaming.next - 1
          /\ b # <<>> => (streaming.turn # 0 /\ streaming.epoch = session) \/ Taken
      <3>1. \A v \in Ws : ~SentTo(v, session)
        BY <1>1, <1>2, <1>3 DEF SentTo
      <3>. QED
        BY <3>1 DEF Inv, Buffered
    <2>3. \A v \in Ws : v # w => ~SentTo(v, session)'
      BY <1>1, <1>2 DEF SentTo
    <2>4. CASE app'[w].at # "sent" /\ UNCHANGED <<streaming, sock, torn>>
      <3>1. \A v \in Ws : ~SentTo(v, session)'
        BY <2>3, <2>4 DEF SentTo
      <3>2. Taken' <=> Taken
        BY DEF Taken
      <3>. QED
        BY <2>2, <2>4, <3>1, <3>2 DEF Buffered, Begins, Excused
    <2>5. CASE app'[w].at # "sent" /\ streaming' = NoTurn /\ Wiped
      <3>1. \A v \in Ws : ~SentTo(v, session)'
        BY <2>3, <2>5 DEF SentTo
      <3>2. sock'[session].buf = <<>>
        BY <2>1, <2>5, WipedFacts
      <3>. QED
        BY <1>2, <2>5, <3>1, <3>2 DEF Buffered
    <2>6. CASE app'[w].at = "sent"
      <3>1. sock'[session].buf = Append(b, f) /\ Fits(f) /\ UNCHANGED <<streaming, torn>> /\ session \notin torn
        BY <1>7, <2>1, <2>6 DEF Sock
      <3>2. SentTo(w, session)' /\ Of(w)' = f[1] /\ Nth(w)' = f[2]
        BY <1>5, <2>6 DEF SentTo, Of, Nth
      <3>3. ASSUME f[1] \notin Excused PROVE Begins(Append(b, f), f[1]) /\ Len(Append(b, f)) = f[2]
        <4>1. Begins(b, f[1]) /\ Len(b) = f[2] - 1
          <5>1. CASE streaming.turn = 0
            <6>1. f[2] = 1
              BY <1>2, <3>1, <3>3, <5>1 DEF Excused, Fits, Inv, Shape
            <6>2. ~Taken
              BY <3>3 DEF Taken, Context, Excused, Ws
            <6>3. b = <<>>
              BY <2>2, <3>1, <5>1, <6>2
            <6>. QED
              BY <6>1, <6>3 DEF Begins
          <5>2. CASE streaming.turn # 0
            <6>1. streaming.turn = f[1] /\ f[2] = streaming.next
              BY <3>1, <3>3, <5>2 DEF Excused, Fits
            <6>2. streaming.epoch = session
              <7>1. streaming.epoch # session => Gone(f[1]) /\ ~Busy
                BY <3>3, <5>2, <6>1 DEF Inv, Elsewhere
              <7>. QED
                BY <7>1 DEF Gone, Busy, Context
            <6>. QED
              BY <2>2, <3>1, <3>3, <5>2, <6>1, <6>2
          <5>. QED
            BY <5>1, <5>2
        <4>2. f = <<f[1], f[2]>>
          BY DEF Piece
        <4>. QED
          BY <1>2, <2>1, <4>1, <4>2 DEF Begins
      <3>. QED
        BY <2>3, <3>1, <3>2, <3>3 DEF Buffered, Excused, Fits
    <2>. QED
      BY <1>5, <1>7, <2>4, <2>5, <2>6
  <1>17. InHand'
    <2>1. hand.at \in {"ready", "sending"} => hand.turn \in overtaken
      BY DEF Context, Ws
    <2>. QED
      BY <2>1 DEF Inv, InHand
  <1>. QED
    BY <1>10, <1>11, <1>12, <1>13, <1>14, <1>15, <1>16, <1>17 DEF Inv

LEMMA RangeFacts ==
    ASSUME NEW S, NEW s \in Seq(S), NEW x
    PROVE  /\ Range(Append(s, x)) = Range(s) \cup {x}
           /\ s # <<>> => Range(Tail(s)) \subseteq Range(s) /\ Head(s) \in Range(s)
           /\ Range(<<>>) = {}
  <1>1. Range(Append(s, x)) = Range(s) \cup {x}
    <2>1. DOMAIN Append(s, x) = 1..(Len(s) + 1) /\ DOMAIN s = 1..Len(s) /\ Len(s) \in Nat
      OBVIOUS
    <2>2. \A i \in 1..Len(s) : Append(s, x)[i] = s[i]
      OBVIOUS
    <2>3. Append(s, x)[Len(s) + 1] = x
      OBVIOUS
    <2>. QED
      BY <2>1, <2>2, <2>3 DEF Range
  <1>2. s # <<>> => Range(Tail(s)) \subseteq Range(s) /\ Head(s) \in Range(s)
    <2>. SUFFICES ASSUME s # <<>> PROVE Range(Tail(s)) \subseteq Range(s) /\ Head(s) \in Range(s)
      OBVIOUS
    <2>1. DOMAIN s = 1..Len(s) /\ Len(s) \in Nat /\ Len(s) > 0 /\ Head(s) = s[1]
      OBVIOUS
    <2>2. DOMAIN Tail(s) = 1..(Len(s) - 1) /\ \A i \in 1..(Len(s) - 1) : Tail(s)[i] = s[i + 1]
      OBVIOUS
    <2>. QED
      BY <2>1, <2>2 DEF Range
  <1>3. Range(<<>>) = {}
    BY DEF Range
  <1>. QED
    BY <1>1, <1>2, <1>3

LEMMA SpeakerInv ==
    ASSUME Typed, Inv, Speak \/ EndOfTurn \/ Track \/ \E t \in Turns : Reclaim(t)
    PROVE  Inv'
  <1>. USE DEF voice, work, window, sessions, ghosts, lines
  <1>0. /\ turn \in Nat /\ streaming.turn <= turn /\ hand.turn < turn /\ streaming.turn \in Nat /\ hand.turn \in Nat
        /\ \A w \in Ws : Of(w) \in Nat /\ Of(w) <= turn
    <2>1. \A w \in Ws : Of(w) \in Nat /\ Of(w) <= turn
      BY AppFacts DEF Turns, Inv, Past
    <2>. QED
      BY <2>1 DEF Inv, Past, Turns, Typed, VoiceTyped, AppTyped, HandTyped, Hands
  <1>1. CASE Speak
    <2>1. PICK lost \in BOOLEAN :
             /\ turn \in Turns
             /\ said' = [said EXCEPT ![turn] = @ + 1]
             /\ stream' = IF lost THEN stream ELSE Append(stream, <<turn, said[turn] + 1>>)
             /\ UNCHANGED <<turn, work, lines, streaming, closed, window, app, hand, sessions, sock, ghosts>>
      BY <1>1 DEF Speak
    <2>2. Left' \subseteq Left \cup {<<turn, said[turn] + 1>>}
      BY <2>1, RangeFacts DEF Left, Typed, VoiceTyped
    <2>3. said'[hand.turn] = said[hand.turn]
      BY <1>0, <2>1 DEF Typed, VoiceTyped
    <2>4. Past'
      BY <1>0, <2>1, <2>2 DEF Inv, Past, Of
    <2>5. Elsewhere'
      BY <1>0, <2>1, <2>2 DEF Inv, Elsewhere, Excused, Gone, Busy, Of
    <2>6. Fresh' /\ Shape' /\ Alone' /\ Follows'
      BY <2>1 DEF Inv, Fresh, Shape, Alone, Handling, Follows, Of, Nth
    <2>7. Buffered'
      BY <2>1 DEF Inv, Buffered, Excused, Taken, Of, Nth, SentTo, Begins
    <2>8. InHand'
      BY <2>1, <2>3 DEF Inv, InHand, Begins
    <2>. QED
      BY <2>4, <2>5, <2>6, <2>7, <2>8 DEF Inv
  <1>2. CASE EndOfTurn
    <2>1. /\ turn' = turn + 1 /\ chunks' \in {chunks, Append(chunks, turn)}
          /\ UNCHANGED <<said, stream, pending, tries, lines, streaming, closed, window, app, hand,
                   sessions, sock, ghosts, faults>>
      BY <1>2 DEF EndOfTurn
    <2>2. Range(chunks') \subseteq Range(chunks) \cup {turn}
      <3>1. chunks \in Seq(Turns)
        BY DEF Typed, VoiceTyped
      <3>2. Range(Append(chunks, turn)) = Range(chunks) \cup {turn}
        BY <3>1, RangeFacts
      <3>. QED
        BY <2>1, <3>2
    <2>3. Left' = Left /\ \A f \in Left : f[1] \in Nat /\ f[1] <= turn
      <3>1. stream \in Seq(Piece) /\ held \in Seq(Piece)
        BY DEF Typed, VoiceTyped, WindowTyped
      <3>2. Left \subseteq Piece
        BY <3>1 DEF Left, Range
      <3>. QED
        BY <2>1, <3>2 DEF Left, Piece, Turns, Inv, Past
    <2>4. \A t \in Range(chunks) \cup pending : t \in Nat /\ t < turn
      <3>1. Range(chunks) \subseteq Turns /\ pending \subseteq Turns
        BY DEF Range, Typed, VoiceTyped
      <3>2. \A t \in Turns : t \in Nat
        BY DEF Turns
      <3>3. \A t \in Range(chunks) \cup pending : t < turn
        BY DEF Inv, Past
      <3>. QED
        BY <3>1, <3>2, <3>3
    <2>5. Past'
      BY <1>0, <2>1, <2>2, <2>3, <2>4 DEF Past, Of
    <2>6. Elsewhere'
      BY <1>0, <2>1, <2>3 DEF Inv, Elsewhere, Excused, Gone, Busy, Of
    <2>7. Fresh' /\ Shape' /\ Alone' /\ Follows'
      BY <2>1 DEF Inv, Fresh, Shape, Alone, Handling, Follows, Of, Nth
    <2>8. Buffered'
      BY <2>1 DEF Inv, Buffered, Excused, Taken, Of, Nth, SentTo, Begins
    <2>9. InHand'
      BY <2>1 DEF Inv, InHand, Begins
    <2>. QED
      BY <2>5, <2>6, <2>7, <2>8, <2>9 DEF Inv
  <1>3. ASSUME UNCHANGED <<said, turn, stream, streaming, window, app, hand, session, opened, sock, ghosts>>,
               \A t \in Range(chunks') \cup pending' : t < turn
        PROVE  Inv'
    <2>1. Past' /\ Elsewhere'
      BY <1>3 DEF Inv, Past, Left, Of, Elsewhere, Excused, Gone, Busy
    <2>2. Fresh' /\ Shape' /\ Alone' /\ Follows'
      BY <1>3 DEF Inv, Fresh, Shape, Alone, Handling, Follows, Of, Nth
    <2>3. Buffered'
      BY <1>3 DEF Inv, Buffered, Excused, Taken, Of, Nth, SentTo, Begins
    <2>4. InHand'
      BY <1>3 DEF Inv, InHand, Begins
    <2>. QED
      BY <2>1, <2>2, <2>3, <2>4 DEF Inv
  <1>4. CASE Track
    BY <1>3, <1>4 DEF Track, Inv, Past
  <1>5. ASSUME NEW t \in Turns, Reclaim(t) PROVE Inv'
    <2>1. /\ t \in pending /\ pending' = pending \ {t} /\ chunks' = Append(chunks, t)
          /\ UNCHANGED <<said, turn, stream, streaming, window, app, hand, session, opened, sock, ghosts>>
      BY <1>5 DEF Reclaim
    <2>2. Range(chunks') = Range(chunks) \cup {t}
      BY <2>1, RangeFacts DEF Typed, VoiceTyped
    <2>. QED
      BY <1>3, <2>1, <2>2 DEF Inv, Past
  <1>. QED
    BY <1>1, <1>2, <1>4, <1>5

LEMMA SessionsInv ==
    ASSUME Typed, Typed', Inv, Prewarmed \/ Sweep \/ Renew
    PROVE  Inv'
  <1>. USE DEF voice, work, window, sessions, ghosts, lines
  <1>0. /\ opened \in Nat /\ streaming.epoch \in Nat /\ streaming.epoch <= opened /\ hand.epoch \in Nat
        /\ hand.epoch <= opened /\ hand.conn \in Nat /\ hand.conn <= opened /\ 0 \notin Turns
        /\ \A w \in Ws : app[w].epoch \in Nat /\ app[w].epoch <= opened
    <2>1. \A w \in Ws : app[w].epoch \in Nat /\ app[w].epoch <= opened
      BY AppFacts DEF Epochs, Inv, Fresh
    <2>. QED
      BY <2>1 DEF Inv, Fresh, Turns, Epochs, Typed, SessionTyped, AppTyped, HandTyped, Hands
  <1>1. CASE Sweep
    <2>1. session' = 0 /\ UNCHANGED <<voice, work, streaming, window, app, hand, opened, sock, ghosts>>
      BY <1>1 DEF Sweep
    <2>2. Past' /\ Fresh' /\ Shape' /\ Alone' /\ Follows'
      BY <2>1 DEF Inv, Past, Left, Fresh, Shape, Alone, Handling, Follows, Of, Nth
    <2>3. Elsewhere' /\ Buffered'
      BY <2>1 DEF Elsewhere, Buffered
    <2>4. InHand'
      BY <2>1 DEF Inv, InHand, Begins
    <2>. QED
      BY <2>2, <2>3, <2>4 DEF Inv
  <1>2. ASSUME Opens, UNCHANGED <<voice, work, streaming, window, app, hand, sock, torn>>,
               overtaken \subseteq overtaken', replaced \subseteq replaced',
               \A w \in Ws : app[w].at = "sent" => Of(w) \in overtaken',
               streaming.turn # 0 => streaming.turn \in Excused' \/ (Gone(streaming.turn) /\ ~Busy)
        PROVE  Inv'
    <2>1. opened' = opened + 1 /\ session' = opened + 1 /\ session' # 0
      BY <1>0, <1>2 DEF Opens
    <2>2. Past' /\ Shape'
      BY <1>2 DEF Inv, Past, Left, Shape, Of
    <2>3. Fresh'
      <3>1. \A e \in Epochs : e > opened' => sock'[e] = Empty
        BY <1>0, <1>2, <2>1 DEF Inv, Fresh, Epochs
      <3>. QED
        BY <1>0, <1>2, <2>1, <3>1 DEF Fresh
    <2>4. Alone'
      BY <1>2 DEF Inv, Alone, Handling, Of
    <2>5. Follows'
      BY <1>2 DEF Inv, Follows, Of, Nth
    <2>6. Elsewhere'
      <3>2. Gone(streaming.turn)' <=> Gone(streaming.turn)
        BY <1>2 DEF Gone, Left
      <3>3. streaming.epoch # session' /\ (Busy' <=> Busy)
        BY <1>0, <1>2, <2>1 DEF Busy
      <3>. QED
        BY <1>2, <3>2, <3>3 DEF Elsewhere, Of
    <2>7. sock[session'].buf = <<>>
      <3>1. session' \in Epochs /\ session' > opened
        BY <1>0, <2>1 DEF Typed, SessionTyped
      <3>. QED
        BY <3>1 DEF Inv, Fresh, Empty
    <2>8. Buffered'
      <3>1. \A w \in Ws : ~SentTo(w, session)'
        BY <1>0, <1>2, <2>1 DEF SentTo
      <3>2. streaming.epoch # session'
        BY <1>0, <2>1
      <3>. QED
        BY <1>2, <2>7, <3>1, <3>2 DEF Buffered
    <2>9. InHand'
      <3>1. hand.epoch # session'
        BY <1>0, <2>1
      <3>. QED
        BY <1>2, <3>1 DEF Inv, InHand, Begins
    <2>. QED
      BY <2>2, <2>3, <2>4, <2>5, <2>6, <2>8, <2>9 DEF Inv
  <1>a. \A w \in Ws : app[w].at = "sent" => Of(w) \in Sending
    BY AppFacts DEF Sending, Of
  <1>3. CASE Prewarmed
    <2>1. /\ Opens /\ overtaken' = overtaken \cup Sending /\ replaced' = replaced \cup ({streaming.turn} \ {0})
          /\ UNCHANGED <<voice, work, streaming, window, app, hand, sock, torn>>
      BY <1>3 DEF Prewarmed
    <2>2. streaming.turn # 0 => streaming.turn \in Excused'
      BY <2>1 DEF Excused
    <2>. QED
      BY <1>2, <1>a, <2>1, <2>2
  <1>4. CASE Renew
    <2>1. /\ session # 0 /\ Quiet /\ Opens /\ overtaken' = overtaken \cup Sending /\ UNCHANGED replaced
          /\ UNCHANGED <<voice, work, streaming, window, app, hand, sock, torn>>
      BY <1>4 DEF Renew
    <2>2. ASSUME streaming.turn # 0, streaming.turn \notin Excused' PROVE Gone(streaming.turn) /\ ~Busy
      <3>0. streaming.turn \notin Excused /\ streaming.turn \notin Sending
        BY <2>1, <2>2 DEF Excused
      <3>1. CASE ~sock[session].dirty
        BY <2>1, <2>2, <3>0, <3>1 DEF Inv, Elsewhere
      <3>2. CASE /\ streaming.turn # turn /\ app["loop"] = Idle
                 /\ \A f \in Range(stream) \cup Range(held) : f[1] # streaming.turn
        <4>1. Gone(streaming.turn)
          BY <3>2 DEF Gone, Left
        <4>2. "chunk" \in Ws
          BY DEF Ws
        <4>3. app["chunk"] # Idle => app["chunk"].at \in {"cleared", "queued", "sent"}
          BY <4>2, AppFacts
        <4>4. app["chunk"] # Idle => app["chunk"].at # "queued" /\ streaming.turn = Of("chunk")
                                    /\ app["chunk"].at # "cleared"
          BY <2>2, <4>2 DEF Inv, Alone, Follows
        <4>5. app["chunk"] = Idle
          BY <1>a, <3>0, <4>2, <4>3, <4>4
        <4>. QED
          BY <3>2, <4>1, <4>5 DEF Busy, Ws
      <3>. QED
        BY <2>1, <3>1, <3>2 DEF Quiet
    <2>. QED
      BY <1>2, <1>a, <2>1, <2>2
  <1>. QED
    BY <1>1, <1>3, <1>4

LEMMA ReceiveInv ==
    ASSUME Typed, Typed', Inv, Receive
    PROVE  Inv'
  <1>. USE DEF voice, work, window, sessions, ghosts, lines
  <1>1. /\ app["loop"] = Idle /\ stream # <<>> /\ stream' = Tail(stream)
        /\ UNCHANGED <<said, turn, chunks, pending, hand, session, opened, opening, overtaken, replaced>>
    BY DEF Receive
  <1>2. /\ Range(stream') \subseteq Range(stream) /\ Head(stream) \in Range(stream) /\ Head(stream) \in Piece
        /\ Range(Append(held, Head(stream))) = Range(held) \cup {Head(stream)}
    <2>1. stream \in Seq(Piece) /\ held \in Seq(Piece) /\ stream # <<>>
      BY <1>1 DEF Typed, VoiceTyped, WindowTyped
    <2>2. Head(stream) \in Piece
      BY <2>1
    <2>. QED
      BY <1>1, <2>1, <2>2, RangeFacts
  <1>3. CASE Handling /\ mode # "direct"
    <2>1. /\ UNCHANGED <<streaming, app, sock, torn>>
          /\ mode' # "direct" /\ (held' = held \/ held' = <<>> \/ held' = Append(held, Head(stream)))
      BY <1>3 DEF Receive
    <2>2. Left' \subseteq Left
      <3>1. Range(<<>>) = {}
        BY DEF Range
      <3>. QED
        BY <1>2, <2>1, <3>1 DEF Left
    <2>3. Past'
      BY <1>1, <2>1, <2>2 DEF Inv, Past, Of
    <2>4. Fresh' /\ Follows' /\ Shape'
      BY <1>1, <1>3, <2>1 DEF Inv, Fresh, Follows, Shape, Of, Nth, Handling
    <2>5. Alone'
      BY <1>1, <1>3, <2>1 DEF Inv, Alone, Handling, Of
    <2>6. Elsewhere'
      BY <1>1, <2>1, <2>2 DEF Inv, Elsewhere, Excused, Gone, Busy, Of
    <2>7. Buffered'
      BY <1>1, <2>1 DEF Inv, Buffered, Excused, Taken, Of, Nth, SentTo, Begins
    <2>8. InHand'
      BY <1>1, <2>1 DEF Inv, InHand, Begins
    <2>. QED
      BY <2>3, <2>4, <2>5, <2>6, <2>7, <2>8 DEF Inv
  <1>4. CASE ~(Handling /\ mode # "direct")
    <2>1. PICK d \in BOOLEAN : AppendFrame("loop", Head(stream), d) /\ (d => mode = "direct") /\ UNCHANGED window
      <3>1. CASE mode = "direct"
        BY <1>4, <3>1 DEF Receive
      <3>2. CASE mode # "direct"
        BY <1>4, <3>2 DEF Receive
      <3>. QED
        BY <3>1, <3>2
    <2>2. Appends("loop", Head(stream), d)
      BY <2>1, FrameAppends DEF Inv
    <2>3. hand.at = "idle" \/ (hand.at = "publishing" /\ mode = "direct")
      BY <1>4 DEF Handling, Inv, Shape
    <2>4. app["chunk"] = Idle
      BY <2>3 DEF Inv, Alone
    <2>5. Context("loop", Head(stream), d)
      BY <1>1, <1>2, <2>3, <2>4 DEF Context, Ws, Left
    <2>6. Left' \subseteq Left
      BY <1>2, <2>1 DEF Left
    <2>7. "loop" \in Ws
      BY DEF Ws
    <2>. QED
      BY <1>1, <1>2, <2>1, <2>2, <2>5, <2>6, <2>7, Appended
  <1>. QED
    BY <1>3, <1>4

LEMMA DrainInv ==
    ASSUME Typed, Typed', Inv, Drain
    PROVE  Inv'
  <1>. USE DEF voice, work, window, sessions, ghosts, lines
  <1>1. /\ hand.at = "drain" /\ held # <<>> /\ app["chunk"] = Idle /\ held' = Tail(held)
        /\ AppendFrame("chunk", Head(held), TRUE)
        /\ UNCHANGED <<voice, work, mode, hand, session, opened, opening, overtaken, replaced>>
    BY DEF Drain
  <1>2. Range(held') \subseteq Range(held) /\ Head(held) \in Range(held) /\ Head(held) \in Piece
    <2>1. held \in Seq(Piece) /\ held # <<>>
      BY <1>1 DEF Typed, WindowTyped
    <2>2. Head(held) \in Piece
      BY <2>1
    <2>. QED
      BY <1>1, <2>1, <2>2, RangeFacts
  <1>3. Appends("chunk", Head(held), TRUE)
    BY <1>1, FrameAppends DEF Inv
  <1>4. app["loop"] = Idle
    BY <1>1 DEF Inv, Alone, Handling
  <1>5. Context("chunk", Head(held), TRUE)
    BY <1>1, <1>2, <1>4 DEF Context, Ws, Left
  <1>6. Left' \subseteq Left
    BY <1>1, <1>2 DEF Left
  <1>7. "chunk" \in Ws
    BY DEF Ws
  <1>. QED
    BY <1>1, <1>2, <1>3, <1>5, <1>6, <1>7, Appended

\* What is under way goes on where it may.
LEMMA UnderWay ==
    ASSUME Typed, Inv, NEW w \in Ws, app[w].at \in {"cleared", "queued"}, Handling => app[w].direct
    PROVE  /\ app[w].frame \in Piece /\ app[w].direct \in BOOLEAN /\ Context(w, app[w].frame, app[w].direct)
           /\ streaming.turn \in {0, Of(w)}
  <1>1. app[w] # Idle /\ app[w].frame \in Piece /\ app[w].direct \in BOOLEAN
    BY AppFacts DEF Idle
  <1>2. CASE w = "chunk"
    <2>1. app["loop"] = Idle /\ hand.at = "drain" /\ app[w].direct
      BY <1>1, <1>2 DEF Inv, Alone
    <2>. QED
      BY <1>1, <1>2, <2>1 DEF Context, Ws, Inv, Follows
  <1>3. CASE w = "loop"
    <2>1. app["chunk"] = Idle
      BY <1>1, <1>3 DEF Inv, Alone
    <2>3. \/ hand.at = "idle"
          \/ hand.at = "publishing" /\ mode = "direct"
          \/ app["loop"].direct /\ Of("loop") \in overtaken /\ hand.turn \in overtaken /\ held = <<>>
      BY <1>1, <1>3 DEF Inv, Alone, Handling
    <2>. QED
      BY <1>1, <1>3, <2>1, <2>3 DEF Context, Ws, Of, Inv, Follows
  <1>. QED
    BY <1>2, <1>3 DEF Ws

LEMMA GoOnInv ==
    ASSUME Typed, Typed', Inv, NEW w \in Ws, GoOn(w)
    PROVE  Inv'
  <1>. USE DEF voice, work, window, sessions, ghosts, lines
  <1>1. /\ app[w].at = "cleared" /\ Check(w, app[w].frame, app[w].direct, 1)
        /\ UNCHANGED <<voice, work, window, hand, session, opened, opening, overtaken, replaced>>
    BY DEF GoOn
  <1>2. streaming.turn = 0 /\ streaming.next = 1
    BY <1>1 DEF Inv, Follows, Shape, NoTurn
  <1>3. Left' = Left
    BY <1>1 DEF Left
  <1>4. CASE Handling => app[w].direct
    <2>1. app[w].frame \in Piece /\ app[w].direct \in BOOLEAN /\ Context(w, app[w].frame, app[w].direct)
      BY <1>1, <1>4, UnderWay
    <2>2. Appends(w, app[w].frame, app[w].direct)
      BY <1>1, <1>2, <2>1, CheckAppends DEF Inv
    <2>. QED
      BY <1>1, <1>3, <2>1, <2>2, Appended
  <1>5. CASE Handling /\ ~app[w].direct
    <2>1. Over(w)
      BY <1>1, <1>5, ClearWipes DEF Check, Abandon, Over
    <2>2. \A v \in Ws : v # w => app[v] = Idle
      <3>1. app[w] # Idle
        BY <1>1 DEF Idle
      <3>. QED
        BY <3>1 DEF Inv, Alone, Ws
    <2>. QED
      BY <1>1, <1>3, <2>1, <2>2, OverInv
  <1>. QED
    BY <1>4, <1>5

LEMMA HaveLockInv ==
    ASSUME Typed, Typed', Inv, HaveLock
    PROVE  Inv'
  <1>. USE DEF voice, work, window, sessions, ghosts, lines
  <1>. DEFINE f == app["loop"].frame
  <1>1. /\ app["loop"].at = "queued" /\ hand.at = "idle" /\ Send("loop", f, FALSE)
        /\ UNCHANGED <<voice, work, window, hand, session, opened, opening, overtaken, replaced>>
    BY DEF HaveLock, Handling
  <1>2. f \in Piece /\ Context("loop", f, app["loop"].direct) /\ streaming.turn \in {0, f[1]} /\ "loop" \in Ws
    BY <1>1, UnderWay DEF Ws, Of, Handling
  <1>3. Fits(f)
    BY <1>1, <1>2 DEF Inv, Follows, Fits, Of, Nth
  <1>4. Appends("loop", f, FALSE)
    BY <1>1, <1>3, ClearWipes DEF Send, Abandon, Appends, Over, Sends, Handling
  <1>5. Context("loop", f, FALSE)
    BY <1>1, <1>2 DEF Context
  <1>6. Left' = Left
    BY <1>1 DEF Left
  <1>. QED
    BY <1>1, <1>2, <1>4, <1>5, <1>6, Appended

LEMMA LandedInv ==
    ASSUME Typed, Typed', Inv, NEW w \in Ws, Landed(w)
    PROVE  Inv'
  <1>. USE DEF voice, work, window, sessions, ghosts, lines
  <1>. DEFINE e == app[w].epoch
  <1>a. /\ app[w].at = "sent" /\ Stop(w)
        /\ UNCHANGED <<voice, work, window, hand, session, opened, opening, overtaken, replaced>>
    BY DEF Landed
  <1>b. \A v \in Ws : v # w => app[v] = Idle
    <2>1. app[w] # Idle
      BY <1>a DEF Idle
    <2>. QED
      BY <2>1 DEF Inv, Alone, Ws
  <1>c. ASSUME Abandon(app[w].frame[1], TRUE) PROVE Inv'
    <2>1. Over(w)
      BY <1>a, <1>c, ClearWipes DEF Abandon, Over
    <2>2. Left' = Left
      BY <1>a DEF Left
    <2>. QED
      BY <1>a, <1>b, <2>1, <2>2, OverInv
  <1>d. SUFFICES ASSUME ~Abandon(app[w].frame[1], TRUE) PROVE Inv'
    BY <1>c
  <1>1. /\ app[w].at = "sent" /\ app' = [app EXCEPT ![w] = Idle] /\ UNCHANGED torn
        /\ sock' = [sock EXCEPT ![e].dirty = TRUE]
        /\ streaming' = [turn |-> Of(w), epoch |-> e, next |-> Nth(w) + 1]
        /\ UNCHANGED <<voice, work, window, hand, session, opened, opening, overtaken, replaced>>
    BY <1>d DEF Landed, Stop, Of, Nth
  <1>2. /\ Of(w) # 0 /\ e \in Epochs /\ Nth(w) \in Nat /\ app[w] # Idle /\ DOMAIN app = Ws /\ e \in Nat /\ opened \in Nat
        /\ e <= opened
    <2>1. app[w] # Idle
      BY <1>1 DEF Idle
    <2>. QED
      BY <1>1, <2>1, AppFacts DEF Epochs, Inv, Fresh, Typed, SessionTyped
  <1>3. \A v \in Ws : app'[v] = Idle /\ (v # w => app[v] = Idle)
    BY <1>1, <1>2, <1>b
  <1>4. \A v \in Ws : app'[v].at = "idle" /\ app'[v].epoch = 0 /\ app'[v].frame = <<0, 0>> /\ Of(v)' = 0
    BY <1>3 DEF Idle, Of
  <1>5. \A x \in Epochs : sock'[x].buf = sock[x].buf /\ (x = e => sock'[x].dirty) /\ (x # e => sock'[x] = sock[x])
    <2>1. sock \in [Epochs -> Sock]
      BY DEF Typed, AppTyped
    <2>. QED
      BY <1>1, <1>2, <2>1 DEF Sock
  <1>6. streaming'.turn = Of(w) /\ streaming'.epoch = e /\ streaming'.next = Nth(w) + 1
    BY <1>1
  <1>7. Past'
    <2>1. turn \in Nat /\ Of(w) <= turn /\ 0 <= turn
      BY DEF Inv, Past, Typed, VoiceTyped
    <2>. QED
      BY <1>1, <1>4, <1>6, <2>1 DEF Inv, Past, Left
  <1>8. Fresh'
    <2>1. \A x \in Epochs : x > opened => sock'[x] = sock[x]
      BY <1>2, <1>5 DEF Epochs
    <2>. QED
      BY <1>1, <1>2, <1>4, <1>6, <2>1 DEF Inv, Fresh
  <1>9. Shape' /\ Follows'
    BY <1>1, <1>2, <1>3, <1>4, <1>6 DEF Inv, Shape, Follows, Ws
  <1>10. Alone'
    <2>1. hand.at \in Commits => hand.turn \in overtaken /\ Of(w) \in overtaken
      BY <1>1, <1>2 DEF Inv, Alone, Handling, Ws, Commits
    <2>. QED
      BY <1>1, <1>3, <1>6, <2>1 DEF Alone, Ws
  <1>11. Elsewhere'
    <2>. SUFFICES ASSUME session # 0 PROVE Elsewhere'
      BY <1>1 DEF Elsewhere
    <2>1. e # session => Of(w) \in overtaken
      BY <1>1 DEF Inv, Elsewhere
    <2>2. e = session => sock'[session].dirty
      BY <1>2, <1>5
    <2>. QED
      BY <1>1, <1>4, <1>6, <2>1, <2>2 DEF Elsewhere, Excused
  <1>12. Buffered'
    <2>. SUFFICES ASSUME session # 0, session \notin torn PROVE Buffered'
      BY <1>1 DEF Buffered
    <2>1. session \in Epochs /\ sock'[session].buf = sock[session].buf
      BY <1>5 DEF Typed, SessionTyped
    <2>2. SentTo(w, session) <=> e = session
      BY <1>1 DEF SentTo
    <2>3. \A v \in Ws : v # w => ~SentTo(v, session)
      BY <1>3 DEF SentTo, Idle
    <2>4. streaming.epoch = session => e = session
      <3>1. streaming.epoch <= e /\ session \in {0, opened}
        BY <1>1 DEF Inv, Follows, Fresh
      <3>. QED
        BY <1>2, <3>1
    <2>5. \A v \in Ws : ~SentTo(v, session)'
      BY <1>4 DEF SentTo
    <2>6. Taken' <=> Taken
      BY <1>1 DEF Taken
    <2>7. e = session /\ Of(w) \notin Excused => Begins(sock[session].buf, Of(w)) /\ Len(sock[session].buf) = Nth(w)
      BY <2>2 DEF Inv, Buffered
    <2>8. sock[session].buf # <<>> => e = session \/ Taken
      BY <2>2, <2>3, <2>4 DEF Inv, Buffered
    <2>9. Nth(w) + 1 - 1 = Nth(w)
      BY <1>2
    <2>. QED
      BY <1>1, <1>2, <1>6, <2>1, <2>5, <2>6, <2>7, <2>8, <2>9 DEF Buffered, Excused, Begins
  <1>13. InHand'
    <2>1. hand.conn \in Epochs \cup {0} /\ session \in Epochs \cup {0} /\ (hand.at = "sending" => hand.conn # 0)
      BY DEF Typed, HandTyped, Hands, SessionTyped
    <2>. QED
      BY <1>1, <1>5, <2>1 DEF Inv, InHand, Begins
  <1>. QED
    BY <1>7, <1>8, <1>9, <1>10, <1>11, <1>12, <1>13 DEF Inv

\* The handler moves on with its chunk, and touches no more than its session.
LEMMA HandFrame ==
    ASSUME Typed, Inv, UNCHANGED <<voice, work, held, streaming, app, opened, overtaken>>, hand'.turn = hand.turn
    PROVE  /\ Past' /\ Follows'
           /\ \A w \in Ws : Of(w)' = Of(w) /\ Nth(w)' = Nth(w)
           /\ \A w \in Ws, e \in Epochs : SentTo(w, e)' <=> SentTo(w, e)
           /\ \A t \in Turns : Gone(t)' <=> Gone(t)
           /\ Busy' <=> Busy
  <1>. USE DEF voice, work
  <1>1. Past' /\ Follows'
    BY DEF Inv, Past, Follows, Left, Of, Nth
  <1>2. /\ \A w \in Ws : Of(w)' = Of(w) /\ Nth(w)' = Nth(w)
        /\ \A w \in Ws, e \in Epochs : SentTo(w, e)' <=> SentTo(w, e)
    BY DEF Of, Nth, SentTo
  <1>3. \A t \in Turns : Gone(t)' <=> Gone(t)
    BY DEF Gone, Left
  <1>4. Busy' <=> Busy
    BY DEF Busy
  <1>. QED
    BY <1>1, <1>2, <1>3, <1>4

\* A frame that is sent beside a handler at its commit spoils its own turn and the handler's.
LEMMA Suspended ==
    ASSUME Typed, Inv, hand.at \in Commits
    PROVE  /\ app["chunk"] = Idle
           /\ \A w \in Ws : app[w].at = "sent" => Of(w) \in overtaken /\ hand.turn \in overtaken
           /\ \A w \in Ws, e \in Epochs : SentTo(w, e) => Of(w) \in overtaken /\ hand.turn \in overtaken
           /\ streaming.turn # 0 => streaming.turn \in overtaken /\ hand.turn \in overtaken
  <1>1. app["chunk"] = Idle
    BY DEF Inv, Alone, Commits
  <1>2. \A w \in Ws : app[w].at = "sent" => Of(w) \in overtaken /\ hand.turn \in overtaken
    BY <1>1 DEF Inv, Alone, Commits, Handling, Ws, Idle
  <1>. QED
    BY <1>1, <1>2 DEF Inv, Alone, SentTo

LEMMA TakeInv ==
    ASSUME Typed, Typed', Inv, Take
    PROVE  Inv'
  <1>. USE DEF voice, work, window, sessions, ghosts, lines
  <1>1. /\ hand.at = "idle" /\ chunks # <<>> /\ chunks' = Tail(chunks)
        /\ overtaken' = overtaken \cup (IF app["loop"].direct THEN {Of("loop"), Head(chunks)}
                            ELSE IF app["loop"].at = "queued" THEN {Of("loop")} ELSE {})
        /\ (app["loop"].at = "sent" => app["loop"].direct)
        /\ UNCHANGED <<voice, pending, streaming, window, app, session, opened, sock, torn, replaced>>
    BY DEF Take, Of, Handling, Appending
  <1>2. /\ hand'.at = "begun" /\ hand'.turn = Head(chunks) /\ hand'.epoch = 0 /\ hand'.conn = 0
        /\ hand'.again = "no"
    BY DEF Take, Free
  <1>3. Range(chunks') \subseteq Range(chunks) /\ Head(chunks) \in Range(chunks)
    BY <1>1, RangeFacts DEF Typed, VoiceTyped
  <1>4. app["chunk"] = Idle /\ held = <<>> /\ mode = None
    BY <1>1 DEF Inv, Alone, Shape
  <1>5. overtaken \subseteq overtaken'
    BY <1>1
  <1>6. Past'
    BY <1>1, <1>2, <1>3 DEF Inv, Past, Left, Of
  <1>7. Fresh'
    <2>1. 0 <= opened
      BY DEF Typed, SessionTyped, Epochs
    <2>. QED
      BY <1>1, <1>2, <2>1 DEF Inv, Fresh
  <1>8. Shape' /\ Alone'
    <2>1. app["loop"] # Idle => app["loop"].at \in {"cleared", "queued", "sent"} /\ app["loop"].direct \in BOOLEAN
      BY AppFacts DEF Ws
    <2>. QED
      BY <1>1, <1>2, <1>4, <2>1 DEF Inv, Shape, Alone, Of, Commits, None
  <1>9. Follows'
    BY <1>1, <1>5 DEF Inv, Follows, Of, Nth
  <1>10. Elsewhere'
    <2>1. \A t \in Turns : Gone(t)' <=> Gone(t)
      BY <1>1 DEF Gone, Left
    <2>2. streaming.turn \in Turns \cup {0}
      BY DEF Typed, AppTyped
    <2>. QED
      BY <1>1, <1>5, <2>1, <2>2 DEF Inv, Elsewhere, Excused, Of, Busy
  <1>11. Buffered'
    BY <1>1, <1>2, <1>5 DEF Inv, Buffered, Excused, Taken, Of, Nth, SentTo, Begins
  <1>12. InHand'
    BY <1>2 DEF InHand
  <1>. QED
    BY <1>6, <1>7, <1>8, <1>9, <1>10, <1>11, <1>12 DEF Inv

LEMMA PopInv ==
    ASSUME Typed, Typed', Inv, Pop
    PROVE  Inv'
  <1>. USE DEF voice, work, window, sessions, ghosts, lines
  <1>1. /\ hand.at = "begun" /\ hand'.at = "ready" /\ hand'.turn = hand.turn /\ hand'.conn = hand.conn
        /\ hand'.epoch = IF streaming.turn = hand.turn THEN streaming.epoch ELSE 0
        /\ hand'.again = hand.again
        /\ IF streaming.turn \in {0, hand.turn} THEN UNCHANGED <<sock, torn>> ELSE Wiped
        /\ streaming' = NoTurn
        /\ UNCHANGED <<voice, work, held, mode, app, session, opened, overtaken, replaced>>
    BY ClearWipes DEF Pop, Typed, HandTyped, Hands
  <1>2. /\ NoTurn.turn = 0 /\ NoTurn.epoch = 0 /\ NoTurn.next = 1 /\ hand.turn # 0 /\ 0 <= opened /\ 0 <= turn
        /\ 0 \notin Epochs
    BY <1>1 DEF NoTurn, Typed, HandTyped, SessionTyped, VoiceTyped, Epochs, Turns
  <1>3. /\ app["chunk"] = Idle
        /\ \A w \in Ws : app[w].at = "sent" => Of(w) \in overtaken /\ hand.turn \in overtaken
        /\ app["loop"].at = "queued" => Of("loop") \in overtaken
    BY <1>1 DEF Inv, Alone, Handling, Ws, Idle
  <1>5. Past'
    BY <1>1, <1>2 DEF Inv, Past, Left, Of
  <1>6. Fresh'
    <2>1. \A e \in Epochs : e > opened => sock'[e] = sock[e]
      <3>1. session <= opened
        BY <1>2 DEF Inv, Fresh, Typed, SessionTyped, Epochs
      <3>2. opened \in Nat /\ session \in Nat /\ Epochs \subseteq Nat
        BY DEF Typed, SessionTyped, Epochs
      <3>3. \A e \in Epochs : e > opened => e # session
        BY <3>1, <3>2
      <3>. QED
        BY <1>1, <3>3, WipedFacts
    <2>. QED
      BY <1>1, <1>2, <2>1 DEF Inv, Fresh
  <1>7. Shape'
    BY <1>1 DEF Inv, Shape
  <1>8. Alone'
    BY <1>1, <1>2, <1>3 DEF Inv, Alone, Handling, Of, Commits
  <1>9. Follows'
    <2>1. \A w \in Ws : app[w].at = "sent" => 0 <= app[w].epoch
      BY AppFacts DEF Epochs
    <2>. QED
      BY <1>1, <1>2, <1>3, <2>1 DEF Inv, Follows, Of, Nth, Ws
  <1>10. Elsewhere'
    BY <1>1, <1>2 DEF Inv, Elsewhere, Of
  <1>11. Buffered'
    <2>. SUFFICES ASSUME session # 0, session \notin torn' PROVE Buffered'
      BY <1>1 DEF Buffered
    <2>1. session \in Epochs
      BY DEF Typed, SessionTyped
    <2>2. \A w \in Ws : SentTo(w, session)' <=> SentTo(w, session)
      BY <1>1 DEF SentTo
    <2>3. \A w \in Ws : SentTo(w, session) => Of(w) \in overtaken
      BY <1>3 DEF SentTo
    <2>4. ASSUME sock'[session].buf # <<>>
          PROVE  (\E w \in Ws : SentTo(w, session)') \/ Taken'
      <3>1. streaming.turn \in {0, hand.turn} /\ sock' = sock /\ torn' = torn
        BY <1>1, <2>1, <2>4, WipedFacts
      <3>2. ~Taken
        BY <1>1 DEF Taken
      <3>3. (\E w \in Ws : SentTo(w, session)) \/ (streaming.turn # 0 /\ streaming.epoch = session)
        BY <2>4, <3>1, <3>2 DEF Inv, Buffered
      <3>. QED
        BY <1>1, <2>2, <3>1, <3>3 DEF Taken
    <2>. QED
      BY <1>1, <1>2, <2>2, <2>3, <2>4 DEF Buffered, Excused, Of
  <1>12. InHand'
    <2>1. ASSUME hand.turn \notin overtaken, hand.turn \notin replaced, hand'.epoch = session,
                 session \notin torn' \cup {0}
          PROVE  Begins(sock[session].buf, hand.turn) /\ sock' = sock
      <3>1. streaming.turn = hand.turn /\ streaming.epoch = session /\ sock' = sock /\ torn' = torn
        BY <1>1, <2>1
      <3>2. \A w \in Ws : ~SentTo(w, session)
        BY <1>3, <2>1 DEF SentTo
      <3>3. Begins(sock[session].buf, hand.turn)
        BY <1>2, <2>1, <3>1, <3>2 DEF Inv, Buffered, Excused
      <3>. QED
        BY <1>1, <3>1, <3>3
    <2>. QED
      BY <1>1, <2>1 DEF InHand, Begins
  <1>. QED
    BY <1>5, <1>6, <1>7, <1>8, <1>9, <1>10, <1>11, <1>12 DEF Inv

LEMMA UseSessionInv ==
    ASSUME Typed, Typed', Inv, UseSession
    PROVE  Inv'
  <1>. USE DEF voice, work, window, sessions, ghosts, lines
  <1>1. PICK new \in BOOLEAN :
          /\ hand.at = "ready" /\ (session = 0 => new)
          /\ IF new THEN Opens ELSE UNCHANGED <<session, opened>>
          /\ sock' = [sock EXCEPT ![session'].busy = TRUE]
          /\ hand'.at = "sending" /\ hand'.turn = hand.turn /\ hand'.epoch = hand.epoch /\ hand'.again = hand.again
          /\ hand'.conn = session' /\ hand'.sent = IF hand.epoch = session' THEN said[hand.turn] ELSE 0
          /\ UNCHANGED <<voice, work, window, streaming, app, ghosts>>
    BY DEF UseSession, Typed, HandTyped, Hands
  <1>2. /\ session' \in Epochs /\ session' # 0 /\ session' <= opened' /\ opened <= opened' /\ opened \in Nat
        /\ opened' \in Nat /\ (new => session' = opened + 1) /\ (~new => session' = session /\ opened' = opened)
        /\ session' \in {0, opened'} /\ (new => session' = opened')
    <2>1. opened \in Nat /\ opened' \in Nat /\ session \in {0, opened} /\ Epochs \subseteq Nat /\ 0 \notin Epochs
      BY DEF Typed, SessionTyped, Epochs, Inv, Fresh
    <2>2. session' \in Epochs \cup {0}
      BY DEF Typed, SessionTyped
    <2>3. CASE new
      BY <1>1, <2>1, <2>2, <2>3 DEF Opens
    <2>4. CASE ~new
      BY <1>1, <2>1, <2>2, <2>4
    <2>. QED
      BY <2>3, <2>4
  <1>3. \A e \in Epochs : sock'[e].buf = sock[e].buf /\ sock'[e].dirty = sock[e].dirty /\ (e # session' => sock'[e] = sock[e])
    <2>1. sock \in [Epochs -> Sock]
      BY DEF Typed, AppTyped
    <2>. QED
      BY <1>1, <1>2, <2>1 DEF Sock
  <1>4. hand.at \in Commits
    BY <1>1 DEF Commits
  <1>5. \A w \in Ws : app[w].epoch <= opened /\ app[w].epoch \in Nat
    BY AppFacts DEF Inv, Fresh, Epochs
  <1>6. streaming.epoch <= opened /\ streaming.epoch \in Nat /\ hand.epoch <= opened /\ hand.epoch \in Nat
    BY DEF Inv, Fresh, Typed, AppTyped, HandTyped, Hands, Epochs
  <1>7. Past'
    BY <1>1 DEF Inv, Past, Left, Of
  <1>8. Fresh'
    <2>1. \A e \in Epochs : e > opened' => sock'[e] = Empty
      BY <1>2, <1>3 DEF Inv, Fresh, Epochs
    <2>. QED
      BY <1>1, <1>2, <1>5, <1>6, <2>1 DEF Fresh
  <1>9. Shape' /\ Alone' /\ Follows'
    BY <1>1 DEF Inv, Shape, Alone, Handling, Follows, Of, Nth, Commits
  <1>10. Elsewhere'
    <2>1. CASE new
      <3>1. \A w \in Ws : app[w].at = "sent" => Of(w) \in overtaken
        BY <1>4, Suspended
      <3>2. streaming.turn # 0 => streaming.turn \in overtaken
        BY <1>4, Suspended
      <3>. QED
        BY <1>1, <3>1, <3>2 DEF Elsewhere, Excused, Of
    <2>2. CASE ~new
      <3>1. session' = session /\ sock'[session].dirty = sock[session].dirty
        BY <1>2, <1>3, <2>2
      <3>. QED
        BY <1>1, <3>1 DEF Inv, Elsewhere, Excused, Of, Gone, Busy, Left
    <2>. QED
      BY <2>1, <2>2
  <1>11. new => sock'[session'].buf = <<>> /\ hand.epoch # session' /\ streaming.epoch # session'
               /\ \A w \in Ws : app[w].epoch # session'
    <2>1. new => session' > opened
      BY <1>2
    <2>2. new => sock[session'] = Empty
      BY <1>2, <2>1 DEF Inv, Fresh
    <2>. QED
      BY <1>2, <1>3, <1>5, <1>6, <2>2 DEF Empty
  <1>12. Buffered'
    <2>1. CASE new
      <3>1. \A w \in Ws : ~SentTo(w, session)'
        BY <1>1, <1>11, <2>1 DEF SentTo
      <3>. QED
        BY <1>1, <1>11, <2>1, <3>1 DEF Buffered
    <2>2. CASE ~new
      <3>1. session' = session /\ sock'[session].buf = sock[session].buf /\ Taken'
        BY <1>1, <1>2, <1>3, <2>2 DEF Taken
      <3>2. \A w \in Ws : SentTo(w, session)' <=> SentTo(w, session)
        BY <1>1, <3>1 DEF SentTo
      <3>. QED
        BY <1>1, <3>1, <3>2 DEF Inv, Buffered, Excused, Begins, Of, Nth
    <2>. QED
      BY <2>1, <2>2
  <1>13. InHand'
    <2>1. said[hand.turn] \in Nat
      BY <1>1 DEF Typed, VoiceTyped, HandTyped
    <2>2. hand'.sent <= said[hand.turn]
      BY <1>1, <2>1
    <2>3. ASSUME hand.turn \notin overtaken, session' \notin torn, hand.turn \in replaced => hand.epoch # session'
          PROVE  /\ Begins(sock'[session'].buf, hand.turn)
                 /\ hand'.sent \in {said[hand.turn], Len(sock'[session'].buf)}
      <3>1. CASE new
        <4>1. sock'[session'].buf = <<>> /\ hand'.sent = 0
          BY <1>1, <1>11, <3>1
        <4>. QED
          BY <4>1 DEF Begins
      <3>2. CASE ~new /\ hand.epoch = session
        <4>1. session' = session /\ session # 0 /\ sock'[session].buf = sock[session].buf
          BY <1>2, <1>3, <3>2
        <4>. QED
          BY <1>1, <2>3, <3>2, <4>1 DEF Inv, InHand, Begins
      <3>3. CASE ~new /\ hand.epoch # session
        <4>1. session' = session /\ session # 0 /\ sock'[session].buf = sock[session].buf /\ session \in Epochs
          BY <1>2, <1>3, <3>3
        <4>2. ~Taken
          BY <1>1, <3>3 DEF Taken
        <4>3. \A w \in Ws : ~SentTo(w, session)
          BY <1>4, <2>3, <4>1, Suspended
        <4>4. streaming.turn = 0
          BY <1>4, <2>3, Suspended
        <4>5. sock[session].buf = <<>>
          BY <2>3, <4>1, <4>2, <4>3, <4>4 DEF Inv, Buffered
        <4>. QED
          BY <1>1, <3>3, <4>1, <4>5 DEF Begins
      <3>. QED
        BY <3>1, <3>2, <3>3
    <2>. QED
      BY <1>1, <2>2, <2>3 DEF InHand, Begins
  <1>. QED
    BY <1>7, <1>8, <1>9, <1>10, <1>12, <1>13 DEF Inv

LEMMA SendAudioInv ==
    ASSUME Typed, Typed', Inv, SendAudio
    PROVE  Inv'
  <1>. USE DEF voice, work, window, sessions, ghosts, lines
  <1>. DEFINE f == <<hand.turn, hand.sent + 1>>
  <1>1. /\ hand.at = "sending" /\ hand.sent < said[hand.turn]
        /\ sock' = [sock EXCEPT ![hand.conn].buf = Append(@, f)]
        /\ hand'.at = "sending" /\ hand'.turn = hand.turn /\ hand'.epoch = hand.epoch /\ hand'.again = hand.again
        /\ hand'.conn = hand.conn /\ hand'.sent = hand.sent + 1
        /\ UNCHANGED <<voice, work, window, streaming, app, sessions, ghosts>>
    BY DEF SendAudio, Typed, HandTyped, Hands
  <1>2. /\ hand.at \in Commits /\ hand.conn \in Epochs /\ hand.sent \in Nat /\ hand.turn \in Turns
        /\ said[hand.turn] \in Nat
    BY <1>1 DEF Commits, Typed, HandTyped, Hands, VoiceTyped
  <1>3. /\ sock'[hand.conn].buf = Append(sock[hand.conn].buf, f) /\ sock[hand.conn].buf \in Seq(Piece) /\ f \in Piece
        /\ \A e \in Epochs : sock'[e].dirty = sock[e].dirty /\ (e # hand.conn => sock'[e] = sock[e])
    <2>1. sock \in [Epochs -> Sock]
      BY DEF Typed, AppTyped
    <2>. QED
      BY <1>1, <1>2, <2>1 DEF Sock, Piece
  <1>4. Past' /\ Follows' /\ \A w \in Ws, e \in Epochs : SentTo(w, e)' <=> SentTo(w, e)
    BY <1>1, HandFrame
  <1>5. Fresh'
    <2>1. \A e \in Epochs : e > opened => sock'[e] = sock[e]
      <3>1. hand.conn <= opened /\ \A e \in Epochs : e \in Nat
        BY DEF Inv, Fresh, Epochs
      <3>2. opened \in Nat
        BY DEF Epochs, Typed, SessionTyped
      <3>3. \A e \in Epochs : e > opened => e # hand.conn
        BY <3>1, <3>2
      <3>. QED
        BY <1>3, <3>3
    <2>. QED
      BY <1>1, <2>1 DEF Inv, Fresh
  <1>6. Shape' /\ Alone'
    BY <1>1 DEF Inv, Shape, Alone, Handling, Of, Commits
  <1>7. Elsewhere'
    <2>1. session # 0 => session \in Epochs /\ sock'[session].dirty = sock[session].dirty
      BY <1>3 DEF Typed, SessionTyped
    <2>. QED
      BY <1>1, <2>1 DEF Inv, Elsewhere, Excused, Of, Gone, Busy, Left
  <1>8. Buffered'
    <2>. SUFFICES ASSUME session # 0, session \notin torn PROVE Buffered'
      BY <1>1 DEF Buffered
    <2>0. session \in Epochs /\ session' = session
      BY <1>1 DEF Typed, SessionTyped
    <2>1. CASE session # hand.conn
      <3>1. sock'[session] = sock[session] /\ ~Taken
        BY <1>1, <1>3, <2>0, <2>1 DEF Taken
      <3>. QED
        BY <1>1, <1>4, <2>0, <3>1 DEF Inv, Buffered, Excused, Begins, Of, Nth
    <2>2. CASE session = hand.conn
      <3>1. Taken'
        BY <1>1, <2>2 DEF Taken
      <3>2. \A w \in Ws : SentTo(w, session) => Of(w) \in overtaken
        BY <1>2, <2>0, Suspended
      <3>3. streaming.turn # 0 => streaming.turn \in overtaken
        BY <1>2, Suspended
      <3>. QED
        BY <1>1, <1>4, <2>0, <3>1, <3>2, <3>3 DEF Buffered, Excused, Of
    <2>. QED
      BY <2>1, <2>2
  <1>9. InHand'
    <2>1. hand.sent + 1 <= said[hand.turn]
      BY <1>1, <1>2
    <2>2. ASSUME hand.turn \notin overtaken, hand.conn \notin torn, hand.turn \in replaced => hand.epoch # hand.conn
          PROVE  /\ Begins(Append(sock[hand.conn].buf, f), hand.turn)
                 /\ hand.sent + 1 = Len(Append(sock[hand.conn].buf, f))
      <3>1. Begins(sock[hand.conn].buf, hand.turn) /\ hand.sent = Len(sock[hand.conn].buf)
        BY <1>1, <1>2, <2>2 DEF Inv, InHand
      <3>. QED
        BY <1>3, <3>1 DEF Begins
    <2>. QED
      BY <1>1, <1>3, <2>1, <2>2 DEF InHand, Begins
  <1>. QED
    BY <1>4, <1>5, <1>6, <1>7, <1>8, <1>9 DEF Inv

LEMMA CommitInv ==
    ASSUME Typed, Typed', Inv, Commit
    PROVE  Inv'
  <1>. USE DEF voice, work, window, sessions, ghosts, lines
  <1>1. /\ hand.at = "sending" /\ hand'.at \in {"listening", "refused"}
        /\ sock' = [sock EXCEPT ![hand.conn].buf = <<>>, ![hand.conn].dirty = FALSE]
        /\ hand'.turn = hand.turn /\ hand'.epoch = hand.epoch /\ hand'.again = hand.again
        /\ hand'.conn = hand.conn /\ hand'.item = sock[hand.conn].buf
        /\ torn' = torn \ {hand.conn}
        /\ UNCHANGED <<voice, work, window, streaming, app, sessions, overtaken, replaced>>
    BY DEF Commit, Typed, HandTyped, Hands
  <1>2. hand.at \in Commits /\ hand.conn \in Epochs
    BY <1>1 DEF Commits, Typed, HandTyped, Hands
  <1>3. /\ sock'[hand.conn].buf = <<>>
        /\ \A e \in Epochs : e # hand.conn => sock'[e] = sock[e]
    <2>1. sock \in [Epochs -> Sock]
      BY DEF Typed, AppTyped
    <2>. QED
      BY <1>1, <1>2, <2>1 DEF Sock
  <1>4. Past' /\ Follows' /\ \A w \in Ws, e \in Epochs : SentTo(w, e)' <=> SentTo(w, e)
    BY <1>1, HandFrame
  <1>s. /\ \A w \in Ws, e \in Epochs : SentTo(w, e) => Of(w) \in overtaken
        /\ streaming.turn # 0 => streaming.turn \in overtaken
    BY <1>2, Suspended
  <1>5. Fresh'
    <2>1. \A e \in Epochs : e > opened => sock'[e] = sock[e]
      <3>1. hand.conn <= opened /\ \A e \in Epochs : e \in Nat
        BY DEF Inv, Fresh, Epochs
      <3>2. opened \in Nat
        BY DEF Epochs, Typed, SessionTyped
      <3>3. \A e \in Epochs : e > opened => e # hand.conn
        BY <3>1, <3>2
      <3>. QED
        BY <1>3, <3>3
    <2>. QED
      BY <1>1, <2>1 DEF Inv, Fresh
  <1>6. Shape' /\ Alone'
    BY <1>1 DEF Inv, Shape, Alone, Handling, Of, Commits
  <1>7. Elsewhere'
    BY <1>1, <1>s DEF Inv, Elsewhere, Excused, Of
  <1>8. Buffered'
    <2>. SUFFICES ASSUME session # 0, session \notin torn' PROVE Buffered'
      BY <1>1 DEF Buffered
    <2>0. session \in Epochs /\ session' = session
      BY <1>1 DEF Typed, SessionTyped
    <2>1. CASE session # hand.conn
      <3>1. sock'[session] = sock[session] /\ ~Taken /\ session \notin torn
        BY <1>1, <1>3, <2>0, <2>1 DEF Taken
      <3>. QED
        BY <1>1, <1>4, <2>0, <3>1 DEF Inv, Buffered, Excused, Begins, Of, Nth
    <2>2. CASE session = hand.conn
      BY <1>1, <1>3, <1>4, <1>s, <2>0, <2>2 DEF Buffered, Excused, Of
    <2>. QED
      BY <2>1, <2>2
  <1>9. InHand'
    BY <1>1 DEF Inv, InHand, Begins
  <1>. QED
    BY <1>4, <1>5, <1>6, <1>7, <1>8, <1>9 DEF Inv

\* The handler is past its commit, and sends no more.
LEMMA PastCommit ==
    ASSUME Typed, Typed', Inv, UNCHANGED <<voice, work, held, streaming, app, opened, ghosts>>,
           session' \in {0, session}, hand'.turn = hand.turn, hand'.conn = hand.conn,
           hand.at \in Commits \cup {"drain"},
           hand'.at \in {"ready", "heard", "drain", "publishing"},
           hand'.at = "heard" => hand.at = "listening" /\ hand'.item = hand.item,
           hand'.epoch \in {0, hand.epoch},
           hand'.at = "ready" => hand'.epoch = 0,
           hand'.again = hand.again \/ hand'.epoch = 0,
           hand'.at = "drain" => hand.at # "drain",
           hand.at = "drain" => app["chunk"] = Idle /\ mode' = "direct",
           hand.at # "drain" => mode' # "direct",
           mode' = "direct" => hand'.at = "publishing",
           \A e \in Epochs : \/ sock'[e] = Empty /\ hand.at = "sending" /\ e = hand.conn
                             \/ /\ sock'[e].buf = sock[e].buf /\ sock'[e].dirty = sock[e].dirty
                                /\ e > opened => sock'[e] = sock[e],
           session' # 0 /\ Taken => hand.at = "sending" /\ sock'[session] = Empty
    PROVE  Inv'
  <1>. USE DEF voice, work, window, sessions, ghosts, lines
  <1>4. /\ Past' /\ Follows' /\ \A w \in Ws, e \in Epochs : SentTo(w, e)' <=> SentTo(w, e)
        /\ \A w \in Ws : Of(w)' = Of(w) /\ Nth(w)' = Nth(w)
    BY HandFrame
  <1>5. Fresh'
    <2>1. hand.conn <= opened /\ Epochs \subseteq Nat /\ opened \in Nat /\ 0 <= opened
      BY DEF Inv, Fresh, Epochs, Typed, SessionTyped
    <2>2. hand.at = "sending" => hand.conn \in Epochs
      BY DEF Typed, HandTyped, Hands
    <2>3. \A e \in Epochs : e > opened => sock'[e] = sock[e]
      BY <2>1, <2>2
    <2>. QED
      BY <2>1, <2>3 DEF Inv, Fresh
  <1>6. Shape'
    BY DEF Inv, Shape, Commits
  <1>7. Alone'
    <2>1. CASE hand.at = "drain"
      BY <2>1 DEF Inv, Alone, Handling, Of, Commits
    <2>2. CASE hand.at \in Commits
      BY <2>2 DEF Inv, Alone, Handling, Of, Commits
    <2>. QED
      BY <2>1, <2>2
  <1>8. CASE session' = 0
    <2>1. Elsewhere' /\ Buffered'
      BY <1>8 DEF Elsewhere, Buffered
    <2>2. InHand'
      BY <1>8 DEF Inv, InHand, Begins
    <2>. QED
      BY <1>4, <1>5, <1>6, <1>7, <2>1, <2>2 DEF Inv
  <1>9. CASE session' = session /\ session # 0
    <2>0. session \in Epochs
      BY <1>9 DEF Typed, SessionTyped
    <2>1. CASE sock'[session] = Empty /\ hand.at = "sending" /\ session = hand.conn
      <3>1. /\ \A w \in Ws, e \in Epochs : SentTo(w, e) => Of(w) \in overtaken
            /\ streaming.turn # 0 => streaming.turn \in overtaken
        BY <2>1, Suspended DEF Commits
      <3>2. sock'[session].buf = <<>>
        BY <2>1 DEF Empty
      <3>3. Elsewhere'
        BY <1>4, <1>9, <3>1 DEF Inv, Elsewhere, Excused
      <3>4. Buffered'
        BY <1>4, <1>9, <2>0, <3>1, <3>2 DEF Buffered, Excused
      <3>5. InHand'
        BY <1>9 DEF Inv, InHand, Begins
      <3>. QED
        BY <1>4, <1>5, <1>6, <1>7, <3>3, <3>4, <3>5 DEF Inv
    <2>2. CASE sock'[session].buf = sock[session].buf /\ sock'[session].dirty = sock[session].dirty
      <3>1. Taken => sock'[session] = Empty
        BY <1>9
      <3>2. Elsewhere'
        BY <1>4, <1>9, <2>2 DEF Inv, Elsewhere, Excused, Gone, Busy, Left
      <3>3. Buffered'
        BY <1>4, <1>9, <2>0, <2>2, <3>1 DEF Inv, Buffered, Excused, Begins, Empty
      <3>4. InHand'
        BY <1>9 DEF Inv, InHand, Begins
      <3>. QED
        BY <1>4, <1>5, <1>6, <1>7, <3>2, <3>3, <3>4 DEF Inv
    <2>. QED
      BY <1>9, <2>0, <2>1, <2>2
  <1>. QED
    BY <1>8, <1>9

LEMMA QuietSock ==
    ASSUME Typed, Inv, NEW b \in BOOLEAN, NEW e0 \in Epochs \cup {0}, e0 <= opened,
           sock' = [sock EXCEPT ![e0].busy = b] \/ sock' = sock
    PROVE  \A e \in Epochs : /\ sock'[e].buf = sock[e].buf /\ sock'[e].dirty = sock[e].dirty
                             /\ e > opened => sock'[e] = sock[e]
  <1>1. sock \in [Epochs -> Sock] /\ Epochs \subseteq Nat /\ opened \in Nat
    BY DEF Typed, AppTyped, SessionTyped, Epochs
  <1>. QED
    BY <1>1 DEF Sock

LEMMA HandlerInv ==
    ASSUME Typed, Typed', Inv, Early \/ Complete \/ Fails \/ Drained
    PROVE  Inv'
  <1>. USE DEF voice, work, window, sessions, ghosts, lines
  <1>0. hand \in Hands /\ hand.conn \in Epochs \cup {0} /\ hand.conn <= opened
    BY DEF Typed, HandTyped, Hands, Inv, Fresh
  <1>1. CASE Early
    <2>1. /\ hand.at = "listening" /\ hand' = [hand EXCEPT !.at = "heard"]
          /\ UNCHANGED <<voice, work, streaming, window, app, sessions, sock, ghosts>>
      BY <1>1 DEF Early
    <2>2. /\ hand'.at = "heard" /\ hand'.turn = hand.turn /\ hand'.conn = hand.conn /\ hand'.epoch = hand.epoch
          /\ hand'.again = hand.again /\ hand'.item = hand.item
      BY <1>0, <2>1 DEF Hands
    <2>3. mode # "direct" /\ ~Taken /\ hand.at \in Commits \cup {"drain"}
      BY <2>1 DEF Inv, Shape, Taken, Commits
    <2>. QED
      BY <2>1, <2>2, <2>3, PastCommit
  <1>2. CASE Complete
    <2>1. PICK again \in BOOLEAN :
          /\ hand.at \in {"listening", "heard"} /\ Quit
          /\ hand' = IF again THEN [hand EXCEPT !.at = "ready", !.epoch = 0, !.again = "empty", !.item = <<>>]
                     ELSE [hand EXCEPT !.at = Release]
          /\ mode' = IF again \/ mode = "gave_up" THEN mode ELSE "draining"
          /\ UNCHANGED <<voice, work, streaming, held, app, sessions, ghosts>>
      BY <1>2 DEF Complete
    <2>2. /\ hand'.at \in {"ready", "drain", "publishing"} /\ hand'.turn = hand.turn /\ hand'.conn = hand.conn
          /\ hand'.epoch \in {0, hand.epoch} /\ (hand'.at = "ready" => hand'.epoch = 0)
          /\ (hand'.again = hand.again \/ hand'.epoch = 0)
      BY <1>0, <2>1 DEF Hands, Release
    <2>3. mode # "direct" /\ ~Taken /\ hand.at \in Commits \cup {"drain"}
      BY <2>1 DEF Inv, Shape, Taken, Commits
    <2>4. mode' # "direct"
      BY <2>1, <2>3
    <2>5. \A e \in Epochs : /\ sock'[e].buf = sock[e].buf /\ sock'[e].dirty = sock[e].dirty
                            /\ e > opened => sock'[e] = sock[e]
      BY <1>0, <2>1, QuietSock DEF Quit
    <2>. QED
      BY <2>1, <2>2, <2>3, <2>4, <2>5, PastCommit
  <1>3. CASE Fails
    <2>1. /\ hand.at \in {"ready", "sending", "listening", "heard", "refused"}
          /\ sock' = IF hand.at = "sending" THEN [sock EXCEPT ![hand.conn] = Empty]
                     ELSE IF hand.conn # 0 THEN [sock EXCEPT ![hand.conn].busy = FALSE] ELSE sock
          /\ UNCHANGED <<voice, work, streaming, closed, held, since, app, opened, opening, ghosts>>
      BY <1>3 DEF Fails
    <2>2. \/ /\ hand.again = "no" /\ session' = 0 /\ UNCHANGED mode
             /\ hand' = [hand EXCEPT !.at = "ready", !.epoch = 0, !.again = "failed", !.item = <<>>]
          \/ /\ hand.again = "failed" /\ hand' = [hand EXCEPT !.at = "publishing"] /\ UNCHANGED <<session, mode>>
          \/ /\ hand.again = "empty" /\ mode' = (IF mode = "gave_up" THEN mode ELSE "draining")
             /\ hand' = [hand EXCEPT !.at = Release] /\ UNCHANGED session
      BY <1>0, <1>3 DEF Fails, Hands
    <2>3. mode # "direct" /\ hand.at \in Commits \cup {"drain"} /\ hand.at # "drain"
      BY <2>1 DEF Inv, Shape, Commits
    <2>4. /\ mode' # "direct" /\ session' \in {0, session} /\ (hand.again = "no" => session' = 0)
          /\ hand'.at \in {"ready", "drain", "publishing"} /\ hand'.turn = hand.turn /\ hand'.conn = hand.conn
          /\ hand'.epoch \in {0, hand.epoch} /\ (hand'.at = "ready" => hand'.epoch = 0)
          /\ (hand'.again = hand.again \/ hand'.epoch = 0)
      BY <1>0, <2>2, <2>3 DEF Hands, Release
    <2>5. \A e \in Epochs : \/ sock'[e] = Empty /\ hand.at = "sending" /\ e = hand.conn
                            \/ /\ sock'[e].buf = sock[e].buf /\ sock'[e].dirty = sock[e].dirty
                               /\ e > opened => sock'[e] = sock[e]
      <3>1. CASE hand.at = "sending"
        BY <2>1, <3>1 DEF Typed, AppTyped
      <3>2. CASE hand.at # "sending"
        BY <1>0, <2>1, <3>2, QuietSock
      <3>. QED
        BY <3>1, <3>2
    <2>6. session' # 0 /\ Taken => hand.at = "sending" /\ sock'[session] = Empty
      <3>1. session' # 0 => hand.epoch = 0
        BY <2>4 DEF Inv, Shape
      <3>. SUFFICES ASSUME session' # 0, Taken PROVE hand.at = "sending" /\ sock'[session] = Empty
        OBVIOUS
      <3>2. session # 0 /\ session \in Epochs /\ session' = session
        BY <2>4 DEF Typed, SessionTyped
      <3>3. hand.at = "sending" /\ hand.conn = session
        BY <3>1, <3>2 DEF Taken
      <3>. QED
        BY <2>1, <3>2, <3>3 DEF Typed, AppTyped
    <2>. QED
      BY <2>1, <2>3, <2>4, <2>5, <2>6, PastCommit
  <1>4. CASE Drained
    <2>1. /\ hand.at = "drain" /\ held = <<>> /\ app["chunk"] = Idle
          /\ mode' = "direct" /\ hand' = [hand EXCEPT !.at = "publishing"]
          /\ UNCHANGED <<voice, work, streaming, closed, held, since, app, sessions, sock, ghosts>>
      BY <1>4 DEF Drained
    <2>2. /\ hand'.at = "publishing" /\ hand'.turn = hand.turn /\ hand'.conn = hand.conn /\ hand'.epoch = hand.epoch
          /\ hand'.again = hand.again
      BY <1>0, <2>1 DEF Hands
    <2>3. ~Taken
      BY <2>1 DEF Taken
    <2>. QED
      BY <2>1, <2>2, <2>3, PastCommit
  <1>. QED
    BY <1>1, <1>2, <1>3, <1>4

\* The handler is gone, and with it the append it was making.
LEMMA Ended ==
    ASSUME Typed, Typed', Inv, EndWindow, UNCHANGED <<voice, chunks, streaming, session, opened, overtaken, replaced>>,
           hand.at # "idle", pending' \subseteq pending \cup {hand.turn}, torn \subseteq torn',
           \A e \in Epochs : /\ sock'[e].buf = sock[e].buf /\ sock'[e].dirty = sock[e].dirty
                             /\ e > opened => sock'[e] = sock[e],
           session # 0 /\ session \notin torn' => ~SentTo("chunk", session) /\ ~Taken
    PROVE  Inv'
  <1>. USE DEF voice
  <1>1. /\ held' = <<>> /\ mode' = None /\ hand' = Free /\ app'["chunk"] = Idle /\ app'["loop"] = app["loop"]
        /\ None # "direct"
    BY DEF EndWindow, None, Typed, AppTyped, Ws
  <1>2. /\ Free.at = "idle" /\ Free.turn = 0 /\ Free.epoch = 0 /\ Free.conn = 0 /\ Free.again = "no"
        /\ Idle.at = "idle" /\ Idle.frame = <<0, 0>> /\ Idle.epoch = 0
    BY DEF Free, Idle
  <1>3. Left' \subseteq Left
    <2>1. Range(<<>>) = {}
      BY DEF Range
    <2>. QED
      BY <1>1, <2>1 DEF Left
  <1>4. Past'
    <2>1. 0 < turn /\ 0 <= turn
      BY DEF Typed, VoiceTyped
    <2>. QED
      BY <1>1, <1>2, <1>3, <2>1 DEF Inv, Past, Of, Ws
  <1>5. Fresh'
    <2>1. 0 <= opened
      BY DEF Typed, SessionTyped, Epochs
    <2>. QED
      BY <1>1, <1>2, <2>1 DEF Inv, Fresh, Ws
  <1>6. Shape' /\ Alone' /\ Follows'
    BY <1>1, <1>2 DEF Inv, Shape, Alone, Handling, Follows, Of, Nth, Ws, Commits
  <1>7. Elsewhere'
    <2>1. session # 0 => session \in Epochs
      BY DEF Typed, SessionTyped
    <2>. QED
      BY <1>1, <1>2, <1>3, <2>1 DEF Inv, Elsewhere, Excused, Of, Gone, Busy, Ws
  <1>8. Buffered'
    <2>. SUFFICES ASSUME session # 0, session \notin torn' PROVE Buffered'
      BY DEF Buffered
    <2>0. session \in Epochs /\ sock'[session].buf = sock[session].buf
      BY DEF Typed, SessionTyped
    <2>1. /\ SentTo("loop", session)' <=> SentTo("loop", session)
          /\ ~SentTo("chunk", session)' /\ ~SentTo("chunk", session) /\ ~Taken
          /\ Of("loop")' = Of("loop") /\ Nth("loop")' = Nth("loop")
      BY <1>1, <1>2 DEF SentTo, Of, Nth
    <2>. QED
      BY <2>0, <2>1 DEF Inv, Buffered, Excused, Begins, Ws
  <1>9. InHand'
    BY <1>1, <1>2 DEF InHand
  <1>. QED
    BY <1>4, <1>5, <1>6, <1>7, <1>8, <1>9 DEF Inv

LEMMA EndsInv ==
    ASSUME Typed, Typed', Inv, Skip \/ Finish \/ Raises \/ TimesOut \/ Crash
    PROVE  Inv'
  <1>. USE DEF work, sessions, ghosts, lines
  <1>0. hand.conn \in Epochs \cup {0} /\ hand.conn <= opened
    BY DEF Typed, HandTyped, Hands, Inv, Fresh
  <1>1. CASE Skip \/ Finish \/ Raises
    <2>1. /\ hand.at \in {"begun", "publishing"} /\ EndWindow
          /\ UNCHANGED <<voice, chunks, streaming, sock, sessions, ghosts>>
          /\ pending' \subseteq pending \cup {hand.turn}
      BY <1>1 DEF Skip, Finish, Raises, Leave
    <2>2. ~Taken /\ app["chunk"] = Idle
      BY <2>1 DEF Taken, Inv, Alone
    <2>3. ~SentTo("chunk", session)
      BY <2>2 DEF SentTo, Idle
    <2>. QED
      BY <2>1, <2>2, <2>3, Ended
  <1>2. CASE TimesOut
    <2>1. /\ hand.at # "idle" /\ EndWindow /\ UNCHANGED <<voice, chunks, streaming, sessions, overtaken, replaced>>
          /\ pending' = pending \cup {hand.turn}
          /\ sock' = IF hand.conn = 0 THEN sock ELSE [sock EXCEPT ![hand.conn].busy = FALSE]
          /\ torn' = (torn \cup {app["chunk"].epoch} \cup
                (IF hand.at \in {"ready", "sending"} THEN {hand.epoch, hand.conn} ELSE {})) \ {0}
      BY <1>2 DEF TimesOut, Leave, Handling
    <2>2. torn \subseteq torn'
      BY <2>1 DEF Typed, AppTyped, Epochs
    <2>3. \A e \in Epochs : /\ sock'[e].buf = sock[e].buf /\ sock'[e].dirty = sock[e].dirty
                            /\ e > opened => sock'[e] = sock[e]
      BY <1>0, <2>1, QuietSock
    <2>4. session # 0 /\ session \notin torn' => ~SentTo("chunk", session) /\ ~Taken
      BY <2>1 DEF SentTo, Taken
    <2>. QED
      BY <2>1, <2>2, <2>3, <2>4, Ended
  <1>3. CASE Crash
    <2>1. /\ held' = <<>> /\ mode' = None /\ app' = [w \in Ws |-> Idle] /\ hand' = Free
          /\ pending' \subseteq pending \cup {hand.turn} /\ (hand.at = "idle" => pending' = pending)
          /\ streaming' = NoTurn /\ session' = 0
          /\ UNCHANGED <<voice, chunks, opened, sock, ghosts>>
      BY <1>3 DEF Crash, Ws, Handling
    <2>2. /\ Free.at = "idle" /\ Free.turn = 0 /\ Free.epoch = 0 /\ Free.conn = 0 /\ Free.again = "no"
          /\ Idle.at = "idle" /\ Idle.frame = <<0, 0>> /\ Idle.epoch = 0 /\ NoTurn.turn = 0 /\ NoTurn.epoch = 0
      BY DEF Free, Idle, NoTurn
    <2>3. Left' \subseteq Left
      <3>1. Range(<<>>) = {}
        BY DEF Range
      <3>. QED
        BY <2>1, <3>1 DEF Left, voice
    <2>4. Past'
      <3>1. 0 < turn /\ 0 <= turn
        BY DEF Typed, VoiceTyped
      <3>. QED
        BY <2>1, <2>2, <2>3, <3>1 DEF Inv, Past, Of, voice
    <2>5. Fresh'
      <3>1. 0 <= opened
        BY DEF Typed, SessionTyped, Epochs
      <3>. QED
        BY <2>1, <2>2, <3>1 DEF Inv, Fresh
    <2>6. Shape' /\ Alone' /\ Follows'
      BY <2>1, <2>2 DEF Shape, Alone, Handling, Follows, Ws, None, Commits
    <2>7. Elsewhere' /\ Buffered' /\ InHand'
      BY <2>1, <2>2 DEF Elsewhere, Buffered, InHand
    <2>. QED
      BY <2>4, <2>5, <2>6, <2>7 DEF Inv
  <1>. QED
    BY <1>1, <1>2, <1>3

LEMMA NextInv == Typed /\ Typed' /\ Inv /\ [Next]_vars => Inv'
  <1>. SUFFICES ASSUME Typed, Typed', Inv, [Next]_vars PROVE Inv'
    OBVIOUS
  <1>1. CASE UNCHANGED vars
    <2>1. UNCHANGED <<said, turn, stream, chunks, pending, streaming, held, mode, app, hand, session, opened,
                      sock, torn, overtaken, replaced>>
      BY <1>1 DEF vars, voice, work, window, sessions, ghosts
    <2>2. Past' /\ Fresh' /\ Shape' /\ Alone' /\ Follows'
      BY <2>1 DEF Inv, Past, Left, Fresh, Shape, Alone, Handling, Follows, Of, Nth
    <2>3. Elsewhere'
      BY <2>1 DEF Inv, Elsewhere, Excused, Gone, Busy, Left, Of
    <2>4. Buffered'
      BY <2>1 DEF Inv, Buffered, Excused, Taken, Of, Nth, SentTo, Begins
    <2>5. InHand'
      BY <2>1 DEF Inv, InHand, Begins
    <2>. QED
      BY <2>2, <2>3, <2>4, <2>5 DEF Inv
  <1>2. ASSUME NEW w \in {"loop", "chunk"}, GoOn(w) \/ Landed(w) PROVE Inv'
    BY <1>2, GoOnInv, LandedInv DEF Ws
  <1>. QED
    BY <1>1, <1>2, SpeakerInv, SessionsInv, ReceiveInv, DrainInv, HaveLockInv, TakeInv, PopInv, UseSessionInv,
       SendAudioInv, CommitInv, HandlerInv, EndsInv DEF Next, Frames, Handle

LEMMA InitInv == Init => Inv
  <1>. SUFFICES ASSUME Init PROVE Inv
    OBVIOUS
  <1>1. /\ Free.at = "idle" /\ Free.turn = 0 /\ Free.epoch = 0 /\ Free.conn = 0 /\ Free.again = "no"
        /\ Idle.at = "idle" /\ Idle.frame = <<0, 0>> /\ Idle.epoch = 0 /\ NoTurn.turn = 0 /\ NoTurn.epoch = 0
    BY DEF Free, Idle, NoTurn
  <1>2. /\ turn = 1 /\ stream = <<>> /\ chunks = <<>> /\ pending = {} /\ streaming = NoTurn /\ held = <<>>
        /\ mode = None /\ app = [w \in Ws |-> Idle] /\ hand = Free /\ session = 0 /\ opened = 0
        /\ sock = [e \in Epochs |-> Empty]
    BY DEF Init, Ws
  <1>3. Range(<<>>) = {}
    BY DEF Range
  <1>4. Past /\ Fresh
    BY <1>1, <1>2, <1>3 DEF Past, Fresh, Left, Of
  <1>5. Shape /\ Alone /\ Follows
    BY <1>1, <1>2 DEF Shape, Alone, Handling, Follows, Ws, None, Commits
  <1>6. Elsewhere /\ Buffered /\ InHand
    BY <1>1, <1>2 DEF Elsewhere, Buffered, InHand
  <1>. QED
    BY <1>4, <1>5, <1>6 DEF Inv

\* Whatever frames and audio are lost, held, given up or sent again, and
\* whenever sessions are opened, swept or renewed, what is committed to the
\* recognizer for a turn is the beginning of that turn, in order and nothing else,
\* but for the four ways FromTheBeginning names: an append under way when the lock
\* or the session changed hands, the track's session taking the place of one in
\* use, a buffer that could not be cleared, or was under a handler that was sending,
\* and a handler cancelled in the middle
\* (STTWorker._append_stream_frame, _pop_streamed_turn, STTStream.transcribe_turn).
THEOREM CommitsTheBeginning == Spec => FromTheBeginning
  <1>1. ASSUME Typed, Inv, [Next]_vars
        PROVE  [hand.at = "sending" /\ hand'.at = "listening" =>
                  \/ \A i \in DOMAIN hand'.item : hand'.item[i] = <<hand.turn, i>>
                  \/ hand.turn \in overtaken
                  \/ hand.turn \in replaced /\ hand.epoch = hand.conn
                  \/ hand.conn \in torn]_vars
    <2>. SUFFICES ASSUME Next, hand.at = "sending", hand'.at = "listening", hand.turn \notin overtaken,
                         hand.turn \in replaced => hand.epoch # hand.conn, hand.conn \notin torn
                  PROVE  \A i \in DOMAIN hand'.item : hand'.item[i] = <<hand.turn, i>>
      BY <1>1
    <2>1. Commit
      <3>1. Free.at = "idle"
        BY DEF Free
      <3>2. hand \in Hands
        BY <1>1 DEF Typed, HandTyped
      <3>3. ~(Speak \/ EndOfTurn \/ Track \/ Prewarmed \/ Sweep \/ Renew \/ HaveLock \/ Receive \/ Drain)
        BY DEF Speak, EndOfTurn, Track, Prewarmed, Sweep, Renew, HaveLock, Receive, Drain
      <3>4. /\ \A w \in Ws : ~GoOn(w) /\ ~Landed(w)
            /\ \A t \in Turns : ~Reclaim(t)
        BY DEF GoOn, Landed, Reclaim
      <3>5. ~(Take \/ Skip \/ Pop \/ UseSession \/ Early \/ Complete \/ Drained \/ Finish \/ Raises)
        BY DEF Take, Skip, Pop, UseSession, Early, Complete, Drained, Finish, Raises, Handling
      <3>6. ~(SendAudio \/ Fails \/ TimesOut \/ Crash)
        BY <3>1, <3>2 DEF SendAudio, Fails, Release, TimesOut, Leave, Crash, EndWindow, Hands
      <3>. QED
        BY <3>3, <3>4, <3>5, <3>6 DEF Next, Frames, Handle, Ws
    <2>2. hand'.item = sock[hand.conn].buf
      BY <1>1, <2>1 DEF Commit, Typed, HandTyped, Hands
    <2>. QED
      BY <1>1, <2>2 DEF Inv, InHand, Begins
  <1>. QED
    BY <1>1, InitInv, TypedAlways, NextInv, PTL DEF Spec, FromTheBeginning
=============================================================================
