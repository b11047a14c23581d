------------------------- MODULE TranslationProofs -------------------------
(***************************************************************************)
(* For any number of messages, sentences, languages, deliveries and        *)
(* faults: no piece of a translation goes out twice, an acknowledged       *)
(* message is complete, and a speaker's messages go out in their turn.     *)
(*   The first argument is the claim in Redis: a lane that publishes a     *)
(* piece holds its claim, no other does, and a piece that is out keeps its *)
(* claim, since only a lane that has not published it gives it back.  The  *)
(* last is the ticket: whoever publishes has seen the ones before it end.  *)
(***************************************************************************)
EXTENDS Translation, TLAPS

Spots == {"none", "queued", "working", "held", "turn", "publishing", "ended"}

Typed ==
    /\ scene \in Scenes
    /\ lane \in [Lanes -> [at : Spots, i : Sentences]]
    /\ sent \in [Pieces -> Nat]

Publishing(t, p) == lane[t].at = "publishing" /\ Piece(t) = p

\* Of a piece Redis is sure of: who publishes it has the claim, alone, and it is not
\* out yet; it is out at most once, and claimed if it is.
Guarded(p) ==
    /\ \A t \in Lanes : Publishing(t, p) => p \in claims /\ sent[p] = 0
    /\ \A t, u \in Lanes : Publishing(t, p) /\ Publishing(u, p) => t = u
    /\ sent[p] = 0 \/ (sent[p] = 1 /\ p \in claims)

Inv == Typed /\ \A p \in Pieces \ doubt : Guarded(p)

-----------------------------------------------------------------------------
(* What the steps are made of.                                              *)

LEMMA PieceType == Typed => \A t \in Lanes : Piece(t) \in Pieces
  BY DEF Typed, Piece, Lanes, Pieces

LEMMA EntryType ==
  ASSUME NEW S, NEW q \in Seq(S), NEW k \in DOMAIN q
  PROVE  q[k] \in S
  <1>1. DOMAIN q = 1..Len(q)
    OBVIOUS
  <1>2. q \in [1..Len(q) -> S]
    OBVIOUS
  <1>3. QED
    BY <1>1, <1>2

LEMMA LengthType == Typed => \A m \in Messages : Length(m) \in Nat /\ Length(m) <= MaxLength
  <1>1. SUFFICES ASSUME Typed, NEW m \in Messages
                 PROVE  Length(m) \in Nat /\ Length(m) <= MaxLength
    OBVIOUS
  <1>2. scene.len \in Seq(0..MaxLength)
    BY <1>1, Shapes DEF Typed
  <1>3. m \in DOMAIN scene.len => scene.len[m] \in 0..MaxLength
    BY <1>2, EntryType
  <1>4. MaxLength \in Nat /\ 1 <= MaxLength
    BY Bounds
  <1>5. QED
    BY <1>3, <1>4 DEF Length

LEMMA AtType ==
  ASSUME Typed, NEW t \in Lanes, NEW where \in Spots, At(t, where)
  PROVE  /\ lane' \in [Lanes -> [at : Spots, i : Sentences]]
         /\ lane'[t].at = where /\ lane'[t].i = lane[t].i
         /\ \A u \in Lanes \ {t} : lane'[u] = lane[u]
  BY DEF Typed, At

LEMMA OnwardType ==
  ASSUME Typed, NEW t \in Lanes, Onward(t)
  PROVE  /\ lane' \in [Lanes -> [at : Spots, i : Sentences]]
         /\ lane'[t].at \in {"working", "ended"}
         /\ \A u \in Lanes \ {t} : lane'[u] = lane[u]
  <1>1. t[1] \in Messages
    BY DEF Lanes
  <1>2. Length(t[1]) \in Nat /\ Length(t[1]) <= MaxLength
    BY <1>1, LengthType
  <1>3. lane[t] \in [at : Spots, i : Sentences]
    BY DEF Typed
  <1>4. MaxLength \in Nat
    BY Bounds
  <1>5. CASE lane[t].i < Length(t[1])
    <2>1. [at |-> "working", i |-> lane[t].i + 1] \in [at : Spots, i : Sentences]
      BY <1>2, <1>3, <1>4, <1>5 DEF Sentences, Spots
    <2>2. lane' = [lane EXCEPT ![t] = [at |-> "working", i |-> lane[t].i + 1]]
      BY <1>5 DEF Onward
    <2>3. QED
      BY <2>1, <2>2 DEF Typed
  <1>6. CASE ~(lane[t].i < Length(t[1]))
    <2>1. lane' = [lane EXCEPT ![t] = [lane[t] EXCEPT !.at = "ended"]]
      BY <1>6 DEF Onward
    <2>2. [lane[t] EXCEPT !.at = "ended"] \in [at : Spots, i : Sentences]
      BY <1>3 DEF Spots
    <2>3. [lane[t] EXCEPT !.at = "ended"].at = "ended"
      BY <1>3
    <2>4. QED
      BY <2>1, <2>2, <2>3 DEF Typed
  <1>7. QED
    BY <1>5, <1>6

LEMMA EndedType ==
  ASSUME Typed, NEW ts \in SUBSET Lanes, Ended(ts)
  PROVE  /\ lane' \in [Lanes -> [at : Spots, i : Sentences]]
         /\ \A u \in ts : lane'[u].at \in {"none", "ended"}
         /\ \A u \in Lanes \ ts : lane'[u] = lane[u]
  <1>1. ASSUME NEW u \in Lanes
        PROVE  /\ [lane[u] EXCEPT !.at = "ended"] \in [at : Spots, i : Sentences]
               /\ [lane[u] EXCEPT !.at = "ended"].at = "ended"
    BY DEF Typed, Spots
  <1>2. QED
    BY <1>1 DEF Ended, Typed

LEMMA RaiseType ==
  ASSUME Typed, NEW t \in Lanes, Raise(t)
  PROVE  /\ lane' \in [Lanes -> [at : Spots, i : Sentences]]
         /\ lane'[t].at = "ended" /\ scene' = scene
         /\ \A u \in Lanes \ {t} : lane'[u] = lane[u] \/ lane'[u].at = "ended"
  <1>1. ASSUME NEW u \in Lanes
        PROVE  /\ [lane[u] EXCEPT !.at = "ended"] \in [at : Spots, i : Sentences]
               /\ [lane[u] EXCEPT !.at = "ended"].at = "ended"
    BY DEF Typed, Spots
  <1>2. QED
    BY <1>1 DEF Raise, Typed, room

\* A step that publishes and claims nothing new, and gives no claim back.
LEMMA QuietStep ==
  ASSUME Inv, scene' = scene, lane' \in [Lanes -> [at : Spots, i : Sentences]],
         sent' = sent, claims \subseteq claims', doubt \subseteq doubt',
         \A t \in Lanes : lane'[t].at = "publishing" => lane'[t] = lane[t]
  PROVE  Inv'
  <1>1. Typed'
    BY DEF Inv, Typed
  <1>2. ASSUME NEW p \in Pieces \ doubt'
        PROVE  Guarded(p)'
    <2>1. Guarded(p)
      BY DEF Inv
    <2>2. ASSUME NEW t \in Lanes, Publishing(t, p)'
          PROVE  Publishing(t, p)
      BY <2>2 DEF Publishing, Piece
    <2>3. QED
      BY <2>1, <2>2 DEF Guarded
  <1>3. QED
    BY <1>1, <1>2 DEF Inv
-----------------------------------------------------------------------------
(* The steps that publish, claim, or give a claim back.                     *)

LEMMA ClaimKeeps == ASSUME Inv, NEW t \in Lanes, Claim(t) PROVE Inv'
  <1>1. Typed /\ Piece(t) \in Pieces
    BY PieceType DEF Inv
  <1>2. At(t, "publishing")
    BY DEF Claim
  <1>3. /\ lane' \in [Lanes -> [at : Spots, i : Sentences]]
        /\ lane'[t].i = lane[t].i
        /\ \A u \in Lanes \ {t} : lane'[u] = lane[u]
    BY <1>1, <1>2, AtType DEF Spots
  <1>4. Typed'
    BY <1>1, <1>3 DEF Typed, Claim, room
  <1>5. Piece(t)' = Piece(t)
    BY <1>3 DEF Piece
  <1>6. ASSUME NEW p \in Pieces \ doubt'
        PROVE  Guarded(p)'
    <2>1. Guarded(p) /\ sent' = sent /\ claims \subseteq claims' /\ Piece(t) \in claims' /\ Piece(t) \notin claims
      BY <1>6 DEF Inv, Claim, ghosts
    <2>2. ASSUME NEW u \in Lanes, Publishing(u, p)', u # t
          PROVE  Publishing(u, p)
      BY <1>3, <2>2 DEF Publishing, Piece
    <2>3. CASE p = Piece(t)
      <3>1. sent[p] = 0 /\ \A u \in Lanes : ~Publishing(u, p)
        BY <2>1, <2>3 DEF Guarded
      <3>2. QED
        BY <2>1, <2>2, <2>3, <3>1 DEF Guarded
    <2>4. CASE p # Piece(t)
      <3>1. ~Publishing(t, p)'
        BY <1>5, <2>4 DEF Publishing
      <3>2. QED
        BY <2>1, <2>2, <3>1 DEF Guarded
    <2>5. QED
      BY <2>3, <2>4
  <1>7. QED
    BY <1>4, <1>6 DEF Inv

LEMMA ClaimFailsKeeps == ASSUME Inv, NEW t \in Lanes, ClaimFails(t) PROVE Inv'
  <1>1. Typed /\ Piece(t) \in Pieces
    BY PieceType DEF Inv
  <1>2. At(t, "publishing") /\ scene' = scene /\ sent' = sent
        /\ claims \subseteq claims' /\ doubt' = doubt \cup {Piece(t)}
    BY DEF ClaimFails, room
  <1>3. /\ lane' \in [Lanes -> [at : Spots, i : Sentences]]
        /\ lane'[t].i = lane[t].i
        /\ \A u \in Lanes \ {t} : lane'[u] = lane[u]
    BY <1>1, <1>2, AtType DEF Spots
  <1>4. Typed'
    BY <1>1, <1>2, <1>3 DEF Typed
  <1>5. ASSUME NEW p \in Pieces \ doubt'
        PROVE  Guarded(p)'
    <2>1. Guarded(p) /\ p # Piece(t)
      BY <1>2 DEF Inv
    <2>2. ASSUME NEW u \in Lanes, Publishing(u, p)'
          PROVE  Publishing(u, p)
      BY <1>3, <2>1, <2>2 DEF Publishing, Piece
    <2>3. QED
      BY <1>2, <2>1, <2>2 DEF Guarded
  <1>6. QED
    BY <1>4, <1>5 DEF Inv

\* A repeated publication leaves its piece in doubt, and no other is touched.
LEMMA PublishTwiceKeeps == ASSUME Inv, NEW t \in Lanes, PublishTwice(t) PROVE Inv'
  <1>1. Typed /\ Piece(t) \in Pieces
    BY PieceType DEF Inv
  <1>2. Onward(t) /\ scene' = scene /\ claims' = claims /\ doubt' = doubt \cup {Piece(t)}
        /\ sent' = [sent EXCEPT ![Piece(t)] = @ + 2]
    BY DEF PublishTwice, room
  <1>3. /\ lane' \in [Lanes -> [at : Spots, i : Sentences]]
        /\ lane'[t].at \in {"working", "ended"}
        /\ \A u \in Lanes \ {t} : lane'[u] = lane[u]
    BY <1>1, <1>2, OnwardType
  <1>4. Typed'
    BY <1>1, <1>2, <1>3 DEF Typed
  <1>5. ASSUME NEW p \in Pieces \ doubt'
        PROVE  Guarded(p)'
    <2>1. Guarded(p) /\ p # Piece(t)
      BY <1>2 DEF Inv
    <2>2. ASSUME NEW u \in Lanes, Publishing(u, p)'
          PROVE  Publishing(u, p)
      BY <1>3, <2>2 DEF Publishing, Piece
    <2>3. sent'[p] = sent[p]
      BY <1>1, <1>2, <2>1 DEF Typed
    <2>4. QED
      BY <1>2, <2>1, <2>2, <2>3 DEF Guarded
  <1>6. QED
    BY <1>4, <1>5 DEF Inv

LEMMA PublishKeeps == ASSUME Inv, NEW t \in Lanes, Publish(t) PROVE Inv'
  <1>1. Typed /\ Piece(t) \in Pieces
    BY PieceType DEF Inv
  <1>2. Onward(t) /\ scene' = scene /\ claims' = claims /\ doubt' = doubt
        /\ sent' = [sent EXCEPT ![Piece(t)] = @ + 1] /\ Publishing(t, Piece(t))
    BY DEF Publish, room, ghosts, Publishing
  <1>3. /\ lane' \in [Lanes -> [at : Spots, i : Sentences]]
        /\ lane'[t].at \in {"working", "ended"}
        /\ \A u \in Lanes \ {t} : lane'[u] = lane[u]
    BY <1>1, <1>2, OnwardType
  <1>4. Typed'
    BY <1>1, <1>2, <1>3 DEF Typed
  <1>5. ASSUME NEW p \in Pieces \ doubt'
        PROVE  Guarded(p)'
    <2>1. Guarded(p)
      BY <1>2 DEF Inv
    <2>2. ASSUME NEW u \in Lanes, Publishing(u, p)'
          PROVE  Publishing(u, p) /\ u # t
      BY <1>3, <2>2 DEF Publishing, Piece
    <2>3. CASE p = Piece(t)
      <3>1. sent[p] = 0 /\ p \in claims
        BY <1>2, <2>1, <2>3 DEF Guarded
      <3>2. sent'[p] = 1
        BY <1>1, <1>2, <2>3, <3>1 DEF Typed
      <3>3. \A u \in Lanes : ~Publishing(u, p)'
        BY <1>2, <2>1, <2>2, <2>3 DEF Guarded
      <3>4. QED
        BY <1>2, <3>1, <3>2, <3>3 DEF Guarded
    <2>4. CASE p # Piece(t)
      <3>1. sent'[p] = sent[p]
        BY <1>1, <1>2, <2>4 DEF Typed
      <3>2. QED
        BY <1>2, <2>1, <2>2, <3>1 DEF Guarded
    <2>5. QED
      BY <2>3, <2>4
  <1>6. QED
    BY <1>4, <1>5 DEF Inv

\* Lanes end in the middle of a piece: its claim is given back, unless it is out.
LEMMA GivingBackKeeps ==
  ASSUME Inv, NEW ts \in SUBSET Lanes, NEW ps \in SUBSET Pieces, NEW back,
         scene' = scene, Landed(ps), doubt \subseteq doubt',
         lane' \in [Lanes -> [at : Spots, i : Sentences]],
         \A u \in ts : lane'[u].at # "publishing",
         \A u \in Lanes \ ts : lane'[u] = lane[u] \/ lane'[u].at # "publishing",
         \A p \in Pieces \ (doubt \cup ps) : p \in back => \E u \in ts : Publishing(u, p),
         claims \ back \subseteq claims'
  PROVE  Inv'
  <1>1. Typed
    BY DEF Inv
  <1>2. /\ sent' \in [Pieces -> Nat] /\ doubt' = doubt \cup ps
        /\ \A p \in Pieces \ ps : sent'[p] = sent[p]
    BY <1>1 DEF Landed, Typed
  <1>3. Typed'
    BY <1>1, <1>2 DEF Typed
  <1>4. ASSUME NEW p \in Pieces \ doubt'
        PROVE  Guarded(p)'
    <2>1. Guarded(p) /\ sent'[p] = sent[p]
      BY <1>2 DEF Inv
    <2>2. ASSUME NEW u \in Lanes, Publishing(u, p)'
          PROVE  Publishing(u, p) /\ u \notin ts
      BY <2>2 DEF Publishing, Piece
    <2>3. CASE p \in back
      <3>1. PICK u \in ts : Publishing(u, p)
        BY <1>2, <2>3
      <3>2. sent[p] = 0
        BY <2>1, <3>1 DEF Guarded
      <3>3. \A v \in Lanes : ~Publishing(v, p)'
        BY <2>1, <2>2, <3>1 DEF Guarded
      <3>4. QED
        BY <2>1, <3>2, <3>3 DEF Guarded
    <2>4. CASE p \notin back
      <3>1. p \in claims => p \in claims'
        BY <2>4
      <3>2. QED
        BY <2>1, <2>2, <3>1 DEF Guarded
    <2>5. QED
      BY <2>3, <2>4
  <1>5. QED
    BY <1>3, <1>4 DEF Inv

LEMMA NotPublishedKeeps == ASSUME Inv, NEW t \in Lanes, NotPublished(t) PROVE Inv'
  <1>1. Typed /\ Piece(t) \in Pieces
    BY PieceType DEF Inv
  <1>2. PICK landed \in BOOLEAN, kept \in SUBSET {Piece(t)} :
          /\ lane[t].at = "publishing" /\ Raise(t) /\ claims' = claims \ ({Piece(t)} \ kept)
          /\ Landed(IF landed THEN {Piece(t)} ELSE {})
    BY DEF NotPublished, GiveBack
  <1>3. /\ lane' \in [Lanes -> [at : Spots, i : Sentences]]
        /\ lane'[t].at = "ended" /\ scene' = scene
        /\ \A u \in Lanes \ {t} : lane'[u] = lane[u] \/ lane'[u].at = "ended"
    BY <1>1, <1>2, RaiseType
  <1>4. Publishing(t, Piece(t))
    BY <1>2 DEF Publishing
  <1>5. doubt \subseteq doubt'
    BY <1>2 DEF Landed
  <1>6. DEFINE ps == IF landed THEN {Piece(t)} ELSE {}
               back == {Piece(t)} \ kept
  <1>7. ps \in SUBSET Pieces /\ Landed(ps) /\ claims \ back \subseteq claims'
    BY <1>1, <1>2
  <1>8. \A p \in back : \E u \in {t} : Publishing(u, p)
    BY <1>4
  <1>9. /\ {t} \in SUBSET Lanes /\ \A u \in {t} : lane'[u].at # "publishing"
        /\ \A u \in Lanes \ {t} : lane'[u] = lane[u] \/ lane'[u].at # "publishing"
    BY <1>3
  <1>10. QED
    <2> HIDE DEF ps, back
    <2> QED
      BY <1>3, <1>5, <1>7, <1>8, <1>9, GivingBackKeeps

LEMMA TimesOutKeeps == ASSUME Inv, NEW m \in Messages, TimesOut(m) PROVE Inv'
  <1>1. Typed /\ Of(m) \in SUBSET Lanes
    BY DEF Inv, Of
  <1>2. PICK claimed \in SUBSET (Pending(Of(m), "turn") \ claims),
             written \in SUBSET Pending(Of(m), "publishing"),
             kept \in SUBSET Pending(Of(m), "publishing") :
          /\ Ended(Of(m)) /\ Landed(written) /\ scene' = scene
          /\ claims' = (claims \cup claimed) \ (Pending(Of(m), "publishing") \ kept)
    BY DEF TimesOut, room
  <1>3. \A p \in Pending(Of(m), "publishing") :
          p \in Pieces /\ \E u \in Of(m) : Publishing(u, p)
    BY <1>1, PieceType DEF Pending, Publishing
  <1>4. /\ lane' \in [Lanes -> [at : Spots, i : Sentences]]
        /\ \A u \in Of(m) : lane'[u].at \in {"none", "ended"}
        /\ \A u \in Lanes \ Of(m) : lane'[u] = lane[u]
    BY <1>1, <1>2, EndedType
  <1>5. written \in SUBSET Pieces /\ doubt \subseteq doubt'
    BY <1>2, <1>3 DEF Landed
  <1>6. DEFINE ts == Of(m)
               back == Pending(Of(m), "publishing") \ kept
  <1>7. claims \ back \subseteq claims' /\ \A p \in back : \E u \in ts : Publishing(u, p)
    BY <1>2, <1>3
  <1>8. /\ ts \in SUBSET Lanes /\ \A u \in ts : lane'[u].at # "publishing"
        /\ \A u \in Lanes \ ts : lane'[u] = lane[u]
    BY <1>1, <1>4
  <1>9. QED
    <2> HIDE DEF ts, back
    <2> QED
      BY <1>2, <1>4, <1>5, <1>7, <1>8, GivingBackKeeps

-----------------------------------------------------------------------------
(* The rest leave claims and publications alone.                            *)

LEMMA CrashKeeps == ASSUME Inv, Crash PROVE Inv'
  <1>1. Typed
    BY DEF Inv
  <1>2. Ended(Lanes) /\ scene' = scene /\ sent' = sent /\ claims' = claims /\ doubt' = doubt
    BY DEF Crash, room
  <1>3. lane' \in [Lanes -> [at : Spots, i : Sentences]] /\ \A u \in Lanes : lane'[u].at # "publishing"
    BY <1>1, <1>2, EndedType
  <1>4. QED
    BY <1>2, <1>3, QuietStep

LEMMA EnterKeeps == ASSUME Inv, NEW m \in Messages, Enter(m) PROVE Inv'
  <1>1. Typed /\ 1 \in Sentences
    BY Bounds DEF Inv, Sentences
  <1>2. scene' = scene /\ sent' = sent /\ claims' = claims /\ doubt' = doubt
    BY DEF Enter, room, ghosts
  <1>3. lane' \in [Lanes -> [at : Spots, i : Sentences]]
    BY <1>1 DEF Enter, Typed, Spots
  <1>4. \A u \in Lanes : lane'[u].at = "publishing" => lane'[u] = lane[u]
    BY <1>1 DEF Enter, Typed
  <1>5. QED
    BY <1>2, <1>3, <1>4, QuietStep

\* A lane that waits, is woken, passes a piece over or ends with an error.
LEMMA LaneKeeps ==
  ASSUME Inv, NEW t \in Lanes,
         Queue(t) \/ Translated(t) \/ NotTranslated(t) \/ Suppressed(t) \/ Woken(t) \/ WaitedLong(t)
           \/ PassOver(t) \/ ClaimUnheard(t)
  PROVE  Inv'
  <1>1. Typed
    BY DEF Inv
  <1>2. scene' = scene
    BY DEF Queue, Translated, NotTranslated, Suppressed, Woken, WaitedLong, PassOver, ClaimUnheard, Raise, room
  <1>3. sent' = sent /\ claims \subseteq claims' /\ doubt' = doubt
    BY DEF Queue, Translated, NotTranslated, Suppressed, Woken, WaitedLong, PassOver, ClaimUnheard, ghosts
  <1>4. (\E where \in {"turn", "held"} : At(t, where)) \/ Onward(t) \/ Raise(t)
    BY DEF Queue, Translated, NotTranslated, Suppressed, Woken, WaitedLong, PassOver, ClaimUnheard, Ready
  <1>5. CASE \E where \in {"turn", "held"} : At(t, where)
    <2>1. PICK where \in {"turn", "held"} : At(t, where)
      BY <1>5
    <2>2. where \in Spots
      BY DEF Spots
    <2>3. /\ lane' \in [Lanes -> [at : Spots, i : Sentences]]
          /\ \A u \in Lanes : lane'[u].at = "publishing" => lane'[u] = lane[u]
      BY <1>1, <2>1, <2>2, AtType
    <2>4. QED
      BY <1>2, <1>3, <2>3, QuietStep
  <1>6. CASE Onward(t)
    <2>1. /\ lane' \in [Lanes -> [at : Spots, i : Sentences]]
          /\ \A u \in Lanes : lane'[u].at = "publishing" => lane'[u] = lane[u]
      BY <1>1, <1>6, OnwardType
    <2>2. QED
      BY <1>2, <1>3, <2>1, QuietStep
  <1>7. CASE Raise(t)
    <2>1. /\ lane' \in [Lanes -> [at : Spots, i : Sentences]]
          /\ \A u \in Lanes : lane'[u].at = "publishing" => lane'[u] = lane[u]
      BY <1>1, <1>7, RaiseType
    <2>2. QED
      BY <1>2, <1>3, <2>1, QuietStep
  <1>8. QED
    BY <1>4, <1>5, <1>6, <1>7

LEMMA NoLaneKeeps ==
  ASSUME Inv, scene' = scene, UNCHANGED <<lane, claims, sent, doubt>>
  PROVE  Inv'
  <1>1. lane' \in [Lanes -> [at : Spots, i : Sentences]]
    BY DEF Inv, Typed
  <1>2. QED
    BY <1>1, QuietStep

LEMMA InitInv == Init => Inv
  <1>1. SUFFICES ASSUME Init PROVE Inv
    OBVIOUS
  <1>2. scene \in Scenes /\ lane = [t \in Lanes |-> NoLane] /\ sent = [p \in Pieces |-> 0]
    BY <1>1, Zenon DEF Init
  <1>3. NoLane \in [at : Spots, i : Sentences] /\ NoLane.at = "none"
    BY Bounds DEF Sentences, NoLane, Spots
  <1>4. Typed
    BY <1>2, <1>3 DEF Typed
  <1>5. (\A t \in Lanes : lane[t].at = "none") /\ \A p \in Pieces : sent[p] = 0
    BY <1>2, <1>3
  <1>6. QED
    BY <1>4, <1>5 DEF Inv, Guarded, Publishing

LEMMA NextInv == Inv /\ [Next]_vars => Inv'
  <1>1. SUFFICES ASSUME Inv, [Next]_vars PROVE Inv'
    OBVIOUS
  <1>2. CASE Change
    BY <1>1, <1>2, NoLaneKeeps DEF Change, ghosts
  <1>3. CASE Read
    BY <1>1, <1>3, NoLaneKeeps DEF Read, ghosts, room
  <1>4. CASE Crash
    BY <1>1, <1>4, CrashKeeps
  <1>5. ASSUME NEW m \in Messages, Handle(m) PROVE Inv'
    <2>1. CASE Enter(m)
      BY <1>1, <2>1, EnterKeeps
    <2>2. CASE Finish(m)
      BY <1>1, <2>2, NoLaneKeeps DEF Finish, ghosts, room
    <2>3. CASE Reclaim(m)
      BY <1>1, <2>3, NoLaneKeeps DEF Reclaim, ghosts, room
    <2>4. QED
      BY <1>5, <2>1, <2>2, <2>3 DEF Handle
  <1>6. ASSUME NEW m \in Messages, TimesOut(m) PROVE Inv'
    BY <1>1, <1>6, TimesOutKeeps
  <1>7. ASSUME NEW t \in Lanes, Work(t) PROVE Inv'
    <2>1. CASE Claim(t)
      BY <1>1, <2>1, ClaimKeeps
    <2>2. CASE ClaimFails(t)
      BY <1>1, <2>2, ClaimFailsKeeps
    <2>3. CASE Publish(t)
      BY <1>1, <2>3, PublishKeeps
    <2>4. CASE NotPublished(t)
      BY <1>1, <2>4, NotPublishedKeeps
    <2>5. CASE Queue(t) \/ Translated(t) \/ NotTranslated(t) \/ Suppressed(t) \/ Woken(t)
                 \/ WaitedLong(t) \/ PassOver(t) \/ ClaimUnheard(t)
      BY <1>1, <2>5, LaneKeeps
    <2>6. CASE PublishTwice(t)
      BY <1>1, <2>6, PublishTwiceKeeps
    <2>7. QED
      BY <1>7, <2>1, <2>2, <2>3, <2>4, <2>5, <2>6 DEF Work
  <1>8. CASE UNCHANGED vars
    BY <1>1, <1>8, NoLaneKeeps DEF vars, room, ghosts
  <1>9. QED
    BY <1>1, <1>2, <1>3, <1>4, <1>5, <1>6, <1>7, <1>8 DEF Next

\* Whatever fails, is cancelled, crashes or is taken over, and however many
\* deliveries of a message work beside each other, a piece is published once unless
\* Redis left it open (TranslationWorker._claim_publish).
THEOREM PublishedOnce == Spec => []OnceUnlessInDoubt
  <1>1. Inv => OnceUnlessInDoubt
    BY DEF Inv, Guarded, OnceUnlessInDoubt
  <1>2. QED
    BY InitInv, NextInv, <1>1, PTL DEF Spec
-----------------------------------------------------------------------------
(* A message is complete when it is acknowledged: a lane of the delivery in  *)
(* hand has done with every sentence before the one it is at, because a      *)
(* claim is only found where the piece is out, given up, or in the hands of  *)
(* a lane that is not of this delivery.                                      *)

Done(p) == sent[p] > 0 \/ p \in dropped \cup stranded
Current(t) == t[2] = tries[t[1]]

\* Where messages and lanes can be.
Standing ==
    /\ unread \in Nat /\ tries \in [Messages -> Nat]
    /\ state \in [Messages -> {"unread", "started", "running", "failed", "acked", "dead"}]
    /\ \A m \in Messages : m >= unread => tries[m] = 0 /\ state[m] \in {"unread", "acked"}
    /\ \A m \in Messages : m < unread => tries[m] >= 1
    /\ \A t \in Lanes : t[2] > tries[t[1]] => lane[t].at = "none"
    /\ \A t \in Lanes : Current(t) /\ state[t[1]] = "started" => lane[t].at = "none"
    /\ \A t \in Lanes : Current(t) /\ state[t[1]] = "acked" => lane[t].at \in {"none", "ended"}

\* A claimed piece is out, left behind, or about to go out.
Answered == \A p \in claims : sent[p] > 0 \/ p \in stranded \/ \E u \in Lanes : Publishing(u, p)

\* What the lanes of the delivery in hand, and of an acknowledged one, have behind them.
Behind(t) == {j \in 1..Length(t[1]) : j < lane[t].i \/ lane[t].at = "ended"}
Progress == \A t \in Lanes :
    Current(t) /\ state[t[1]] \in {"running", "acked"} /\ lane[t].at # "none" =>
        \A j \in Behind(t) : Done(<<t[1], t[3], j>>)

Whole == Standing /\ Answered /\ Progress

-----------------------------------------------------------------------------
(* How what is done, claimed and behind carries over a step.                *)

LEMMA DoneStays ==
  ASSUME Typed, sent' \in [Pieces -> Nat], \A p \in Pieces : sent'[p] >= sent[p],
         dropped \subseteq dropped', stranded \subseteq stranded'
  PROVE  \A p \in Pieces : Done(p) => Done(p)'
  BY DEF Typed, Done

LEMMA PieceOf ==
  ASSUME Typed, NEW t \in Lanes, NEW j \in 1..Length(t[1])
  PROVE  <<t[1], t[3], j>> \in Pieces
  <1>1. t[1] \in Messages /\ t[3] \in Langs
    BY DEF Lanes
  <1>2. Length(t[1]) \in Nat /\ Length(t[1]) <= MaxLength /\ MaxLength \in Nat
    BY <1>1, LengthType, Bounds
  <1>3. \A n, b \in Nat : n <= b => \A k \in 1..n : k \in 1..b
    OBVIOUS
  <1>4. j \in Sentences
    BY <1>2, <1>3 DEF Sentences
  <1>5. QED
    BY <1>1, <1>4 DEF Pieces

LEMMA LengthStays == scene' = scene => \A m : Length(m)' = Length(m)
  BY DEF Length, Marker

\* One lane takes a step of its delivery, and no message changes hands.
LEMMA LaneStep ==
  ASSUME Typed, Whole, scene' = scene, work' = work,
         \A p \in Pieces : Done(p) => Done(p)',
         NEW t \in Lanes, lane[t].at \notin {"none", "ended"},
         \A u \in Lanes \ {t} : lane'[u] = lane[u],
         Current(t) /\ state[t[1]] = "running" =>
            \A j \in Behind(t)' \ Behind(t) : Done(<<t[1], t[3], j>>)'
  PROVE  Standing' /\ Progress'
  <1>1. unread' = unread /\ state' = state /\ tries' = tries
    BY DEF work
  <1>2. ~(t[2] > tries[t[1]]) /\ (Current(t) => state[t[1]] \notin {"started", "acked"})
    BY DEF Whole, Standing
  <1>3. Standing'
    <2>1. \A u \in Lanes : u # t => lane'[u] = lane[u]
      OBVIOUS
    <2>2. \A u \in Lanes : u[2] > tries[u[1]] => lane'[u].at = "none"
      BY <1>2, <2>1 DEF Whole, Standing
    <2>3. \A u \in Lanes : Current(u) /\ state[u[1]] = "started" => lane'[u].at = "none"
      BY <1>2, <2>1 DEF Whole, Standing
    <2>4. \A u \in Lanes : Current(u) /\ state[u[1]] = "acked" => lane'[u].at \in {"none", "ended"}
      BY <1>2, <2>1 DEF Whole, Standing
    <2>5. QED
      BY <1>1, <2>2, <2>3, <2>4 DEF Whole, Standing, Current
  <1>4. Progress'
    <2>1. SUFFICES ASSUME NEW u \in Lanes, Current(u)', state'[u[1]] \in {"running", "acked"},
                          lane'[u].at # "none", NEW j \in Behind(u)'
                   PROVE  Done(<<u[1], u[3], j>>)'
      BY DEF Progress
    <2>2. Current(u) /\ state[u[1]] \in {"running", "acked"} /\ j \in 1..Length(u[1])
      BY <1>1, <2>1, LengthStays DEF Current, Behind
    <2>3. <<u[1], u[3], j>> \in Pieces
      BY <2>2, PieceOf
    <2>4. CASE j \in Behind(u) /\ lane[u].at # "none"
      BY <2>2, <2>3, <2>4 DEF Whole, Progress
    <2>5. CASE u # t
      <3>1. lane'[u] = lane[u]
        BY <2>5
      <3>2. Behind(u)' = Behind(u)
        BY <3>1, LengthStays DEF Behind
      <3>3. QED
        BY <2>1, <2>4, <3>1, <3>2
    <2>6. CASE u = t /\ j \notin Behind(t)
      BY <1>2, <2>1, <2>2, <2>6
    <2>7. QED
      BY <2>4, <2>5, <2>6
  <1>5. QED
    BY <1>3, <1>4

\* A delivery, or several, end in the middle.
LEMMA EndStep ==
  ASSUME Typed, Whole, scene' = scene, unread' = unread, tries' = tries,
         \A p \in Pieces : Done(p) => Done(p)',
         state' \in [Messages -> {"unread", "started", "running", "failed", "acked", "dead"}],
         \A m \in Messages : state'[m] = state[m] \/ (Handled(m) /\ state'[m] \in {"failed", "dead"}),
         \A u \in Lanes : \/ lane'[u] = lane[u]
                          \/ /\ lane[u].at # "none" /\ lane'[u].at = "ended"
                             /\ Current(u) => state'[u[1]] \in {"failed", "dead"}
                                              \/ state[u[1]] \notin {"started", "running"}
  PROVE  Standing' /\ Progress'
  <1>1. \A u \in Lanes : u[1] \in Messages
    BY DEF Lanes
  <1>2. \A u \in Lanes : Current(u)' <=> Current(u)
    BY DEF Current
  <1>3. ASSUME NEW u \in Lanes, Current(u), state'[u[1]] \in {"started", "running", "acked"}
        PROVE  state[u[1]] = state'[u[1]] /\ (lane'[u] = lane[u] \/
                  (state[u[1]] = "acked" /\ lane[u].at # "none" /\ lane'[u].at = "ended"))
    BY <1>1, <1>3
  <1>4. Standing'
    <2>1. \A m \in Messages : m >= unread => state'[m] \in {"unread", "acked"}
      BY DEF Whole, Standing, Handled
    <2>2. \A u \in Lanes : u[2] > tries[u[1]] => lane'[u].at = "none"
      BY DEF Whole, Standing
    <2>3. \A u \in Lanes : Current(u) /\ state'[u[1]] = "started" => lane'[u].at = "none"
      BY <1>3 DEF Whole, Standing
    <2>4. \A u \in Lanes : Current(u) /\ state'[u[1]] = "acked" => lane'[u].at \in {"none", "ended"}
      BY <1>3 DEF Whole, Standing
    <2>5. unread \in Nat /\ tries \in [Messages -> Nat] /\ (\A m \in Messages : m >= unread => tries[m] = 0)
          /\ (\A m \in Messages : m < unread => tries[m] >= 1)
      BY DEF Whole, Standing
    <2>6. QED
      BY <1>2, <2>1, <2>2, <2>3, <2>4, <2>5 DEF Standing
  <1>5. Progress'
    <2>1. SUFFICES ASSUME NEW u \in Lanes, Current(u), state'[u[1]] \in {"running", "acked"},
                          lane'[u].at # "none", NEW j \in Behind(u)'
                   PROVE  Done(<<u[1], u[3], j>>)'
      BY <1>2 DEF Progress
    <2>2. state[u[1]] = state'[u[1]] /\ lane[u].at # "none"
      BY <1>3, <2>1
    <2>3. j \in 1..Length(u[1])
      BY LengthStays DEF Behind
    <2>4. state[u[1]] = "acked" => lane[u].at = "ended"
      BY <2>1, <2>2 DEF Whole, Standing
    <2>5. j \in Behind(u)
      BY <1>3, <2>1, <2>2, <2>3, <2>4 DEF Behind
    <2>6. QED
      BY <2>1, <2>2, <2>3, <2>5, PieceOf DEF Whole, Progress
  <1>6. QED
    BY <1>4, <1>5

\* No claim is new, and who publishes goes on, gives up a claim or leaves it behind.
LEMMA AnsweredStays ==
  ASSUME Typed, Answered, claims \subseteq Pieces,
         sent' \in [Pieces -> Nat], \A p \in Pieces : sent'[p] >= sent[p],
         stranded \subseteq stranded',
         \A p \in claims' \ claims : p \in stranded' \/ \E u \in Lanes : Publishing(u, p)',
         \A u \in Lanes : lane[u].at = "publishing" /\ Piece(u) \in claims' =>
            lane'[u] = lane[u] \/ sent'[Piece(u)] > 0 \/ Piece(u) \in stranded'
  PROVE  Answered'
  <1>1. SUFFICES ASSUME NEW p \in claims'
                 PROVE  sent'[p] > 0 \/ p \in stranded' \/ \E u \in Lanes : Publishing(u, p)'
    BY DEF Answered
  <1>2. CASE p \notin claims
    BY <1>2
  <1>3. CASE p \in claims /\ (sent[p] > 0 \/ p \in stranded)
    BY <1>3 DEF Typed
  <1>4. ASSUME p \in claims, NEW u \in Lanes, Publishing(u, p)
        PROVE  sent'[p] > 0 \/ p \in stranded' \/ Publishing(u, p)'
    BY <1>4 DEF Publishing, Piece
  <1>5. QED
    BY <1>2, <1>3, <1>4 DEF Answered

\* Claims and publications stay what they are.
LEMMA AnsweredQuiet ==
  ASSUME Typed, Answered, claims \subseteq Pieces, claims' = claims, sent' = sent,
         stranded \subseteq stranded',
         \A u \in Lanes : lane[u].at = "publishing" => lane'[u] = lane[u]
  PROVE  Answered'
  <1>1. sent' \in [Pieces -> Nat] /\ \A p \in Pieces : sent'[p] >= sent[p]
    BY DEF Typed
  <1>2. QED
    BY <1>1, AnsweredStays

LEMMA SentGrows ==
  ASSUME Typed, NEW ps, Landed(ps)
  PROVE  sent' \in [Pieces -> Nat] /\ \A p \in Pieces : sent'[p] >= sent[p]
  BY DEF Typed, Landed

LEMMA SentOne ==
  ASSUME Typed, NEW q \in Pieces, sent' = [sent EXCEPT ![q] = @ + 1]
  PROVE  /\ sent' \in [Pieces -> Nat] /\ sent'[q] > 0
         /\ \A p \in Pieces : sent'[p] >= sent[p]
  BY DEF Typed

LEMMA SentTwo ==
  ASSUME Typed, NEW q \in Pieces, sent' = [sent EXCEPT ![q] = @ + 2]
  PROVE  /\ sent' \in [Pieces -> Nat] /\ sent'[q] > 0
         /\ \A p \in Pieces : sent'[p] >= sent[p]
  BY DEF Typed

\* Pieces that have a claim.
Claimed == claims \subseteq Pieces

LEMMA ClaimedStays == ASSUME Typed, Claimed, [Next]_vars PROVE Claimed'
  <1>1. \A t \in Lanes : Piece(t) \in Pieces
    BY PieceType
  <1>2. CASE Change \/ Read \/ Crash \/ UNCHANGED vars
    BY <1>2 DEF Change, Read, Crash, vars, Claimed
  <1>3. ASSUME NEW m \in Messages, Handle(m) PROVE Claimed'
    BY <1>3 DEF Handle, Enter, Finish, Reclaim, Claimed
  <1>4. ASSUME NEW m \in Messages, TimesOut(m) PROVE Claimed'
    <2>1. \A p \in Pending(Of(m), "turn") : p \in Pieces
      BY <1>1 DEF Pending, Of
    <2>2. QED
      BY <1>4, <2>1 DEF TimesOut, Claimed
  <1>5. ASSUME NEW t \in Lanes, Work(t) PROVE Claimed'
    BY <1>1, <1>5 DEF Work, Queue, Translated, NotTranslated, Suppressed, Woken, WaitedLong, Claim, PassOver,
                      ClaimUnheard, ClaimFails, Publish, PublishTwice, NotPublished, GiveBack, Claimed
  <1>6. QED
    BY <1>2, <1>3, <1>4, <1>5 DEF Next

-----------------------------------------------------------------------------
(* The steps of a lane.                                                     *)

LEMMA AtStep ==
  ASSUME Typed, Whole, Claimed, NEW t \in Lanes,
         Queue(t) \/ Translated(t) \/ Woken(t) \/ WaitedLong(t) \/ Claim(t) \/ ClaimFails(t)
  PROVE  Whole'
  <1>1. PICK where \in {"turn", "held", "publishing"} : At(t, where)
    BY DEF Queue, Translated, Woken, WaitedLong, Claim, ClaimFails, Ready
  <1>2. /\ lane'[t].at = where /\ lane'[t].i = lane[t].i
        /\ \A u \in Lanes \ {t} : lane'[u] = lane[u]
    BY <1>1, AtType DEF Spots
  <1>3. scene' = scene /\ work' = work /\ sent' = sent /\ dropped' = dropped /\ stranded' = stranded
    BY DEF Queue, Translated, Woken, WaitedLong, Claim, ClaimFails, room, ghosts
  <1>4. lane[t].at \in {"queued", "working", "held", "turn"}
    BY DEF Queue, Translated, Woken, WaitedLong, Claim, ClaimFails
  <1>5. \A p \in Pieces : Done(p) => Done(p)'
    BY <1>3 DEF Done
  <1>6. Behind(t)' \subseteq Behind(t)
    BY <1>2, <1>3, LengthStays DEF Behind
  <1>7. Standing' /\ Progress'
    BY <1>2, <1>3, <1>4, <1>5, <1>6, LaneStep
  <1>8. sent' \in [Pieces -> Nat] /\ \A p \in Pieces : sent'[p] >= sent[p]
    BY <1>3 DEF Typed
  <1>9. PICK q : q = Piece(t)
    OBVIOUS
  <1>10. claims' = claims \/ (claims' = claims \cup {q} /\ Publishing(t, q)')
    <2>1. CASE Queue(t) \/ Translated(t) \/ Woken(t) \/ WaitedLong(t)
      BY <2>1 DEF Queue, Translated, Woken, WaitedLong
    <2>2. CASE Claim(t) \/ ClaimFails(t)
      <3>1. At(t, "publishing")
        BY <2>2 DEF Claim, ClaimFails
      <3>2. lane'[t].at = "publishing"
        BY <3>1, AtType DEF Spots
      <3>3. Publishing(t, q)'
        BY <1>2, <1>9, <3>2 DEF Publishing, Piece
      <3>4. QED
        BY <2>2, <3>3, <1>9 DEF Claim, ClaimFails
    <2>3. QED
      BY <2>1, <2>2
  <1>11. \A u \in Lanes : lane[u].at = "publishing" => lane'[u] = lane[u]
    BY <1>2, <1>4
  <1>12. Answered'
    <2>1. \A p \in claims' \ claims : \E u \in Lanes : Publishing(u, p)'
      BY <1>10
    <2>2. Typed /\ Answered /\ claims \subseteq Pieces /\ stranded \subseteq stranded'
      BY <1>3 DEF Whole, Claimed
    <2>3. QED
      BY <1>8, <1>11, <2>1, <2>2, AnsweredStays
  <1>13. QED
    BY <1>7, <1>12 DEF Whole

LEMMA OnwardBehind ==
  ASSUME Typed, scene' = scene, NEW t \in Lanes, Onward(t), lane[t].at # "ended",
         NEW j \in Behind(t)', j \notin Behind(t)
  PROVE  <<t[1], t[3], j>> = Piece(t)
  <1>1. t[1] \in Messages /\ lane[t].i \in Nat
    BY Bounds DEF Lanes, Typed, Sentences
  <1>2. Length(t[1]) \in Nat /\ j \in 1..Length(t[1])
    BY <1>1, LengthType, LengthStays DEF Behind
  <1>3. ~(j < lane[t].i)
    BY <1>2 DEF Behind
  <1>4. CASE lane[t].i < Length(t[1])
    <2>1. lane' = [lane EXCEPT ![t] = [at |-> "working", i |-> lane[t].i + 1]]
      BY <1>4 DEF Onward
    <2>2. lane'[t].at = "working" /\ lane'[t].i = lane[t].i + 1
      BY <2>1 DEF Typed
    <2>3. j < lane[t].i + 1
      BY <2>2 DEF Behind
    <2>4. j = lane[t].i
      BY <1>1, <1>2, <1>3, <2>3
    <2>5. QED
      BY <2>4 DEF Piece
  <1>5. CASE ~(lane[t].i < Length(t[1]))
    <2>1. j = lane[t].i
      BY <1>1, <1>2, <1>3, <1>5
    <2>2. QED
      BY <2>1 DEF Piece
  <1>6. QED
    BY <1>4, <1>5

\* A sentence is out, judged out of scope, or found claimed.
LEMMA OnwardStep ==
  ASSUME Typed, Whole, Claimed, NEW t \in Lanes,
         Suppressed(t) \/ PassOver(t) \/ ClaimUnheard(t) \/ Publish(t) \/ PublishTwice(t)
  PROVE  Whole'
  <1>1. Piece(t) \in Pieces
    BY PieceType
  <1>2. Onward(t) /\ scene' = scene /\ work' = work /\ claims \subseteq claims' /\ claims' \subseteq Pieces
        /\ dropped \subseteq dropped' /\ stranded \subseteq stranded'
        /\ \A p \in claims' \ claims : p \in stranded'
    BY <1>1 DEF Suppressed, PassOver, ClaimUnheard, Publish, PublishTwice, room, ghosts, Claimed
  <1>3. /\ lane'[t].at \in {"working", "ended"}
        /\ \A u \in Lanes \ {t} : lane'[u] = lane[u]
    BY <1>2, OnwardType
  <1>4. lane[t].at \in {"working", "turn", "publishing"}
    BY DEF Suppressed, PassOver, ClaimUnheard, Publish, PublishTwice
  <1>5. /\ sent' \in [Pieces -> Nat] /\ \A p \in Pieces : sent'[p] >= sent[p]
        /\ Publish(t) \/ PublishTwice(t) => sent'[Piece(t)] > 0
    <2>1. CASE Publish(t)
      BY <1>1, <2>1, SentOne DEF Publish
    <2>2. CASE PublishTwice(t)
      BY <1>1, <2>2, SentTwo DEF PublishTwice
    <2>3. CASE ~Publish(t) /\ ~PublishTwice(t)
      BY <2>3 DEF Suppressed, PassOver, ClaimUnheard, Typed
    <2>4. QED
      BY <2>1, <2>2, <2>3
  <1>6. \A p \in Pieces : Done(p) => Done(p)'
    BY <1>2, <1>5, DoneStays
  <1>7. ASSUME Current(t), state[t[1]] = "running"
        PROVE  sent'[Piece(t)] > 0 \/ Piece(t) \in dropped' \cup stranded'
    <2>1. CASE Suppressed(t)
      BY <2>1 DEF Suppressed
    <2>2. CASE Publish(t) \/ PublishTwice(t)
      BY <1>5, <2>2
    <2>3. CASE PassOver(t)
      <3>1. Piece(t) \in claims /\ sent' = sent /\ lane[t].at = "turn"
        BY <2>3 DEF PassOver
      <3>2. CASE sent[Piece(t)] > 0 \/ Piece(t) \in stranded
        BY <1>2, <3>1, <3>2
      <3>3. CASE \E u \in Lanes : Publishing(u, Piece(t))
        <4>1. PICK u \in Lanes : Publishing(u, Piece(t))
          BY <3>3
        <4>2. u # t /\ u[1] = t[1] /\ u[3] = t[3]
          BY <3>1, <4>1 DEF Publishing, Piece
        <4>3. u[2] # t[2]
          BY <4>2 DEF Lanes
        <4>4. Stray(u)
          BY <1>7, <4>2, <4>3 DEF Stray, Current
        <4>5. QED
          BY <2>3, <4>1, <4>2, <4>4 DEF PassOver, Publishing
      <3>4. QED
        BY <3>1, <3>2, <3>3 DEF Whole, Answered
    <2>4. CASE ClaimUnheard(t)
      BY <2>4 DEF ClaimUnheard
    <2>5. QED
      BY <2>1, <2>2, <2>3, <2>4
  <1>8. Standing' /\ Progress'
    <2>1. ASSUME Current(t), state[t[1]] = "running", NEW j \in Behind(t)' \ Behind(t)
          PROVE  Done(<<t[1], t[3], j>>)'
      <3>1. <<t[1], t[3], j>> = Piece(t)
        BY <1>2, <1>4, <2>1, OnwardBehind
      <3>2. sent'[Piece(t)] > 0 \/ Piece(t) \in dropped' \cup stranded'
        BY <1>7, <2>1
      <3>3. QED
        BY <3>1, <3>2 DEF Done
    <2>2. QED
      BY <1>2, <1>3, <1>4, <1>6, <2>1, LaneStep
  <1>9. Answered'
    <2>1. ASSUME NEW u \in Lanes, lane[u].at = "publishing"
          PROVE  lane'[u] = lane[u] \/ sent'[Piece(u)] > 0
      <3>1. CASE u = t
        BY <1>5, <2>1, <3>1 DEF Suppressed, PassOver, ClaimUnheard
      <3>2. CASE u # t
        BY <1>3, <3>2
      <3>3. QED
        BY <3>1, <3>2
    <2>2. QED
      BY <1>2, <1>5, <2>1, AnsweredStays DEF Whole, Claimed
  <1>10. QED
    BY <1>8, <1>9 DEF Whole

-----------------------------------------------------------------------------
(* Deliveries that end in the middle.                                       *)

FailStates == {"failed", "dead"}

\* What a lane that raises makes of the lanes and messages.
LEMMA RaiseEnds ==
  ASSUME Typed, Whole, NEW t \in Lanes, Raise(t), lane[t].at \notin {"none", "ended"},
         \A p \in Pieces : Done(p) => Done(p)'
  PROVE  /\ Standing' /\ Progress'
         /\ \A u \in Lanes : lane[u].at = "publishing" => u = t \/ lane'[u] = lane[u]
  <1>1. scene' = scene /\ unread' = unread /\ tries' = tries
    BY DEF Raise, room
  <1>2. \A u \in Lanes : \/ lane'[u] = lane[u]
                         \/ /\ u = t \/ (u \in Same(t) /\ lane[u].at = "queued")
                            /\ lane'[u].at = "ended"
    BY RaiseType DEF Raise, Typed
  <1>3. t[1] \in Messages
    BY DEF Lanes
  <1>4. Failed(t[1]) \in FailStates
    BY DEF Failed, FailStates
  <1>5. IF Stray(t) THEN state' = state ELSE state' = [state EXCEPT ![t[1]] = Failed(t[1])]
    BY DEF Raise
  <1>6. state \in [Messages -> {"unread", "started", "running", "failed", "acked", "dead"}]
    BY DEF Whole, Standing
  <1>7. /\ state' \in [Messages -> {"unread", "started", "running", "failed", "acked", "dead"}]
        /\ \A m \in Messages : state'[m] = state[m] \/ (Handled(m) /\ state'[m] \in FailStates)
    BY <1>3, <1>4, <1>5, <1>6 DEF Stray, FailStates
  <1>8. ASSUME NEW u \in Lanes, lane'[u] # lane[u]
        PROVE  /\ lane[u].at # "none" /\ lane'[u].at = "ended"
               /\ Current(u) => state'[u[1]] \in FailStates \/ state[u[1]] \notin {"started", "running"}
    <2>1. lane[u].at # "none" /\ lane'[u].at = "ended" /\ u[1] = t[1] /\ u[2] = t[2]
      BY <1>2, <1>8 DEF Same
    <2>2. CASE Stray(t)
      <3>1. Current(u) => Current(t)
        BY <2>1 DEF Current
      <3>2. Current(t) => state[t[1]] \notin {"started", "running"}
        BY <2>2 DEF Stray, Handled, Current
      <3>3. QED
        BY <2>1, <3>1, <3>2
    <2>3. CASE ~Stray(t)
      BY <1>3, <1>4, <1>5, <1>6, <2>1, <2>3
    <2>4. QED
      BY <2>1, <2>2, <2>3
  <1>9. Standing' /\ Progress'
    BY <1>1, <1>7, <1>8, EndStep DEF FailStates
  <1>10. QED
    BY <1>2, <1>9

LEMMA RaiseStep ==
  ASSUME Typed, Whole, Claimed, NEW t \in Lanes, NotTranslated(t) \/ NotPublished(t)
  PROVE  Whole'
  <1>1. CASE NotTranslated(t)
    <2>1. Raise(t) /\ lane[t].at = "working" /\ claims' = claims /\ sent' = sent
          /\ dropped' = dropped /\ stranded' = stranded
      BY <1>1 DEF NotTranslated, ghosts
    <2>2. \A p \in Pieces : Done(p) => Done(p)'
      BY <2>1 DEF Done
    <2>3. Standing' /\ Progress' /\ \A u \in Lanes : lane[u].at = "publishing" => lane'[u] = lane[u]
      BY <2>1, <2>2, RaiseEnds
    <2>4. Answered'
      BY <2>1, <2>3, AnsweredQuiet DEF Whole, Claimed
    <2>5. QED
      BY <2>3, <2>4 DEF Whole
  <1>2. CASE NotPublished(t)
    <2>1. PICK landed \in BOOLEAN, kept \in SUBSET {Piece(t)} :
            /\ lane[t].at = "publishing" /\ Raise(t) /\ claims' = claims \ ({Piece(t)} \ kept)
            /\ Landed(IF landed THEN {Piece(t)} ELSE {}) /\ stranded' = stranded \cup kept
            /\ dropped' = dropped
      BY <1>2 DEF NotPublished, GiveBack
    <2>2. sent' \in [Pieces -> Nat] /\ \A p \in Pieces : sent'[p] >= sent[p]
      BY <2>1, SentGrows
    <2>3. \A p \in Pieces : Done(p) => Done(p)'
      BY <2>1, <2>2, DoneStays
    <2>4. Standing' /\ Progress' /\ \A u \in Lanes : lane[u].at = "publishing" => u = t \/ lane'[u] = lane[u]
      BY <2>1, <2>3, RaiseEnds
    <2>5. \A u \in Lanes : lane[u].at = "publishing" /\ Piece(u) \in claims' =>
             lane'[u] = lane[u] \/ Piece(u) \in stranded'
      BY <2>1, <2>4
    <2>6. claims' \subseteq claims /\ stranded \subseteq stranded'
      BY <2>1
    <2>7. Answered'
      BY <2>2, <2>5, <2>6, AnsweredStays DEF Whole, Claimed
    <2>8. QED
      BY <2>4, <2>7 DEF Whole
  <1>3. QED
    BY <1>1, <1>2

LEMMA TimesOutStep ==
  ASSUME Typed, Whole, Claimed, NEW m \in Messages, TimesOut(m)
  PROVE  Whole'
  <1>1. PICK claimed \in SUBSET (Pending(Of(m), "turn") \ claims),
             written \in SUBSET Pending(Of(m), "publishing"),
             kept \in SUBSET Pending(Of(m), "publishing") :
          /\ Handled(m) /\ Ended(Of(m)) /\ Landed(written)
          /\ claims' = (claims \cup claimed) \ (Pending(Of(m), "publishing") \ kept)
          /\ stranded' = stranded \cup claimed \cup kept
          /\ state' = [state EXCEPT ![m] = Failed(m)]
          /\ UNCHANGED <<room, unread, tries, ticket, waived, dropped>>
    BY DEF TimesOut
  <1>2. /\ \A u \in Of(m) : lane'[u].at \in {"none", "ended"}
        /\ \A u \in Lanes \ Of(m) : lane'[u] = lane[u]
    BY <1>1, EndedType DEF Of
  <1>3. \A u \in Of(m) : lane[u].at = "none" => lane'[u] = lane[u]
    BY <1>1 DEF Ended, Of
  <1>4. \A u \in Of(m) : lane'[u].at = "none" => lane'[u] = lane[u]
    BY <1>1 DEF Ended, Of, Typed, Spots
  <1>5. sent' \in [Pieces -> Nat] /\ \A p \in Pieces : sent'[p] >= sent[p]
    BY <1>1, SentGrows
  <1>6. \A p \in Pieces : Done(p) => Done(p)'
    BY <1>1, <1>5, DoneStays
  <1>7. Failed(m) \in FailStates
    BY DEF Failed, FailStates
  <1>8. /\ state' \in [Messages -> {"unread", "started", "running", "failed", "acked", "dead"}]
        /\ \A n \in Messages : state'[n] = state[n] \/ (Handled(n) /\ state'[n] \in FailStates)
        /\ state'[m] \in FailStates
    BY <1>1, <1>7 DEF Whole, Standing, FailStates
  <1>9. ASSUME NEW u \in Lanes, lane'[u] # lane[u]
        PROVE  lane[u].at # "none" /\ lane'[u].at = "ended" /\ state'[u[1]] \in FailStates
    <2>1. u \in Of(m) /\ u[1] = m
      BY <1>2, <1>9 DEF Of
    <2>2. QED
      BY <1>2, <1>3, <1>4, <1>8, <1>9, <2>1
  <1>10. scene' = scene /\ unread' = unread /\ tries' = tries
    BY <1>1 DEF room
  <1>11. Standing' /\ Progress'
    BY <1>6, <1>8, <1>9, <1>10, EndStep DEF FailStates
  <1>12. ASSUME NEW u \in Lanes, lane[u].at = "publishing", Piece(u) \in claims'
         PROVE  lane'[u] = lane[u] \/ Piece(u) \in stranded'
    <2>1. CASE u \in Of(m)
      <3>1. Piece(u) \in Pending(Of(m), "publishing")
        BY <1>12, <2>1 DEF Pending
      <3>2. QED
        BY <1>1, <1>12, <3>1
    <2>2. CASE u \notin Of(m)
      BY <1>2, <2>2
    <2>3. QED
      BY <2>1, <2>2
  <1>13. stranded \subseteq stranded' /\ \A p \in claims' \ claims : p \in stranded'
    BY <1>1
  <1>14. Answered'
    BY <1>5, <1>12, <1>13, AnsweredStays DEF Whole, Claimed
  <1>15. QED
    BY <1>11, <1>14 DEF Whole

LEMMA CrashStep == ASSUME Typed, Whole, Claimed, Crash PROVE Whole'
  <1>1. /\ Ended(Lanes) /\ stranded' = stranded \cup Pending(Lanes, "publishing")
        /\ state' = [m \in Messages |-> IF Handled(m) THEN "failed" ELSE state[m]]
        /\ unread' = unread /\ tries' = tries /\ scene' = scene
        /\ claims' = claims /\ sent' = sent /\ dropped' = dropped
    BY DEF Crash, room
  <1>2. \A u \in Lanes : lane'[u].at \in {"none", "ended"}
    BY <1>1, EndedType
  <1>3. \A u \in Lanes : lane[u].at = "none" \/ lane'[u].at = "none" => lane'[u] = lane[u]
    BY <1>1 DEF Ended, Typed, Spots
  <1>4. \A p \in Pieces : Done(p) => Done(p)'
    BY <1>1 DEF Done
  <1>5. /\ state' \in [Messages -> {"unread", "started", "running", "failed", "acked", "dead"}]
        /\ \A m \in Messages : state'[m] = IF Handled(m) THEN "failed" ELSE state[m]
    BY <1>1 DEF Whole, Standing
  <1>6. ASSUME NEW u \in Lanes, lane'[u] # lane[u]
        PROVE  /\ lane[u].at # "none" /\ lane'[u].at = "ended"
               /\ state'[u[1]] \in {"failed", "dead"} \/ state[u[1]] \notin {"started", "running"}
    BY <1>2, <1>3, <1>5, <1>6 DEF Handled, Lanes
  <1>7. Standing' /\ Progress'
    BY <1>1, <1>4, <1>5, <1>6, EndStep
  <1>8. \A u \in Lanes : lane[u].at = "publishing" => Piece(u) \in stranded'
    BY <1>1 DEF Pending
  <1>9. sent' \in [Pieces -> Nat] /\ \A p \in Pieces : sent'[p] >= sent[p]
    BY <1>1 DEF Typed
  <1>10. Answered'
    BY <1>1, <1>8, <1>9, AnsweredStays DEF Whole, Claimed
  <1>11. QED
    BY <1>7, <1>10 DEF Whole

-----------------------------------------------------------------------------
(* Messages that change hands.                                              *)

LEMMA ReadIs ==
  ASSUME Typed, Read
  PROVE  /\ unread \in Messages /\ unread' = unread + 1 /\ scene' = scene
         /\ state' = [state EXCEPT ![unread] = "started"] /\ tries' = [tries EXCEPT ![unread] = 1]
         /\ UNCHANGED <<lane, claims, sent, ghosts>>
  BY Shapes DEF Read, Typed, Messages, room

LEMMA HandsStep ==
  ASSUME Typed, Whole, Claimed,
         \/ Read \/ Change \/ UNCHANGED vars
         \/ \E m \in Messages : Enter(m) \/ Finish(m) \/ Reclaim(m)
  PROVE  Whole'
  <1>1. claims' = claims /\ sent' = sent /\ dropped' = dropped /\ stranded' = stranded /\ scene' = scene
    BY DEF Read, Change, vars, Enter, Finish, Reclaim, ghosts, room
  <1>2. \A u \in Lanes : u[1] \in Messages /\ u[2] \in Nat
    BY Bounds DEF Lanes, Tries
  <1>3. \A p : Done(p)' <=> Done(p)
    BY <1>1 DEF Done
  <1>4. ASSUME \A u \in Lanes : lane[u].at = "publishing" => lane'[u] = lane[u]
        PROVE  Answered'
    BY <1>1, <1>4, AnsweredQuiet DEF Whole, Claimed
  \* The state of messages changes, and no lane.
  <1>5. ASSUME lane' = lane, \A u \in Lanes : Current(u)' /\ state'[u[1]] \in {"running", "acked"} =>
                                Current(u) /\ state[u[1]] \in {"running", "acked"}
        PROVE  Progress' /\ Answered'
    <2>1. Answered'
      BY <1>4, <1>5
    <2>2. \A u \in Lanes : Behind(u)' = Behind(u)
      BY <1>1, <1>5, LengthStays DEF Behind
    <2>3. QED
      BY <1>3, <1>5, <2>1, <2>2 DEF Whole, Progress
  <1>6. CASE Change \/ UNCHANGED vars
    <2>1. lane' = lane /\ work' = work
      BY <1>6 DEF Change, vars
    <2>2. Standing'
      BY <2>1 DEF Whole, Standing, Current, work
    <2>3. QED
      BY <1>5, <2>1, <2>2 DEF Whole, Current, work
  <1>7. CASE Read
    <2>1. /\ unread \in Messages /\ unread' = unread + 1 /\ lane' = lane
          /\ state' = [state EXCEPT ![unread] = "started"] /\ tries' = [tries EXCEPT ![unread] = 1]
      BY <1>7, ReadIs
    <2>2. unread \in Nat /\ tries[unread] = 0 /\ \A m \in Messages : m \in Nat
      BY <2>1 DEF Whole, Standing, Messages
    <2>3. \A u \in Lanes : u[1] = unread => (u[2] >= 1 => lane[u].at = "none")
      BY <1>2, <2>1, <2>2 DEF Whole, Standing
    <2>4. Standing'
      <3>1. unread' \in Nat /\ tries' \in [Messages -> Nat]
            /\ state' \in [Messages -> {"unread", "started", "running", "failed", "acked", "dead"}]
        BY <2>1, <2>2 DEF Whole, Standing
      <3>2. \A m \in Messages : m >= unread' => tries'[m] = 0 /\ state'[m] \in {"unread", "acked"}
        BY <2>1, <2>2 DEF Whole, Standing
      <3>3. \A m \in Messages : m < unread' => tries'[m] >= 1
        BY <2>1, <2>2 DEF Whole, Standing
      <3>4. \A u \in Lanes : u[2] > tries'[u[1]] => lane[u].at = "none"
        BY <1>2, <2>1, <2>3 DEF Whole, Standing
      <3>5. \A u \in Lanes : u[2] = tries'[u[1]] /\ state'[u[1]] = "started" => lane[u].at = "none"
        BY <1>2, <2>1, <2>3 DEF Whole, Standing, Current
      <3>6. \A u \in Lanes : u[2] = tries'[u[1]] /\ state'[u[1]] = "acked" => lane[u].at \in {"none", "ended"}
        BY <1>2, <2>1, <2>3 DEF Whole, Standing, Current
      <3>7. QED
        BY <2>1, <3>1, <3>2, <3>3, <3>4, <3>5, <3>6 DEF Standing, Current
    <2>5. \A u \in Lanes : Current(u)' /\ state'[u[1]] \in {"running", "acked"} =>
                           Current(u) /\ state[u[1]] \in {"running", "acked"}
      BY <1>2, <2>1 DEF Whole, Standing, Current
    <2>6. QED
      BY <1>5, <2>1, <2>4, <2>5 DEF Whole
  <1>8. ASSUME NEW m \in Messages, Finish(m) PROVE Whole'
    <2>1. /\ state[m] = "running" /\ (\A t \in Of(m) : lane[t].at \in {"none", "ended"})
          /\ state' = [state EXCEPT ![m] = "acked"] /\ unread' = unread /\ tries' = tries /\ lane' = lane
      BY <1>8 DEF Finish
    <2>2. \A u \in Lanes : u[1] = m /\ Current(u) => lane[u].at \in {"none", "ended"}
      BY <2>1 DEF Of, Current
    <2>3. Standing'
      <3>1. \A u \in Lanes : Current(u)' <=> Current(u)
        BY <2>1 DEF Current
      <3>2. state' \in [Messages -> {"unread", "started", "running", "failed", "acked", "dead"}]
        BY <2>1 DEF Whole, Standing
      <3>3. \A n \in Messages : n >= unread => tries[n] = 0 /\ state'[n] \in {"unread", "acked"}
        BY <2>1 DEF Whole, Standing
      <3>4. \A u \in Lanes : Current(u) /\ state'[u[1]] = "started" => lane[u].at = "none"
        BY <1>2, <2>1 DEF Whole, Standing
      <3>5. \A u \in Lanes : Current(u) /\ state'[u[1]] = "acked" => lane[u].at \in {"none", "ended"}
        BY <1>2, <2>1, <2>2 DEF Whole, Standing
      <3>6. QED
        BY <2>1, <3>1, <3>2, <3>3, <3>4, <3>5 DEF Whole, Standing
    <2>4. \A u \in Lanes : Current(u)' /\ state'[u[1]] \in {"running", "acked"} =>
                           Current(u) /\ state[u[1]] \in {"running", "acked"}
      BY <1>2, <2>1 DEF Whole, Standing, Current
    <2>5. QED
      BY <1>5, <2>1, <2>3, <2>4 DEF Whole
  <1>9. ASSUME NEW m \in Messages, Reclaim(m) PROVE Whole'
    <2>1. /\ state[m] = "failed" /\ state' = [state EXCEPT ![m] = "started"]
          /\ tries' = [tries EXCEPT ![m] = @ + 1] /\ unread' = unread /\ lane' = lane
      BY <1>9 DEF Reclaim
    <2>2. tries[m] \in Nat /\ tries'[m] = tries[m] + 1 /\ state'[m] = "started"
          /\ \A n \in Messages \ {m} : tries'[n] = tries[n] /\ state'[n] = state[n]
      BY <2>1 DEF Whole, Standing
    <2>3. \A u \in Lanes : u[1] = m /\ u[2] >= tries[m] + 1 => lane[u].at = "none"
      BY <1>2, <2>2 DEF Whole, Standing
    <2>4. Standing'
      <3>1. unread' \in Nat /\ tries' \in [Messages -> Nat]
            /\ state' \in [Messages -> {"unread", "started", "running", "failed", "acked", "dead"}]
        BY <2>1, <2>2 DEF Whole, Standing
      <3>2. \A n \in Messages : n >= unread => tries'[n] = 0 /\ state'[n] \in {"unread", "acked"}
        BY <2>1, <2>2 DEF Whole, Standing
      <3>3. \A n \in Messages : n < unread => tries'[n] >= 1
        BY <2>2 DEF Whole, Standing
      <3>4. \A u \in Lanes : u[2] > tries'[u[1]] => lane[u].at = "none"
        BY <1>2, <2>2, <2>3 DEF Whole, Standing
      <3>5. \A u \in Lanes : u[2] = tries'[u[1]] /\ state'[u[1]] = "started" => lane[u].at = "none"
        BY <1>2, <2>2, <2>3 DEF Whole, Standing, Current
      <3>6. \A u \in Lanes : u[2] = tries'[u[1]] /\ state'[u[1]] = "acked" => lane[u].at \in {"none", "ended"}
        BY <1>2, <2>2 DEF Whole, Standing, Current
      <3>7. QED
        BY <2>1, <3>1, <3>2, <3>3, <3>4, <3>5, <3>6 DEF Standing, Current
    <2>5. \A u \in Lanes : Current(u)' /\ state'[u[1]] \in {"running", "acked"} =>
                           Current(u) /\ state[u[1]] \in {"running", "acked"}
      BY <1>2, <2>2 DEF Current
    <2>6. QED
      BY <1>5, <2>1, <2>4, <2>5 DEF Whole
  <1>10. ASSUME NEW m \in Messages, Enter(m) PROVE Whole'
    <2>1. /\ state[m] = "started" /\ state' = [state EXCEPT ![m] = "running"]
          /\ tries' = tries /\ unread' = unread
      BY <1>10 DEF Enter
    <2>2. \A u \in Lanes : u[1] = m /\ Current(u) => lane[u].at = "none"
      BY <2>1 DEF Whole, Standing
    <2>3. \A u \in Lanes : \/ lane'[u] = lane[u]
                           \/ (u[1] = m /\ Current(u) /\ lane'[u].at \in {"queued", "working"} /\ lane'[u].i = 1)
      <3>1. CASE lane' = lane
        BY <3>1
      <3>2. CASE lane' = [t \in Lanes |-> IF t \in Of(m) /\ t[3] \in wanted
                            THEN [at |-> IF Marker(m) THEN "queued" ELSE "working", i |-> 1] ELSE lane[t]]
        <4>1. \A u \in Lanes : u \in Of(m) => u[1] = m /\ Current(u)
          BY DEF Of, Current
        <4>2. QED
          BY <3>2, <4>1
      <3>3. QED
        BY <1>10, <3>1, <3>2 DEF Enter
    <2>4. state'[m] = "running" /\ \A n \in Messages \ {m} : state'[n] = state[n]
      BY <2>1 DEF Whole, Standing
    <2>5. \A u \in Lanes : lane'[u] = lane[u] \/ (u[1] = m /\ lane[u].at = "none")
      BY <2>2, <2>3
    <2>6. Standing'
      <3>1. \A u \in Lanes : Current(u)' <=> Current(u)
        BY <2>1 DEF Current
      <3>2. state' \in [Messages -> {"unread", "started", "running", "failed", "acked", "dead"}]
        BY <2>1 DEF Whole, Standing
      <3>3. \A n \in Messages : n >= unread => tries[n] = 0 /\ state'[n] \in {"unread", "acked"}
        BY <2>1, <2>4 DEF Whole, Standing
      <3>4. \A u \in Lanes : u[2] > tries[u[1]] => lane'[u].at = "none"
        <4>1. \A u \in Lanes : Current(u) => ~(u[2] > tries[u[1]])
          BY <1>2 DEF Current
        <4>2. QED
          BY <2>3, <4>1 DEF Whole, Standing
      <3>5. \A u \in Lanes : Current(u) /\ state'[u[1]] = "started" => lane'[u].at = "none"
        BY <1>2, <2>4, <2>5 DEF Whole, Standing
      <3>6. \A u \in Lanes : Current(u) /\ state'[u[1]] = "acked" => lane'[u].at \in {"none", "ended"}
        BY <1>2, <2>4, <2>5 DEF Whole, Standing
      <3>7. QED
        BY <2>1, <3>1, <3>2, <3>3, <3>4, <3>5, <3>6 DEF Whole, Standing
    <2>7. Progress'
      <3>1. SUFFICES ASSUME NEW u \in Lanes, Current(u)', state'[u[1]] \in {"running", "acked"},
                            lane'[u].at # "none", NEW j \in Behind(u)'
                     PROVE  Done(<<u[1], u[3], j>>)'
        BY DEF Progress
      <3>2. Current(u)
        BY <2>1, <3>1 DEF Current
      <3>3. CASE lane'[u] = lane[u]
        <4>1. u[1] # m
          BY <2>2, <3>1, <3>2, <3>3
        <4>2. state[u[1]] \in {"running", "acked"}
          BY <1>2, <2>4, <3>1, <4>1
        <4>3. j \in Behind(u)
          BY <1>1, <3>3, LengthStays DEF Behind
        <4>4. QED
          BY <1>3, <3>1, <3>2, <3>3, <4>2, <4>3 DEF Whole, Progress
      <3>4. CASE lane'[u].at \in {"queued", "working"} /\ lane'[u].i = 1
        <4>1. j \in Nat /\ j >= 1 /\ j < 1
          BY <1>1, <1>2, <3>4, LengthType, LengthStays DEF Behind
        <4>2. QED
          BY <4>1
      <3>5. QED
        BY <2>3, <3>3, <3>4
    <2>8. Answered'
      BY <1>4, <2>2, <2>3
    <2>9. QED
      BY <2>6, <2>7, <2>8 DEF Whole
  <1>11. QED
    BY <1>6, <1>7, <1>8, <1>9, <1>10

LEMMA WholeNext == ASSUME Typed, Whole, Claimed, [Next]_vars PROVE Whole'
  <1>1. ASSUME NEW t \in Lanes, Work(t) PROVE Whole'
    BY <1>1, AtStep, OnwardStep, RaiseStep DEF Work
  <1>2. ASSUME NEW m \in Messages, Handle(m) \/ TimesOut(m) PROVE Whole'
    BY <1>2, HandsStep, TimesOutStep DEF Handle
  <1>3. CASE Change \/ Read \/ Crash \/ UNCHANGED vars
    BY <1>3, HandsStep, CrashStep
  <1>4. QED
    BY <1>1, <1>2, <1>3 DEF Next

LEMMA WholeInit == Init => Whole /\ Claimed
  <1>1. SUFFICES ASSUME Init PROVE Whole /\ Claimed
    OBVIOUS
  <1>2. /\ unread = 1 /\ tries = [m \in Messages |-> 0] /\ lane = [t \in Lanes |-> NoLane] /\ claims = {}
        /\ state = [m \in Messages |-> IF m \in DOMAIN scene.len THEN "unread" ELSE "acked"]
    BY <1>1, Zenon DEF Init
  <1>3. \A t \in Lanes : lane[t].at = "none"
    BY <1>2 DEF NoLane
  <1>4. \A m \in Messages : m \in Nat /\ m >= 1
    BY DEF Messages
  <1>5. Standing
    BY <1>2, <1>3, <1>4 DEF Standing
  <1>6. QED
    BY <1>2, <1>3, <1>5 DEF Whole, Answered, Progress, Claimed

LEMMA WholeAlways == Spec => [](Typed /\ Whole /\ Claimed)
  <1>1. Init => Inv /\ Whole /\ Claimed
    BY InitInv, WholeInit
  <1>2. Inv /\ Whole /\ Claimed /\ [Next]_vars => (Inv /\ Whole /\ Claimed)'
    BY NextInv, WholeNext, ClaimedStays DEF Inv
  <1>3. Inv /\ Whole /\ Claimed => Typed /\ Whole /\ Claimed
    BY DEF Inv
  <1>4. QED
    BY <1>1, <1>2, <1>3, PTL DEF Spec

\* Whatever was cancelled, crashed or taken over meanwhile, an acknowledged message
\* has every piece out, but for those judged out of scope and those stranded, whose
\* claim nobody who would publish them has (TranslationWorker.process, _publish_once).
THEOREM CompleteWhenAcknowledged == Spec => []CompleteUnlessStranded
  <1>1. ASSUME Whole, NEW m \in Messages, state[m] = "acked", NEW t \in Of(m), lane[t].at = "ended",
               NEW j \in 1..Length(m)
        PROVE  sent[<<m, t[3], j>>] > 0 \/ <<m, t[3], j>> \in dropped \cup stranded
    <2>1. t \in Lanes /\ t[1] = m /\ Current(t)
      BY DEF Of, Current
    <2>2. j \in Behind(t)
      BY <1>1, <2>1 DEF Behind
    <2>3. QED
      BY <1>1, <2>1, <2>2 DEF Whole, Progress, Done
  <1>2. Whole => CompleteUnlessStranded
    BY <1>1 DEF CompleteUnlessStranded, Out
  <1>3. QED
    BY <1>2, WholeAlways, PTL

-----------------------------------------------------------------------------
(* The order of a speaker's messages.  A message whose ticket is good comes  *)
(* after one whose first handler is over; if that one went out in its turn,  *)
(* its own ticket was good, and so on back to one that had nothing to say.   *)

Clear(m) == ticket[m] \in over \cup {0}
FirstInHand(m) == Handled(m) /\ tries[m] = 1

\* A message's ticket is the one before it, unless that one was over.
Ticketed ==
    /\ unread >= 1 /\ ticket \in [Messages -> Nat] /\ tail \in Messages \cup {0}
    /\ tail = 0 \/ tail = unread - 1
    /\ unread > 1 => tail = unread - 1 \/ unread - 1 \in over
    /\ \A m \in Messages : m < unread =>
          /\ ticket[m] = 0 \/ ticket[m] = m - 1
          /\ ticket[m] = 0 => m = 1 \/ m - 1 \in over
          /\ m \in over <=> ~FirstInHand(m)
    /\ \A m \in Messages : m \in over => m < unread

\* What is publishing, or went out, in its turn found its ticket good.
InItsTurn ==
    /\ \A t \in Lanes : t[2] = 1 /\ lane[t].at \in {"turn", "publishing"} => t[1] \in waived \/ Clear(t[1])
    /\ \A m \in Messages : HadItsTurn(m) => Clear(m)
    /\ \A p \in Pieces : sent[p] > 0 => p[1] < unread

\* Between a message still handled for the first time and a later one whose ticket
\* is good there is one that had nothing to say in its turn.
Ordered == \A k, m \in Messages : k < m /\ m < unread /\ FirstInHand(k) /\ Clear(m) =>
    \E j \in (k + 1)..(m - 1) : ~HadItsTurn(j)

Order == Ticketed /\ InItsTurn /\ Ordered

\* What is out in its turn is so for good, or was published by a lane that found its
\* ticket good.
LEMMA HadOrHas ==
  ASSUME Typed, Standing, InItsTurn, tries' = tries, waived \subseteq waived',
         sent' \in [Pieces -> Nat], NEW n,
         \A p \in Pieces : sent'[p] > 0 => sent[p] > 0 \/ (p[1] = n /\ \E u \in Lanes : Publishing(u, p)),
         NEW m \in Messages, HadItsTurn(m)'
  PROVE  Clear(m) /\ (HadItsTurn(m) \/ m = n)
  <1>1. PICK p \in Pieces : p[1] = m /\ sent'[p] > 0
    BY DEF HadItsTurn
  <1>2. m \notin waived /\ tries[m] = 1
    BY DEF HadItsTurn
  <1>3. CASE sent[p] > 0
    <2>1. HadItsTurn(m)
      BY <1>1, <1>2, <1>3 DEF HadItsTurn
    <2>2. QED
      BY <2>1 DEF InItsTurn
  <1>4. CASE p[1] = n /\ \E u \in Lanes : Publishing(u, p)
    <2>1. PICK u \in Lanes : Publishing(u, p)
      BY <1>4
    <2>2. u[1] = m /\ lane[u].at = "publishing"
      BY <1>1, <2>1 DEF Publishing, Piece
    <2>3. ~(u[2] > tries[u[1]])
      BY <2>2 DEF Standing
    <2>4. u[2] \in Nat /\ u[2] >= 1
      BY Bounds DEF Lanes, Tries
    <2>5. u[2] = 1
      BY <1>2, <2>2, <2>3, <2>4
    <2>6. QED
      BY <1>1, <1>2, <1>4, <2>2, <2>5 DEF InItsTurn
  <1>5. QED
    BY <1>1, <1>3, <1>4

\* A step in which handlers end, lanes go on and one message's pieces go out.
LEMMA OrderStep ==
  ASSUME Typed, Standing, Order, unread' = unread, tries' = tries, ticket' = ticket,
         waived \subseteq waived', over \subseteq over',
         \A m \in Messages : Handled(m)' => Handled(m),
         \A m \in Messages : m \in over' <=> m \in over \/ (FirstInHand(m) /\ ~Handled(m)'),
         tail' = tail \/ (tail' = 0 /\ tail \in over' \cup {0}),
         \A u \in Lanes : u[2] = 1 /\ lane'[u].at \in {"turn", "publishing"} =>
            lane[u].at \in {"turn", "publishing"} \/ u[1] \in waived' \/ Clear(u[1]),
         sent' \in [Pieces -> Nat], NEW n,
         \A p \in Pieces : sent'[p] > 0 => sent[p] > 0 \/ (p[1] = n /\ \E u \in Lanes : Publishing(u, p))
  PROVE  Order'
  <1>1. \A m \in Messages : Clear(m) => Clear(m)'
    BY DEF Clear
  <1>2. \A m \in Messages : FirstInHand(m)' <=> FirstInHand(m) /\ Handled(m)'
    BY DEF FirstInHand
  <1>3. \A m \in Messages : m \in Nat /\ m >= 1
    BY DEF Messages
  <1>4. \A m \in Messages : HadItsTurn(m)' => Clear(m) /\ (HadItsTurn(m) \/ m = n)
    BY HadOrHas DEF Order
  <1>5. Ticketed'
    <2>1. /\ unread >= 1 /\ ticket \in [Messages -> Nat] /\ tail' \in Messages \cup {0}
          /\ tail' = 0 \/ tail' = unread - 1
      BY DEF Order, Ticketed
    <2>2. unread > 1 => tail' = unread - 1 \/ unread - 1 \in over'
      <3>1. unread \in Nat
        BY DEF Standing
      <3>2. QED
        BY <3>1 DEF Order, Ticketed
    <2>3. ASSUME NEW m \in Messages, m < unread
          PROVE  /\ ticket[m] = 0 \/ ticket[m] = m - 1
                 /\ ticket[m] = 0 => m = 1 \/ m - 1 \in over'
                 /\ m \in over' <=> ~FirstInHand(m)'
      BY <1>2, <2>3 DEF Order, Ticketed
    <2>4. ASSUME NEW m \in Messages, m \in over' PROVE m < unread
      <3>1. CASE m \in over
        BY <3>1 DEF Order, Ticketed
      <3>2. CASE FirstInHand(m)
        BY <1>3, <3>2 DEF FirstInHand, Standing
      <3>3. QED
        BY <2>4, <3>1, <3>2
    <2>5. QED
      BY <2>1, <2>2, <2>3, <2>4 DEF Ticketed
  <1>6. InItsTurn'
    <2>1. ASSUME NEW t \in Lanes, t[2] = 1, lane'[t].at \in {"turn", "publishing"}
          PROVE  t[1] \in waived' \/ Clear(t[1])'
      <3>1. t[1] \in Messages
        BY DEF Lanes
      <3>2. t[1] \in waived' \/ Clear(t[1])
        BY <2>1 DEF Order, InItsTurn
      <3>3. QED
        BY <1>1, <3>1, <3>2
    <2>2. \A m \in Messages : HadItsTurn(m)' => Clear(m)'
      BY <1>1, <1>4
    <2>3. ASSUME NEW p \in Pieces, sent'[p] > 0 PROVE p[1] < unread
      <3>1. CASE sent[p] > 0
        BY <3>1 DEF Order, InItsTurn
      <3>2. ASSUME NEW u \in Lanes, Publishing(u, p) PROVE p[1] < unread
        <4>1. u[1] = p[1] /\ lane[u].at = "publishing" /\ u[1] \in Messages
          BY <3>2 DEF Publishing, Piece, Lanes
        <4>2. u[2] \in Nat /\ u[2] >= 1
          BY Bounds DEF Lanes, Tries
        <4>3. ~(u[2] > tries[u[1]])
          BY <4>1 DEF Standing
        <4>4. tries[u[1]] # 0
          BY <4>2, <4>3
        <4>5. QED
          BY <1>3, <4>1, <4>4 DEF Standing
      <3>3. QED
        BY <2>3, <3>1, <3>2
    <2>4. QED
      BY <2>1, <2>2, <2>3 DEF InItsTurn
  <1>7. ASSUME NEW k \in Messages, NEW m \in Messages, k < m, m < unread, FirstInHand(k)', Clear(m)'
        PROVE  \E j \in (k + 1)..(m - 1) : ~HadItsTurn(j)'
    <2>1. k \in Nat /\ m \in Nat /\ k >= 1
      BY <1>3
    <2>2. m - 1 \in over' /\ m - 1 \in Messages /\ m - 1 < unread
      <3>1. m - 1 \in over'
        BY <1>5, <1>7, <2>1 DEF Ticketed, Clear
      <3>2. m - 1 \in Messages
        BY <1>7, <2>1, Bounds DEF Messages
      <3>3. QED
        BY <1>5, <3>1, <3>2 DEF Ticketed
    <2>3. k # m - 1
      BY <1>5, <1>7, <2>2 DEF Ticketed
    <2>4. k < m - 1
      BY <1>7, <2>1, <2>3
    <2>5. CASE ~HadItsTurn(m - 1)'
      BY <2>1, <2>4, <2>5
    <2>6. CASE HadItsTurn(m - 1)'
      <3>1. Clear(m - 1)
        BY <1>4, <2>2, <2>6
      <3>2. FirstInHand(k)
        BY <1>2, <1>7
      <3>3. PICK j \in (k + 1)..((m - 1) - 1) : ~HadItsTurn(j)
        BY <2>2, <2>4, <3>1, <3>2 DEF Order, Ordered
      <3>4. j \in Messages /\ j \in (k + 1)..(m - 1) /\ j < unread
        BY <1>7, <2>1, Bounds DEF Messages, Standing
      <3>5. CASE ~HadItsTurn(j)'
        BY <3>4, <3>5
      <3>6. CASE HadItsTurn(j)'
        <4>1. j = n /\ Clear(j)
          BY <1>4, <3>3, <3>4, <3>6
        <4>2. k < j
          BY <2>1, <3>4
        <4>3. PICK i \in (k + 1)..(j - 1) : ~HadItsTurn(i)
          BY <3>2, <3>4, <4>1, <4>2 DEF Order, Ordered
        <4>4. i \in Messages /\ i \in (k + 1)..(m - 1) /\ i # j
          BY <2>1, <3>4, Bounds DEF Messages
        <4>5. ~HadItsTurn(i)'
          BY <1>4, <4>1, <4>3, <4>4
        <4>6. QED
          BY <4>4, <4>5
      <3>7. QED
        BY <3>5, <3>6
    <2>7. QED
      BY <2>5, <2>6
  <1>8. QED
    BY <1>5, <1>6, <1>7 DEF Order, Ordered

\* The end of a handler, and no end of one.
LEMMA StopOrder ==
  ASSUME Standing, NEW m \in Messages, Handled(m), Stop(m), NEW to \in {"failed", "dead", "acked"},
         state' = [state EXCEPT ![m] = to]
  PROVE  /\ over \subseteq over' /\ (tail' = tail \/ (tail' = 0 /\ tail \in over' \cup {0}))
         /\ \A k \in Messages : Handled(k)' => Handled(k)
         /\ \A k \in Messages : k \in over' <=> k \in over \/ (FirstInHand(k) /\ ~Handled(k)')
  <1>1. \A k \in Messages : Handled(k)' <=> Handled(k) /\ k # m
    BY DEF Standing, Handled
  <1>2. \A k \in Messages : k \in over' <=> k \in over \/ (tries[m] = 1 /\ k = m)
    BY DEF Stop
  <1>3. QED
    BY <1>1, <1>2 DEF Stop, FirstInHand

LEMMA NoStopOrder ==
  ASSUME state' = state, over' = over
  PROVE  /\ \A k \in Messages : Handled(k)' => Handled(k)
         /\ \A k \in Messages : k \in over' <=> k \in over \/ (FirstInHand(k) /\ ~Handled(k)')
  BY DEF Handled, FirstInHand

\* The steps of a lane that end no handler.
LEMMA OrderWork ==
  ASSUME Typed, Standing, Order, NEW t \in Lanes,
         \/ Queue(t) \/ Translated(t) \/ Suppressed(t) \/ Woken(t) \/ WaitedLong(t)
         \/ Claim(t) \/ PassOver(t) \/ ClaimUnheard(t) \/ ClaimFails(t)
         \/ Publish(t) \/ PublishTwice(t)
  PROVE  Order'
  <1>1. work' = work /\ ticket' = ticket /\ tail' = tail /\ over' = over
    BY DEF Queue, Translated, Suppressed, Woken, WaitedLong, Claim, PassOver, ClaimUnheard,
           ClaimFails, Publish, PublishTwice, turns
  <1>2. unread' = unread /\ state' = state /\ tries' = tries
    BY <1>1 DEF work
  <1>3. waived \subseteq waived'
    BY DEF Queue, Translated, Suppressed, Woken, WaitedLong, Claim, PassOver, ClaimUnheard,
           ClaimFails, Publish, PublishTwice, turns
  <1>4. t[1] \in Messages
    BY DEF Lanes
  <1>5. /\ \A u \in Lanes \ {t} : lane'[u] = lane[u]
        /\ t[2] = 1 /\ lane'[t].at \in {"turn", "publishing"} =>
              lane[t].at \in {"turn", "publishing"} \/ t[1] \in waived' \/ Clear(t[1])
    <2>1. CASE Ready(t) /\ waived' = waived
      BY <2>1, AtType DEF Ready, Free, Clear, Spots
    <2>2. CASE Onward(t)
      BY <2>2, OnwardType
    <2>3. CASE At(t, "turn") /\ (ticket[t[1]] \in over \/ t[1] \in waived')
      BY <2>3, AtType DEF Clear, Spots
    <2>4. CASE At(t, "publishing") /\ lane[t].at = "turn"
      BY <2>4, AtType DEF Spots
    <2>5. QED
      BY <2>1, <2>2, <2>3, <2>4
         DEF Queue, Translated, Suppressed, Woken, WaitedLong, Claim, PassOver, ClaimUnheard,
           ClaimFails, Publish, PublishTwice, turns
  <1>6. /\ sent' \in [Pieces -> Nat]
        /\ \A p \in Pieces : sent'[p] > 0 => sent[p] > 0 \/ (p[1] = t[1] /\ \E u \in Lanes : Publishing(u, p))
    <2>1. CASE sent' = sent
      BY <2>1 DEF Typed
    <2>2. CASE Publish(t)
      <3>1. Piece(t) \in Pieces /\ Piece(t)[1] = t[1]
        BY PieceType DEF Piece
      <3>2. Publishing(t, Piece(t)) /\ sent' = [sent EXCEPT ![Piece(t)] = @ + 1]
        BY <2>2 DEF Publish, Publishing
      <3>3. \A p \in Pieces : p = Piece(t) \/ sent'[p] = sent[p]
        BY <3>2 DEF Typed
      <3>4. QED
        BY <3>1, <3>2, <3>3, SentOne
    <2>3. CASE PublishTwice(t)
      <3>1. Piece(t) \in Pieces /\ Piece(t)[1] = t[1]
        BY PieceType DEF Piece
      <3>2. Publishing(t, Piece(t)) /\ sent' = [sent EXCEPT ![Piece(t)] = @ + 2]
        BY <2>3 DEF PublishTwice, Publishing
      <3>3. \A p \in Pieces : p = Piece(t) \/ sent'[p] = sent[p]
        BY <3>2 DEF Typed
      <3>4. QED
        BY <3>1, <3>2, <3>3, SentTwo
    <2>4. QED
      BY <2>1, <2>2, <2>3 DEF Queue, Translated, Suppressed, Woken, WaitedLong, Claim, PassOver, ClaimUnheard, ClaimFails
  <1>7. \A u \in Lanes : u[2] = 1 /\ lane'[u].at \in {"turn", "publishing"} =>
            lane[u].at \in {"turn", "publishing"} \/ u[1] \in waived' \/ Clear(u[1])
    BY <1>5
  <1>8. /\ \A k \in Messages : Handled(k)' => Handled(k)
        /\ \A k \in Messages : k \in over' <=> k \in over \/ (FirstInHand(k) /\ ~Handled(k)')
    BY <1>1, <1>2, NoStopOrder
  <1>9. QED
    BY <1>1, <1>2, <1>3, <1>6, <1>7, <1>8, OrderStep

\* A lane that fails, and the error ends the delivery it is of.
LEMMA OrderRaise ==
  ASSUME Typed, Standing, Order, NEW t \in Lanes, NotTranslated(t) \/ NotPublished(t)
  PROVE  Order'
  <1>1. Raise(t)
    BY DEF NotTranslated, NotPublished
  <1>2. t[1] \in Messages /\ Failed(t[1]) \in {"failed", "dead", "acked"}
    BY DEF Lanes, Failed
  <1>3. unread' = unread /\ tries' = tries /\ ticket' = ticket /\ waived' = waived
    BY <1>1 DEF Raise
  <1>4. /\ over \subseteq over' /\ (tail' = tail \/ (tail' = 0 /\ tail \in over' \cup {0}))
        /\ \A k \in Messages : Handled(k)' => Handled(k)
        /\ \A k \in Messages : k \in over' <=> k \in over \/ (FirstInHand(k) /\ ~Handled(k)')
    <2>1. CASE Stray(t)
      <3>1. state' = state /\ over' = over /\ tail' = tail
        BY <1>1, <2>1 DEF Raise
      <3>2. QED
        BY <3>1, NoStopOrder
    <2>2. CASE ~Stray(t)
      <3>1. Handled(t[1]) /\ Stop(t[1]) /\ state' = [state EXCEPT ![t[1]] = Failed(t[1])]
        BY <1>1, <2>2 DEF Raise, Stray
      <3>2. QED
        BY <1>2, <3>1, StopOrder
    <2>3. QED
      BY <2>1, <2>2
  <1>5. \A u \in Lanes : lane'[u] = lane[u] \/ lane'[u].at = "ended"
    BY <1>1, RaiseType
  <1>6. /\ sent' \in [Pieces -> Nat]
        /\ \A p \in Pieces : sent'[p] > 0 => sent[p] > 0 \/ (p[1] = t[1] /\ \E u \in Lanes : Publishing(u, p))
    <2>1. CASE NotTranslated(t)
      BY <2>1 DEF NotTranslated, Typed
    <2>2. CASE NotPublished(t)
      <3>1. PICK ps \in SUBSET {Piece(t)} : Landed(ps)
        BY <2>2 DEF NotPublished
      <3>2. \A p \in Pieces : p = Piece(t) \/ sent'[p] = sent[p]
        BY <3>1 DEF Landed
      <3>3. Publishing(t, Piece(t)) /\ Piece(t)[1] = t[1]
        BY <2>2 DEF NotPublished, Publishing, Piece
      <3>4. QED
        BY <3>1, <3>2, <3>3, SentGrows
    <2>3. QED
      BY <2>1, <2>2
  <1>7. QED
    BY <1>3, <1>4, <1>5, <1>6, OrderStep

\* A handler that ends otherwise, and the end of all of them.
LEMMA OrderEnd ==
  ASSUME Typed, Standing, Order, Crash \/ \E m \in Messages : Finish(m) \/ TimesOut(m)
  PROVE  Order'
  <1>1. ASSUME NEW m \in Messages, Finish(m) PROVE Order'
    <2>1. /\ Handled(m) /\ Stop(m) /\ state' = [state EXCEPT ![m] = "acked"]
          /\ UNCHANGED <<unread, tries, ticket, waived, lane, sent>>
      BY <1>1 DEF Finish, Handled
    <2>2. sent' \in [Pieces -> Nat]
      BY <2>1 DEF Typed
    <2>3. /\ over \subseteq over' /\ (tail' = tail \/ (tail' = 0 /\ tail \in over' \cup {0}))
          /\ \A k \in Messages : Handled(k)' => Handled(k)
          /\ \A k \in Messages : k \in over' <=> k \in over \/ (FirstInHand(k) /\ ~Handled(k)')
      BY <2>1, StopOrder
    <2>4. QED
      BY <2>1, <2>2, <2>3, OrderStep
  <1>2. ASSUME NEW m \in Messages, TimesOut(m) PROVE Order'
    <2>1. PICK ps \in SUBSET Pending(Of(m), "publishing") :
            /\ Handled(m) /\ Ended(Of(m)) /\ Landed(ps) /\ Stop(m)
            /\ state' = [state EXCEPT ![m] = Failed(m)] /\ UNCHANGED <<unread, tries, ticket, waived>>
      BY <1>2 DEF TimesOut
    <2>2. Failed(m) \in {"failed", "dead", "acked"}
      BY DEF Failed
    <2>3. /\ over \subseteq over' /\ (tail' = tail \/ (tail' = 0 /\ tail \in over' \cup {0}))
          /\ \A k \in Messages : Handled(k)' => Handled(k)
          /\ \A k \in Messages : k \in over' <=> k \in over \/ (FirstInHand(k) /\ ~Handled(k)')
      BY <2>1, <2>2, StopOrder
    <2>4. \A u \in Lanes : lane'[u] = lane[u] \/ lane'[u].at \in {"none", "ended"}
      BY <2>1, EndedType DEF Of
    <2>5. /\ sent' \in [Pieces -> Nat]
          /\ \A p \in Pieces : sent'[p] > 0 => sent[p] > 0 \/ (p[1] = m /\ \E u \in Lanes : Publishing(u, p))
      <3>1. \A p \in ps : \E u \in Lanes : Publishing(u, p) /\ p[1] = m
        BY <2>1 DEF Pending, Of, Publishing, Piece
      <3>2. \A p \in Pieces : p \in ps \/ sent'[p] = sent[p]
        BY <2>1 DEF Landed
      <3>3. QED
        BY <2>1, <3>1, <3>2, SentGrows
    <2>6. QED
      BY <2>1, <2>3, <2>4, <2>5, OrderStep
  <1>3. CASE Crash
    <2>1. /\ Ended(Lanes) /\ state' = [m \in Messages |-> IF Handled(m) THEN "failed" ELSE state[m]]
          /\ over' = over \cup {m \in Messages : Handled(m)} /\ tail' = 0
          /\ UNCHANGED <<unread, tries, ticket, waived, sent>>
      BY <1>3 DEF Crash
    <2>2. sent' \in [Pieces -> Nat]
      BY <2>1 DEF Typed
    <2>3. \A k \in Messages : ~Handled(k)'
      BY <2>1 DEF Handled
    <2>4. \A k \in Messages : Handled(k) => k < unread
      BY DEF Handled, Standing, Messages
    <2>5. \A k \in Messages : Handled(k) => k \in over \/ FirstInHand(k)
      BY <2>4 DEF Order, Ticketed
    <2>6. \A k \in Messages : k \in over' <=> k \in over \/ FirstInHand(k)
      BY <2>1, <2>5 DEF FirstInHand
    <2>7. tail \in over' \cup {0}
      <3>1. CASE tail \in Messages
        <4>1. tail < unread
          BY <3>1 DEF Order, Ticketed, Standing, Messages
        <4>2. tail \in over \/ FirstInHand(tail)
          BY <3>1, <4>1 DEF Order, Ticketed
        <4>3. QED
          BY <2>6, <3>1, <4>2
      <3>2. QED
        BY <3>1 DEF Order, Ticketed
    <2>8. \A u \in Lanes : lane'[u].at \in {"none", "ended"}
      BY <2>1, EndedType
    <2>9. over \subseteq over'
      BY <2>1
    <2>10. QED
      BY <2>1, <2>2, <2>3, <2>6, <2>7, <2>8, <2>9, OrderStep
  <1>4. QED
    BY <1>1, <1>2, <1>3

\* A message begins its first or another delivery, or its handling; nothing happens.
LEMMA OrderBegins ==
  ASSUME Typed, Standing, Order,
         Change \/ UNCHANGED vars \/ \E m \in Messages : Enter(m) \/ Reclaim(m)
  PROVE  Order'
  <1>1. CASE Change \/ UNCHANGED vars
    <2>1. /\ UNCHANGED <<unread, state, tries, ticket, tail, over, waived, lane, sent>>
      BY <1>1 DEF Change, vars, work, turns
    <2>2. QED
      BY <2>1 DEF Order, Ticketed, InItsTurn, Ordered, FirstInHand, Handled, Clear, HadItsTurn
  <1>2. ASSUME NEW m \in Messages, Enter(m) PROVE Order'
    <2>1. /\ state[m] = "started" /\ state' = [state EXCEPT ![m] = "running"]
          /\ UNCHANGED <<unread, tries, ticket, tail, over, waived, sent>>
      BY <1>2 DEF Enter, turns
    <2>2. \A k \in Messages : Handled(k)' <=> Handled(k)
      BY <2>1 DEF Standing, Handled
    <2>3. \A u \in Lanes : lane'[u] = lane[u] \/ lane'[u].at \in {"queued", "working"}
      <3>1. CASE lane' = lane
        BY <3>1
      <3>2. CASE lane' = [t \in Lanes |-> IF t \in Of(m) /\ t[3] \in wanted
                            THEN [at |-> IF Marker(m) THEN "queued" ELSE "working", i |-> 1] ELSE lane[t]]
        BY <3>2
      <3>3. QED
        BY <1>2, <3>1, <3>2 DEF Enter
    <2>4. sent' \in [Pieces -> Nat]
      BY <2>1 DEF Typed
    <2>5. \A k \in Messages : k \in over' <=> k \in over \/ (FirstInHand(k) /\ ~Handled(k)')
      BY <2>1, <2>2 DEF FirstInHand
    <2>6. QED
      BY <2>1, <2>2, <2>3, <2>4, <2>5, OrderStep
  <1>3. ASSUME NEW m \in Messages, Reclaim(m) PROVE Order'
    <2>1. /\ state[m] = "failed" /\ state' = [state EXCEPT ![m] = "started"]
          /\ tries' = [tries EXCEPT ![m] = @ + 1]
          /\ UNCHANGED <<unread, ticket, tail, over, waived, lane, sent>>
      BY <1>3 DEF Reclaim, turns
    <2>2. m \in Nat /\ m < unread
      BY <2>1 DEF Messages, Standing
    <2>3. tries'[m] # 1 /\ ~Handled(m) /\ \A k \in Messages \ {m} : tries'[k] = tries[k] /\ state'[k] = state[k]
      BY <2>1, <2>2 DEF Standing, Handled
    <2>4. \A k \in Messages : FirstInHand(k)' <=> FirstInHand(k)
      BY <2>3 DEF FirstInHand, Handled
    <2>5. \A k \in Messages : HadItsTurn(k)' => HadItsTurn(k)
      BY <2>1, <2>3 DEF HadItsTurn
    <2>6. Ticketed'
      BY <2>1, <2>4 DEF Order, Ticketed
    <2>7. InItsTurn'
      BY <2>1, <2>5 DEF Order, InItsTurn, Clear
    <2>8. ASSUME NEW k \in Messages, NEW n \in Messages, k < n, n < unread, FirstInHand(k)', Clear(n)'
          PROVE  \E j \in (k + 1)..(n - 1) : ~HadItsTurn(j)'
      <3>1. PICK j \in (k + 1)..(n - 1) : ~HadItsTurn(j)
        BY <2>1, <2>4, <2>8 DEF Order, Ordered, Clear
      <3>2. j \in Messages
        BY <2>8, Bounds DEF Messages
      <3>3. QED
        BY <2>5, <3>1, <3>2
    <2>9. QED
      BY <2>1, <2>6, <2>7, <2>8 DEF Order, Ordered
  <1>4. QED
    BY <1>1, <1>2, <1>3

\* The message read takes the place behind the last one as its ticket.
LEMMA OrderRead ==
  ASSUME Typed, Standing, Order, Read
  PROVE  Order'
  <1>1. /\ unread \in Messages /\ unread' = unread + 1 /\ lane' = lane /\ sent' = sent
        /\ state' = [state EXCEPT ![unread] = "started"] /\ tries' = [tries EXCEPT ![unread] = 1]
        /\ ticket' = [ticket EXCEPT ![unread] = tail] /\ tail' = unread /\ over' = over /\ waived' = waived
    BY ReadIs DEF Read
  <1>0. PICK r \in Messages : r = unread
    BY <1>1
  <1>2. unread \in Nat /\ tries[unread] = 0 /\ \A m \in Messages : m \in Nat /\ m >= 1
    BY <1>1 DEF Standing, Messages
  <1>3. /\ tries'[unread] = 1 /\ state'[unread] = "started" /\ ticket'[unread] = tail
        /\ \A m \in Messages \ {unread} : tries'[m] = tries[m] /\ state'[m] = state[m] /\ ticket'[m] = ticket[m]
    BY <1>1 DEF Standing, Order, Ticketed
  <1>4. FirstInHand(r)' /\ \A m \in Messages \ {r} : FirstInHand(m)' <=> FirstInHand(m)
    BY <1>0, <1>1, <1>3 DEF FirstInHand, Handled
  <1>5. \A m \in Messages \ {r} : (Clear(m)' <=> Clear(m)) /\ (HadItsTurn(m)' <=> HadItsTurn(m))
    BY <1>0, <1>1, <1>3 DEF Clear, HadItsTurn
  <1>6. ~HadItsTurn(r)'
    BY <1>0, <1>1, <1>2 DEF HadItsTurn, Order, InItsTurn
  <1>7. unread \notin over
    BY <1>1, <1>2 DEF Order, Ticketed
  <1>8. tail = 0 => unread = 1 \/ unread - 1 \in over
    BY <1>1, <1>2 DEF Order, Ticketed
  <1>9. Ticketed'
    <2>1. unread + 1 >= 1 /\ tail' \in Messages /\ tail' = (unread + 1) - 1
      BY <1>1, <1>2
    <2>2. ticket' \in [Messages -> Nat]
      BY <1>1 DEF Order, Ticketed, Messages
    <2>3. ASSUME NEW m \in Messages, m < unread + 1
          PROVE  /\ ticket'[m] = 0 \/ ticket'[m] = m - 1
                 /\ ticket'[m] = 0 => m = 1 \/ m - 1 \in over
                 /\ m \in over <=> ~FirstInHand(m)'
      <3>1. CASE m = unread
        <4>1. tail = 0 \/ tail = m - 1
          BY <3>1 DEF Order, Ticketed
        <4>2. FirstInHand(m)'
          BY <1>0, <1>4, <3>1
        <4>3. QED
          BY <1>3, <1>7, <1>8, <3>1, <4>1, <4>2
      <3>2. CASE m < unread
        BY <1>0, <1>2, <1>3, <1>4, <3>2 DEF Order, Ticketed
      <3>3. QED
        BY <1>2, <2>3, <3>1, <3>2
    <2>4. \A m \in Messages : m \in over => m < unread + 1
      BY <1>2 DEF Order, Ticketed
    <2>5. QED
      BY <1>1, <2>1, <2>2, <2>3, <2>4 DEF Ticketed
  <1>10. InItsTurn'
    <2>1. ASSUME NEW t \in Lanes, t[2] = 1, lane[t].at \in {"turn", "publishing"}
          PROVE  t[1] \in waived \/ Clear(t[1])'
      <3>1. t[1] # unread
        BY <1>2, <2>1 DEF Standing
      <3>2. t[1] \in Messages
        BY DEF Lanes
      <3>3. QED
        BY <1>0, <1>5, <2>1, <3>1, <3>2 DEF Order, InItsTurn
    <2>2. \A m \in Messages : HadItsTurn(m)' => Clear(m)'
      BY <1>5, <1>6 DEF Order, InItsTurn
    <2>3. \A p \in Pieces : sent[p] > 0 => p[1] < unread + 1
      BY <1>2 DEF Order, InItsTurn, Pieces
    <2>4. QED
      BY <1>1, <2>1, <2>2, <2>3 DEF InItsTurn
  <1>11. ASSUME NEW k \in Messages, NEW m \in Messages, k < m, m < unread + 1, FirstInHand(k)', Clear(m)'
         PROVE  \E j \in (k + 1)..(m - 1) : ~HadItsTurn(j)'
    <2>1. k \in Nat /\ m \in Nat /\ k >= 1 /\ k # unread /\ FirstInHand(k)
      BY <1>0, <1>2, <1>4, <1>11
    <2>2. ASSUME NEW n \in Messages, k < n, n < unread, n <= m, Clear(n)
          PROVE  \E j \in (k + 1)..(m - 1) : ~HadItsTurn(j)'
      <3>1. PICK j \in (k + 1)..(n - 1) : ~HadItsTurn(j)
        BY <2>1, <2>2 DEF Order, Ordered
      <3>2. j \in Messages \ {unread} /\ j \in (k + 1)..(m - 1)
        BY <1>2, <2>1, <2>2, Bounds DEF Messages
      <3>3. QED
        BY <1>0, <1>5, <3>1, <3>2
    <2>3. CASE m < unread
      BY <1>0, <1>5, <1>11, <2>1, <2>2, <2>3
    <2>4. CASE m = unread
      <3>1. m - 1 \in over
        BY <1>1, <1>2, <1>3, <1>8, <1>11, <2>1, <2>4 DEF Clear, Order, Ticketed
      <3>2. m - 1 \in Messages /\ m - 1 < unread /\ m - 1 # unread
        BY <1>11, <2>1, <2>4, Bounds DEF Messages
      <3>3. k # m - 1
        BY <2>1, <3>1, <3>2 DEF Order, Ticketed
      <3>4. CASE ~HadItsTurn(m - 1)'
        BY <1>11, <2>1, <3>3, <3>4
      <3>5. CASE HadItsTurn(m - 1)'
        <4>1. Clear(m - 1)
          BY <1>0, <1>5, <3>2, <3>5 DEF Order, InItsTurn
        <4>2. k < m - 1 /\ m - 1 <= m
          BY <1>11, <2>1, <3>3
        <4>3. QED
          BY <2>2, <3>2, <4>1, <4>2
      <3>6. QED
        BY <3>4, <3>5
    <2>5. QED
      BY <1>2, <1>11, <2>1, <2>3, <2>4
  <1>12. QED
    BY <1>1, <1>9, <1>10, <1>11 DEF Order, Ordered

LEMMA OrderInit == Init => Order
  <1>1. SUFFICES ASSUME Init PROVE Order
    OBVIOUS
  <1>2. /\ unread = 1 /\ tail = 0 /\ over = {} /\ ticket = [m \in Messages |-> 0]
        /\ lane = [t \in Lanes |-> NoLane] /\ sent = [p \in Pieces |-> 0]
    BY <1>1, Zenon DEF Init
  <1>3. \A m \in Messages : ~(m < 1)
    BY DEF Messages
  <1>4. Ticketed
    BY <1>2, <1>3 DEF Ticketed
  <1>5. InItsTurn
    BY <1>2, <1>3 DEF InItsTurn, NoLane, HadItsTurn
  <1>6. QED
    BY <1>2, <1>3, <1>4, <1>5 DEF Order, Ordered

LEMMA OrderNext == ASSUME Typed, Standing, Order, [Next]_vars PROVE Order'
  <1>1. ASSUME NEW t \in Lanes, Work(t) PROVE Order'
    BY <1>1, OrderWork, OrderRaise DEF Work
  <1>2. ASSUME NEW m \in Messages, Handle(m) \/ TimesOut(m) PROVE Order'
    BY <1>2, OrderBegins, OrderEnd DEF Handle
  <1>3. CASE Change \/ Read \/ Crash \/ UNCHANGED vars
    BY <1>3, OrderBegins, OrderRead, OrderEnd
  <1>4. QED
    BY <1>1, <1>2, <1>3 DEF Next

\* However messages are cancelled, fail or are taken over while the next ones are
\* ready, a message goes out before an earlier one that is handled for the first time
\* only if it waited in vain or if one between them had nothing to say in its turn
\* (TranslationWorker.process, _await_speaker_turn).
THEOREM SpokenInTurn == Spec => InTurn
  <1> DEFINE Turn == \A t \in Lanes :
        (lane[t].at = "publishing" /\ t[2] = 1 /\ sent'[Piece(t)] > sent[Piece(t)]) =>
            \/ t[1] \in waived
            \/ \A k \in Overtaken(t) : \E j \in (k + 1)..(t[1] - 1) : ~HadItsTurn(j)
  <1>1. ASSUME Standing, Order, NEW t \in Lanes, lane[t].at = "publishing", t[2] = 1, t[1] \notin waived,
               NEW k \in Overtaken(t)
        PROVE  \E j \in (k + 1)..(t[1] - 1) : ~HadItsTurn(j)
    <2>1. t[1] \in Messages /\ Clear(t[1])
      BY <1>1 DEF Order, InItsTurn, Lanes
    <2>2. ~(t[2] > tries[t[1]])
      BY <1>1 DEF Standing
    <2>3. t[1] < unread
      BY <1>1, <2>1, <2>2 DEF Standing, Messages
    <2>4. k \in Messages /\ k < t[1] /\ FirstInHand(k)
      BY <1>1, <2>1, Bounds DEF Overtaken, Messages, FirstInHand
    <2>5. QED
      BY <1>1, <2>1, <2>3, <2>4 DEF Order, Ordered
  <1>2. Standing /\ Order => Turn
    BY <1>1
  <1>3. Spec => [](Standing /\ Order)
    <2>1. Typed /\ Whole /\ Claimed => Typed /\ Standing
      BY DEF Whole
    <2>2. Typed /\ Standing /\ Order /\ [Next]_vars => Order'
      BY OrderNext
    <2>3. QED
      BY <2>1, <2>2, OrderInit, WholeAlways, PTL DEF Spec
  <1>4. [][Turn]_vars => InTurn
    BY DEF InTurn
  <1>5. QED
    BY <1>2, <1>3, <1>4, PTL
=============================================================================
