--------------------------- MODULE TTSWorkerProofs --------------------------
(***************************************************************************)
(* The two sides of a TTS worker.  What holds of a person's voices         *)
(* (VoiceClones) for any ladder, scores and bounds: the worker does not    *)
(* take a speaker for cloned who has no voice, a voice made from a full    *)
(* sample is not replaced by a provisional one, and a far-side person's    *)
(* voice in use is destroyed only after they withdrew.                     *)
(*   What holds of its pipelined consumption (PipelinedQueue, an instance, *)
(* from the line below that declares its parameters) follows: nothing      *)
(* delivered is lost, no worker settles what it is still working on, and   *)
(* no late retry is spoken.                                                *)
(***************************************************************************)
EXTENDS VoiceClones, SequenceTheorems, TLAPS

Active(c) == calls[c].at # "none"
KeyProvisional == key.voice # NoVoice => account[key.voice].secs < MinSeconds

\* One call is under way at a time, and it is for a sample that passed.
OneCall ==
    seat = "own" => \A c, d \in DOMAIN calls : Active(c) => calls[c].score # 0 /\ (Active(d) => c = d)

\* The vendor has made the voice a call holds, the one in use, and the one a withdrawal holds.
Holding ==
    \A c \in DOMAIN calls : calls[c].at \notin {"none", "asked"} =>
        /\ calls[c].voice \in Voices
        /\ account[calls[c].voice].name # "none" /\ account[calls[c].voice].secs = calls[c].secs
Named == key.voice # NoVoice => account[key.voice].name # "none"
Handed == \A p \in Paths : reader[p].at \in {"held", "removed"} => reader[p].voice # NoVoice

\* Nobody looks for the consent of somebody at their own seat.
Quiet ==
    seat = "own" =>
        /\ ~mem.watched /\ \A p \in Paths : reader[p].at = "idle"
        /\ \A c \in DOMAIN calls : calls[c].at # "agreed"
Dated == aged => over

\* A score without a voice is the score of the call that is making the first one.
Grounded ==
    seat = "own" /\ ~aged /\ ~HasVoice /\ mem.score # 0 =>
        \E c \in DOMAIN calls : calls[c].at \in {"asked", "made"} /\ calls[c].prev = 0 /\ calls[c].score = mem.score

\* On a provisional rung, and while a provisional voice is made, nothing better exists.
Climbing ==
    seat = "own" /\ mem.rung # 0 /\ Ladder[mem.rung] < MinSeconds =>
        KeyProvisional /\ \A c \in DOMAIN calls : Active(c) => calls[c].secs < MinSeconds
Below == seat = "own" => \A c \in DOMAIN calls : Active(c) /\ calls[c].secs < MinSeconds => KeyProvisional

IInv == TypeOK /\ OneCall /\ Holding /\ Named /\ Handed /\ Quiet /\ Dated /\ Grounded /\ Climbing /\ Below

-----------------------------------------------------------------------------
(* The ladder, and what is chosen.                                         *)

LEMMA LadderShape ==
    /\ Len(Ladder) \in Nat \ {0} /\ DOMAIN Ladder = 1..Len(Ladder)
    /\ \A r \in 1..Len(Ladder) : Ladder[r] \in Nat \ {0}
    /\ \A r \in 1..Len(Ladder) : r # Len(Ladder) => r + 1 \in 1..Len(Ladder) /\ Ladder[r] < Ladder[r + 1]
    /\ MinSeconds \in Nat \ {0} /\ MaxSeconds \in Nat \ {0}
<1>1. Ladder \in Seq(Nat \ {0})  BY Shapes
<1>2. Len(Ladder) \in Nat /\ DOMAIN Ladder = 1..Len(Ladder)  BY <1>1
<1>3. \A r \in 1..Len(Ladder) : Ladder[r] \in Nat \ {0}  BY <1>1, <1>2
<1>4. PICK least \in DOMAIN Ladder : MinSeconds = Ladder[least]  BY Shapes
<1>5. Len(Ladder) # 0 /\ MinSeconds \in Nat \ {0}  BY <1>2, <1>3, <1>4
<1>6. Ladder[Len(Ladder)] \in Nat \ {0}  BY <1>2, <1>3, <1>5
<1>7. \A r, s \in DOMAIN Ladder : r < s => Ladder[r] < Ladder[s]  BY Shapes
<1>8. \A r \in 1..Len(Ladder) : r # Len(Ladder) => r + 1 \in 1..Len(Ladder) /\ Ladder[r] < Ladder[r + 1]
  <2>1. \A n \in Nat : \A r \in 1..n : r # n => r + 1 \in 1..n /\ r < r + 1  OBVIOUS
  <2> QED  BY <2>1, <1>2, <1>7
<1> QED  BY <1>2, <1>3, <1>5, <1>6, <1>8 DEF MaxSeconds

\* The voice made next is one that was not made yet.
LEMMA NextUnmade == ASSUME Unmade # {} PROVE NextVoice \in Voices /\ account[NextVoice].name = "none"
BY DEF NextVoice, Unmade

\* A call is started where none is under way.
LEMMA Starts ==
    ASSUME NEW call, FreeCalls # {}, Start(call)
    PROVE  \E c \in DOMAIN calls : calls[c].at = "none" /\ calls' = [calls EXCEPT ![c] = call]
<1> DEFINE free == CHOOSE c \in FreeCalls : TRUE
<1>1. free \in FreeCalls  OBVIOUS
<1> QED  BY <1>1 DEF Start, FreeCalls

-----------------------------------------------------------------------------
(* Types.                                                                  *)

LEMMA Sizes ==
    /\ Len(Ladder) \in Nat \ {0} /\ MaxSeconds \in Nat \ {0} /\ MinSeconds \in Nat \ {0}
    /\ MaxUpgrades \in Nat /\ MaxChanges \in Nat /\ MaxFaults \in Nat /\ MaxCalls \in Nat
    /\ \A r \in 1..Len(Ladder) : Ladder[r] \in Nat
<1>1. Len(Ladder) \in Nat \ {0} /\ MaxSeconds \in Nat \ {0} /\ MinSeconds \in Nat \ {0}
  BY LadderShape
<1>2. \A r \in 1..Len(Ladder) : Ladder[r] \in Nat  BY LadderShape
<1>3. {Margin, Tolerance, MaxUpgrades, MaxCalls, MaxVoices, MaxChanges, MaxFaults} \subseteq Nat  BY Shapes
<1> QED  BY <1>1, <1>2, <1>3

\* What a clip of the person's own seat makes of the memory.
LEMMA MemoryTypes ==
    ASSUME TypeOK, NEW m \in Memory
    PROVE  /\ Fresh \in Memory /\ Dropped(m) \in Memory /\ Adopted(m) \in Memory /\ Placed(m) \in Memory
           /\ Heard(m) \in Memory /\ Threshold(m) \in Nat
<1>1. Fresh \in Memory /\ Dropped(m) \in Memory  BY Sizes DEF Memory, Fresh, Dropped
<1>2. Adopted(m) \in Memory
  <2>1. carried \in Scores \cup {0}  BY DEF TypeOK
  <2> QED  BY <2>1 DEF Memory, Adopted
<1>3. Placed(m) \in Memory  BY Sizes DEF Memory, Placed
<1>4. Heard(m) \in Memory
  <2> DEFINE heard == IF m.heard < MaxSeconds THEN m.heard + 1 ELSE m.heard
  <2>1. m.heard \in 0..MaxSeconds  BY DEF Memory
  <2>2. heard \in 0..MaxSeconds  BY <2>1, Sizes
  <2>3. Heard(m) = [m EXCEPT !.heard = heard]  BY DEF Heard
  <2> HIDE DEF heard
  <2> QED  BY <2>2, <2>3 DEF Memory
<1>5. Threshold(m) \in Nat
  <2>1. m.rung \in 0..Len(Ladder)  BY DEF Memory
  <2> QED  BY <2>1, Sizes DEF Threshold
<1> QED  BY <1>1, <1>2, <1>3, <1>4, <1>5

LEMMA InitTyped == Init => TypeOK
<1> SUFFICES ASSUME Init PROVE TypeOK  OBVIOUS
<1>1. mem \in Memory  BY Sizes DEF Init, Fresh, Memory
<1>2. calls \in [1..MaxCalls -> Call]  BY DEF Init, NoCall, Call, NoVoice
<1>3. reader \in [Paths -> Reader]  BY DEF Init, Idle, Reader, NoVoice
<1>4. changes \in 0..MaxChanges /\ faults \in 0..MaxFaults  BY Sizes DEF Init
<1>5. key \in [voice : Voices \cup {NoVoice}, lang : Languages \cup {"auto"}]  BY DEF Init
<1>6. account \in [Voices -> [name : {"none", "speaker", "profile", "gone"}, secs : Nat, since : Nat, born : Nat]]  BY DEF Init
<1>7. seat \in {"own", "far"} /\ carried \in Scores \cup {0}  BY DEF Init
<1> QED  BY <1>1, <1>2, <1>3, <1>4, <1>5, <1>6, <1>7 DEF Init, TypeOK

LEMMA VoiceMade ==
    ASSUME TypeOK, NEW c \in DOMAIN calls, Created(c)
    PROVE  /\ NextVoice \in Voices /\ account[NextVoice].name = "none"
           /\ account' \in [Voices -> [name : {"none", "speaker", "profile", "gone"}, secs : Nat, since : Nat, born : Nat]]
           /\ account'[NextVoice].name = "speaker" /\ account'[NextVoice].secs = calls[c].secs
           /\ account'[NextVoice].since = calls[c].since /\ account'[NextVoice].born = leaves
           /\ \A v \in Voices \ {NextVoice} : account'[v] = account[v]
<1>1. NextVoice \in Voices /\ account[NextVoice].name = "none"  BY NextUnmade DEF Created
<1>2. calls[c].secs \in Nat /\ calls[c].since \in Nat /\ leaves \in Nat  BY DEF TypeOK, Call
<1> QED  BY <1>1, <1>2 DEF Created, TypeOK

LEMMA VoiceRenamed ==
    ASSUME TypeOK, NEW v \in Voices, NEW name \in {"profile", "gone"}, account' = [account EXCEPT ![v].name = name]
    PROVE  /\ account' \in [Voices -> [name : {"none", "speaker", "profile", "gone"}, secs : Nat, since : Nat, born : Nat]]
           /\ \A w \in Voices : /\ account'[w].secs = account[w].secs /\ account'[w].since = account[w].since
                              /\ account'[w].born = account[w].born
                              /\ account[w].name # "none" => account'[w].name # "none"
BY DEF TypeOK

Calls == [1..MaxCalls -> Call]

LEMMA CallTypes ==
    ASSUME TypeOK, NEW c \in DOMAIN calls
    PROVE  /\ c \in 1..MaxCalls /\ calls[c] \in Call /\ NoCall \in Call
           /\ \A call \in Call : [calls EXCEPT ![c] = call] \in Calls
           /\ \A at \in {"none", "asked", "made", "agreed", "stored", "kept"} : [calls EXCEPT ![c].at = at] \in Calls
<1>1. calls \in Calls /\ c \in 1..MaxCalls  BY DEF TypeOK, Calls
<1>2. NoCall \in Call  BY DEF NoCall, Call, NoVoice
<1>3. \A call \in Call : [calls EXCEPT ![c] = call] \in Calls  BY <1>1 DEF Calls
<1>4. \A at \in {"none", "asked", "made", "agreed", "stored", "kept"} : [calls[c] EXCEPT !.at = at] \in Call
  BY <1>1 DEF Calls, Call
<1>5. \A at : [calls EXCEPT ![c].at = at] = [calls EXCEPT ![c] = [calls[c] EXCEPT !.at = at]]  BY <1>1 DEF Calls
<1> QED  BY <1>1, <1>2, <1>3, <1>4, <1>5 DEF Calls

LEMMA ReaderTypes ==
    ASSUME TypeOK, NEW p \in Paths
    PROVE  /\ Leaves(p) => reader' \in [Paths -> Reader]
           /\ \A at \in {"agreed", "free", "absent", "held", "removed"} : Goes(p, at) => reader' \in [Paths -> Reader]
           /\ \A at \in {"listed", "held"} :
                reader' = [reader EXCEPT ![p] = [at |-> at, voice |-> key.voice]] => reader' \in [Paths -> Reader]
<1>1. reader \in [Paths -> Reader] /\ key.voice \in Voices \cup {NoVoice}  BY DEF TypeOK
<1>2. Idle \in Reader  BY DEF Idle, Reader
<1>3. \A at \in {"agreed", "free", "absent", "held", "removed"} : [reader[p] EXCEPT !.at = at] \in Reader  BY <1>1 DEF Reader
<1>4. \A at \in {"listed", "held"} : [at |-> at, voice |-> key.voice] \in Reader  BY <1>1 DEF Reader
<1>5. \A at : Goes(p, at) => reader' = [reader EXCEPT ![p] = [reader[p] EXCEPT !.at = at]]  BY <1>1 DEF Goes
<1> QED  BY <1>1, <1>2, <1>3, <1>4, <1>5 DEF Leaves

LEMMA SettledType ==
    ASSUME TypeOK, NEW c \in DOMAIN calls, NEW refusal \in BOOLEAN
    PROVE  Settled(c, mem, refusal) \in Memory
<1> DEFINE score == IF seat = "own" /\ mem.score = calls[c].score THEN calls[c].prev ELSE mem.score
           used == IF calls[c].spent /\ mem.used > 0 THEN mem.used - 1 ELSE mem.used
           refused == mem.refused \/ refusal
<1>1. mem \in Memory /\ calls[c] \in Call  BY CallTypes DEF TypeOK
<1>2. score \in Scores \cup {0}  BY <1>1 DEF Memory, Call
<1>3. mem.used \in 0..MaxUpgrades /\ mem.refused \in BOOLEAN  BY <1>1 DEF Memory
<1>4. used \in 0..MaxUpgrades  BY <1>3, Sizes
<1>5. refused \in BOOLEAN  BY <1>3
<1>6. Settled(c, mem, refusal) = [mem EXCEPT !.refused = refused, !.score = score, !.used = used]  BY DEF Settled
<1> HIDE DEF score, used, refused
<1> QED  BY <1>1, <1>2, <1>4, <1>5, <1>6 DEF Memory

-----------------------------------------------------------------------------
(* A clip that begins a clone.                                             *)

FirstScore == IF mem.seen \/ carried = 0 THEN mem.score ELSE carried
FirstRung == IF ~HasVoice /\ FirstScore = 0 /\ mem.rung = 0 /\ ~InFlight THEN 1 ELSE mem.rung

LEMMA Hearing ==
    ASSUME TypeOK, NEW m, m = Listened \/ m = Heard(Listened)
    PROVE  m \in Memory /\ m.used = mem.used /\ m.watched = mem.watched /\ m.score = FirstScore /\ m.rung = FirstRung
<1>1. mem \in Memory  BY DEF TypeOK
<1>2. Adopted(mem) \in Memory  BY <1>1, MemoryTypes
<1>3. /\ Adopted(mem).score = FirstScore /\ Adopted(mem).rung = mem.rung
      /\ Adopted(mem).used = mem.used /\ Adopted(mem).watched = mem.watched
  BY <1>1 DEF Adopted, FirstScore, Memory
<1>4. Listened \in Memory  BY <1>2, MemoryTypes DEF Listened
<1>5. /\ Listened.score = FirstScore /\ Listened.rung = FirstRung
      /\ Listened.used = mem.used /\ Listened.watched = mem.watched
  BY <1>2, <1>3 DEF Listened, Placed, FirstRung, Memory
<1>6. Heard(Listened) \in Memory  BY <1>4, MemoryTypes
<1>7. /\ Heard(Listened).score = FirstScore /\ Heard(Listened).rung = FirstRung
      /\ Heard(Listened).used = mem.used /\ Heard(Listened).watched = mem.watched
  BY <1>4, <1>5 DEF Heard, Memory
<1> QED  BY <1>4, <1>5, <1>6, <1>7

\* No score is believed of somebody without a voice, and an upgrade is one of those left.
LEMMA Beginning ==
    ASSUME IInv, NEW s \in Scores \cup {0}, StartClone(s), NEW m, m = Heard(Listened)
    PROVE  /\ m \in Memory /\ ~InFlight /\ s \in Scores /\ s # 0
           /\ ~HasVoice => m.score = 0
           /\ m.score # 0 /\ ~Stale /\ m.rung = 0 => m.used < MaxUpgrades
           /\ Asking(m, s) \in Call /\ Begun(m, s) \in Memory
<1>1. TypeOK /\ Grounded /\ Dated  BY DEF IInv
<1>2. m \in Memory /\ m.used = mem.used /\ m.score = FirstScore  BY <1>1, Hearing
<1>3. Due(m) /\ Worth(m, s) /\ ~Exhausted(Listened) /\ ~over /\ seat = "own"
  BY DEF StartClone, Listening, Speaks, Resting
<1>4. ~InFlight /\ lang # "auto" /\ s # 0  BY <1>3 DEF Due, Worth
<1>5. ~HasVoice => m.score = 0
  <2> HAVE ~HasVoice
  <2>1. carried = 0  BY DEF HasVoice
  <2>2. mem.score = 0  BY <1>1, <1>3, <1>4 DEF Grounded, Dated, InFlight
  <2> QED  BY <1>2, <2>1, <2>2 DEF FirstScore
<1>6. m.score # 0 /\ ~Stale /\ m.rung = 0 => m.used < MaxUpgrades
  <2> HAVE m.score # 0 /\ ~Stale /\ m.rung = 0
  <2>1. Listened.used = mem.used  BY <1>1, Hearing
  <2>2. ~(mem.used >= MaxUpgrades)  BY <1>3, <1>5, <2>1 DEF Exhausted
  <2>3. mem.used \in 0..MaxUpgrades  BY <1>1 DEF TypeOK, Memory
  <2> QED  BY <1>2, <2>2, <2>3, Sizes
<1>7. s \in Scores  BY <1>4
<1>8. Asking(m, s) \in Call
  <2>1. Threshold(m) \in Nat  BY <1>1, <1>2, MemoryTypes
  <2>2. NoCall \in Call  BY DEF NoCall, Call, NoVoice
  <2>3. m.score \in Scores \cup {0} /\ m.since \in Nat /\ lang \in Languages \cup {"auto"}  BY <1>1, <1>2 DEF TypeOK, Memory
  <2>4. (m.score # 0 /\ ~Stale /\ m.rung = 0) \in BOOLEAN  OBVIOUS
  <2> QED  BY <1>7, <2>1, <2>2, <2>3, <2>4 DEF Asking, Call
<1>9. Begun(m, s) \in Memory
  <2> DEFINE heard == IF LastRung(m) THEN 0 ELSE m.heard
             rung == IF LastRung(m) THEN 0 ELSE m.rung + 1
             used == IF m.score # 0 /\ ~Stale /\ m.rung = 0 THEN m.used + 1 ELSE m.used
  <2>1. m.heard \in 0..MaxSeconds /\ m.rung \in 0..Len(Ladder) /\ m.used \in 0..MaxUpgrades  BY <1>2 DEF Memory
  <2>2. heard \in 0..MaxSeconds  BY <2>1, Sizes
  <2>3. rung \in 0..Len(Ladder)  BY <2>1, Sizes DEF LastRung
  <2>4. used \in 0..MaxUpgrades  BY <2>1, <1>6, Sizes
  <2>5. Begun(m, s) = [m EXCEPT !.heard = heard, !.rung = rung, !.score = s, !.used = used]  BY DEF Begun
  <2> HIDE DEF heard, rung, used
  <2> QED  BY <1>2, <1>7, <2>2, <2>3, <2>4, <2>5 DEF Memory
<1> QED  BY <1>2, <1>4, <1>5, <1>6, <1>7, <1>8, <1>9

-----------------------------------------------------------------------------
(* Every step keeps the types.                                             *)

Entries == [voice : Voices \cup {NoVoice}, lang : Languages \cup {"auto"}]
Accounts == [Voices -> [name : {"none", "speaker", "profile", "gone"}, secs : Nat, since : Nat, born : Nat]]

LEMMA Parts ==
    TypeOK => /\ mem \in Memory /\ calls \in Calls /\ reader \in [Paths -> Reader] /\ key \in Entries
              /\ account \in Accounts /\ requests \subseteq Voices /\ asked \subseteq Voices /\ misjudged \subseteq asked
              /\ orphaned \subseteq Voices /\ faults \in 0..MaxFaults
BY DEF TypeOK, Calls, Entries, Accounts

LEMMA FaultType == TypeOK /\ (Fault \/ UNCHANGED faults) => faults' \in 0..MaxFaults
<1> SUFFICES ASSUME TypeOK, Fault \/ UNCHANGED faults PROVE faults' \in 0..MaxFaults  OBVIOUS
<1>1. faults \in 0..MaxFaults  BY DEF TypeOK
<1> QED  BY <1>1, Sizes DEF Fault

\* A step of the worker leaves the outside alone.
LEMMA Inside ==
    ASSUME TypeOK, UNCHANGED outside, mem' \in Memory, calls' \in Calls, reader' \in [Paths -> Reader],
           key' \in Entries, account' \in Accounts, requests' \subseteq Voices, asked' \subseteq Voices,
           misjudged' \subseteq asked', orphaned' \subseteq Voices, Fault \/ UNCHANGED faults
    PROVE  TypeOK'
<1>1. faults' \in 0..MaxFaults  BY FaultType
<1> QED  BY <1>1 DEF TypeOK, outside, Calls, Entries, Accounts

LEMMA OutsideTyped == ASSUME TypeOK, Change \/ RoomEnds \/ DayPasses PROVE TypeOK'
<1>1. CASE Change
  <2>1. leaves \in Nat /\ changes \in 0..MaxChanges /\ consent \in BOOLEAN /\ allowed \in BOOLEAN /\ lang \in Languages \cup {"auto"}
    BY DEF TypeOK
  <2>2. changes' \in 0..MaxChanges  BY <1>1, <2>1, Sizes DEF Change
  <2>3. leaves' \in Nat
    <3>1. (IF consent THEN 1 ELSE 0) \in Nat  OBVIOUS
    <3>2. leaves' = leaves \/ leaves' = leaves + (IF consent THEN 1 ELSE 0)  BY <1>1, Zenon DEF Change
    <3> QED  BY <2>1, <3>1, <3>2
  <2>4. consent' \in BOOLEAN /\ allowed' \in BOOLEAN  BY <1>1, <2>1, Zenon DEF Change
  <2>5. lang' \in Languages \cup {"auto"}  BY <1>1, <2>1, Zenon DEF Change
  <2> QED  BY <1>1, <2>2, <2>3, <2>4, <2>5 DEF Change, TypeOK
<1>2. CASE RoomEnds
  <2>1. mem' \in Memory  BY <1>2, Parts, MemoryTypes DEF RoomEnds
  <2> QED  BY <1>2, <2>1 DEF RoomEnds, TypeOK
<1>3. CASE DayPasses
  <2>1. Idle \in Reader  BY DEF Idle, Reader
  <2>2. reader' \in [Paths -> Reader]  BY <1>3, <2>1 DEF DayPasses
  <2>3. key' \in Entries  BY <1>3 DEF DayPasses, Entries
  <2> QED  BY <1>3, <2>2, <2>3 DEF DayPasses, TypeOK, Entries
<1> QED  BY <1>1, <1>2, <1>3

LEMMA OwnTyped == ASSUME IInv, OwnNext PROVE TypeOK'
<1> USE Parts
<1>0. TypeOK  BY DEF IInv
<1>a. Fresh \in Memory /\ Dropped(mem) \in Memory  BY <1>0, MemoryTypes
<1>b. Listened \in Memory /\ Heard(Listened) \in Memory  BY <1>0, Hearing
<1>1. CASE Refuse
  <2>1. mem' \in Memory  BY <1>0, <1>1, <1>a DEF Refuse, Memory
  <2> QED  BY <1>0, <1>1, <2>1, Inside DEF Refuse
<1>2. CASE SwitchedOff
  <2>1. mem' \in Memory  BY <1>0, <1>2, <1>a DEF SwitchedOff, Memory
  <2> QED  BY <1>0, <1>2, <2>1, Inside DEF SwitchedOff
<1>3. CASE GiveUp  BY <1>0, <1>3, <1>a, Inside DEF GiveUp
<1>4. CASE Rest
  <2>1. Dropped(Listened) \in Memory  BY <1>0, <1>b, MemoryTypes
  <2>2. mem' \in Memory  BY <1>4, <1>b, <2>1 DEF Rest
  <2> QED  BY <1>0, <1>4, <2>2, Inside DEF Rest
<1>5. ASSUME NEW s \in Scores \cup {0}, Gather(s) PROVE TypeOK'
  BY <1>0, <1>5, <1>b, Inside DEF Gather
<1>6. ASSUME NEW s \in Scores \cup {0}, StartClone(s) PROVE TypeOK'
  <2> DEFINE m == Heard(Listened)
  <2>1. Asking(m, s) \in Call /\ Begun(m, s) \in Memory  BY <1>6, Beginning
  <2>2. mem' = Begun(m, s) /\ Start(Asking(m, s)) /\ FreeCalls # {}  BY <1>6 DEF StartClone
  <2>3. PICK c \in DOMAIN calls : calls' = [calls EXCEPT ![c] = Asking(m, s)]  BY <2>2, Starts
  <2>4. calls' \in Calls  BY <1>0, <2>1, <2>3, CallTypes
  <2> QED  BY <1>0, <1>6, <2>1, <2>2, <2>4, Inside DEF StartClone
<1>7. CASE LookFails
  <2>1. mem' \in Memory  BY <1>0, <1>7, MemoryTypes DEF LookFails
  <2> QED  BY <1>0, <1>7, <2>1, Inside DEF LookFails
<1> QED  BY <1>1, <1>2, <1>3, <1>4, <1>5, <1>6, <1>7 DEF OwnNext

LEMMA CallTyped == ASSUME IInv, NEW c \in DOMAIN calls, CallNext(c) \/ CallBreaks(c) PROVE TypeOK'
<1> USE Parts
<1>0. TypeOK /\ Holding  BY DEF IInv
<1>a. /\ calls[c] \in Call /\ [calls EXCEPT ![c] = NoCall] \in Calls
      /\ \A at \in {"none", "asked", "made", "agreed", "stored", "kept"} : [calls EXCEPT ![c].at = at] \in Calls
  BY <1>0, CallTypes
<1>b. calls[c].at \notin {"none", "asked"} => calls[c].voice \in Voices  BY <1>0 DEF Holding
<1>1. CASE MakeVoice(c)
  <2>1. Created(c)  BY <1>1 DEF MakeVoice
  <2>2. account' \in Accounts /\ NextVoice \in Voices  BY <1>0, <2>1, VoiceMade DEF Accounts
  <2>3. [calls[c] EXCEPT !.at = "made", !.voice = NextVoice] \in Call  BY <1>a, <2>2 DEF Call
  <2>4. calls' = [calls EXCEPT ![c] = [calls[c] EXCEPT !.at = "made", !.voice = NextVoice]]
    BY <1>0, <1>1 DEF MakeVoice, Calls
  <2>5. calls' \in Calls  BY <1>0, <2>3, <2>4, CallTypes
  <2> QED  BY <1>0, <1>1, <2>2, <2>5, Inside DEF MakeVoice
<1>2. CASE Store(c)
  <2>1. key' \in Entries  BY <1>0, <1>2, <1>b DEF Store, Entries
  <2> QED  BY <1>0, <1>2, <1>a, <2>1, Inside DEF Store, Then
<1>3. CASE NameLanguage(c)
  <2>1. calls[c].lang \in Languages \cup {"auto"}  BY <1>a DEF Call
  <2>2. key' \in Entries  BY <1>0, <1>3, <2>1 DEF NameLanguage, Entries
  <2> QED  BY <1>0, <1>3, <1>a, <2>2, Inside DEF NameLanguage, Then, Finish
<1>4. CASE Promote(c)
  <2>1. account' \in Accounts  BY <1>0, <1>4, <1>b, VoiceRenamed DEF Promote, Promoted, Accounts
  <2> QED  BY <1>0, <1>4, <1>a, <2>1, Inside DEF Promote, Finish
<1>5. CASE Agree(c)  BY <1>0, <1>5, <1>a, Inside DEF Agree, Then
<1>6. CASE Discard(c)
  <2>1. calls[c].voice \in Voices  BY <1>6, <1>b DEF Discard
  <2>2. requests' \subseteq Voices /\ asked' \subseteq Voices /\ misjudged' \subseteq asked'
    BY <1>0, <1>6, <2>1 DEF Discard, Request
  <2>3. Fault \/ UNCHANGED faults  BY <1>6 DEF Discard, Request
  <2> QED  BY <1>0, <1>6, <1>a, <2>2, <2>3, Inside DEF Discard, Finish
<1>7. CASE StoreFar(c)
  <2>1. key' \in Entries  BY <1>0, <1>7, <1>b DEF StoreFar, Entries
  <2>2. mem' \in Memory  BY <1>0, <1>7 DEF StoreFar, Memory
  <2> QED  BY <1>0, <1>7, <1>a, <2>1, <2>2, Inside DEF StoreFar
<1>8. CASE CallFails(c)
  <2>1. \E refusal \in BOOLEAN : Settle(c, refusal)  BY <1>8 DEF CallFails
  <2>2. mem' \in Memory  BY <1>0, <2>1, SettledType DEF Settle
  <2>3. calls' \in Calls  BY <1>a, <2>1 DEF Settle
  <2>4. account' \in Accounts  BY <1>0, <1>8, VoiceMade DEF CallFails, Accounts
  <2> QED  BY <1>0, <1>8, <2>2, <2>3, <2>4, Inside DEF CallFails
<1>9. CASE StoreFails(c)
  <2>1. mem' \in Memory /\ calls' \in Calls  BY <1>0, <1>9, <1>a, SettledType DEF StoreFails, Settle
  <2> QED  BY <1>0, <1>9, <2>1, Inside DEF StoreFails
<1>10. CASE LaterFails(c)
  <2>1. account' \in Accounts  BY <1>0, <1>10, <1>b, VoiceRenamed DEF LaterFails, Promoted, Accounts
  <2> QED  BY <1>0, <1>10, <1>a, <2>1, Inside DEF LaterFails, Finish
<1> QED  BY <1>1, <1>2, <1>3, <1>4, <1>5, <1>6, <1>7, <1>8, <1>9, <1>10 DEF CallNext, CallBreaks

LEMMA FarTyped ==
    ASSUME IInv, CaptureNext \/ DubLook \/ WatchLook \/ (\E p \in Paths : Reads(p)) PROVE TypeOK'
<1> USE Parts
<1>0. TypeOK /\ Handed  BY DEF IInv
<1>a. "capture" \in Paths /\ "dub" \in Paths /\ "watch" \in Paths  BY DEF Paths
<1>b. \A m \in Memory : Dropped(m) \in Memory /\ Heard(m) \in Memory /\ [m EXCEPT !.watched = TRUE] \in Memory
  BY <1>0, MemoryTypes DEF Memory
<1>1. CASE CaptureAsk
  <2> DEFINE here == [mem EXCEPT !.watched = TRUE, !.since = IF mem.heard = 0 THEN leaves ELSE @]
  <2>a. here \in Memory  BY <1>0 DEF TypeOK, Memory
  <2>b. Dropped(here) \in Memory  BY <1>b, <2>a
  <2>1. mem' \in Memory  BY <1>1, <2>a, <2>b DEF CaptureAsk, Answer
  <2>2. reader' \in [Paths -> Reader]  BY <1>0, <1>1, <1>a, ReaderTypes DEF CaptureAsk, Answer
  <2>3. Fault \/ UNCHANGED faults  BY <1>1 DEF CaptureAsk, Answer
  <2> QED  BY <1>0, <1>1, <2>1, <2>2, <2>3, Inside DEF CaptureAsk
<1>2. CASE CaptureGate
  <2>1. mem' \in Memory  BY <1>0, <1>2, <1>b DEF CaptureGate
  <2>2. reader' \in [Paths -> Reader]  BY <1>0, <1>2, <1>a, ReaderTypes DEF CaptureGate
  <2> QED  BY <1>0, <1>2, <2>1, <2>2, Inside DEF CaptureGate
<1>3. ASSUME NEW s \in Scores \cup {0}, CaptureTake(s) PROVE TypeOK'
  <2>1. mem' \in Memory  BY <1>0, <1>3, <1>b DEF CaptureTake
  <2>2. reader' \in [Paths -> Reader]  BY <1>0, <1>3, <1>a, ReaderTypes DEF CaptureTake
  <2>3. calls' \in Calls
    <3> DEFINE new == [NoCall EXCEPT !.at = "asked", !.secs = MinSeconds, !.since = Heard(mem).since]
    <3>1. UNCHANGED calls \/ (FreeCalls # {} /\ Start(new))  BY <1>3 DEF CaptureTake
    <3>2. Heard(mem).since \in Nat  BY <1>0, <1>b DEF Memory
    <3>3. new \in Call  BY <3>2, Sizes DEF Call, NoCall, NoVoice
    <3> HIDE DEF new
    <3>4. CASE FreeCalls # {} /\ Start(new)
      <4>1. PICK c \in DOMAIN calls : calls' = [calls EXCEPT ![c] = new]  BY <3>4, Starts
      <4> QED  BY <1>0, <3>3, <4>1, CallTypes
    <3> QED  BY <1>0, <3>1, <3>4
  <2> QED  BY <1>0, <1>3, <2>1, <2>2, <2>3, Inside DEF CaptureTake
<1>4. CASE DubLook
  <2>1. mem' \in Memory /\ reader' \in [Paths -> Reader]  BY <1>0, <1>4, <1>a, <1>b, ReaderTypes DEF DubLook
  <2> QED  BY <1>0, <1>4, <2>1, Inside DEF DubLook
<1>5. CASE WatchLook
  <2>1. reader' \in [Paths -> Reader]  BY <1>0, <1>5, <1>a, ReaderTypes DEF WatchLook
  <2> QED  BY <1>0, <1>5, <2>1, Inside DEF WatchLook
<1>6. ASSUME NEW p \in Paths, Compare(p) PROVE TypeOK'
  <2>1. mem' \in Memory  BY <1>0, <1>6, <1>b DEF Compare, Answer
  <2>2. reader' \in [Paths -> Reader]  BY <1>0, <1>6, ReaderTypes DEF Compare, Answer
  <2>3. Fault \/ UNCHANGED faults  BY <1>6 DEF Compare, Answer
  <2> QED  BY <1>0, <1>6, <2>1, <2>2, <2>3, Inside DEF Compare
<1>7. ASSUME NEW p \in Paths, Find(p) PROVE TypeOK'
  BY <1>0, <1>7, ReaderTypes, Inside DEF Find
<1>8. ASSUME NEW p \in Paths, Remove(p) PROVE TypeOK'
  <2>1. key' \in Entries  BY <1>0, <1>8 DEF Remove, Entries
  <2>2. reader' \in [Paths -> Reader]  BY <1>0, <1>8, ReaderTypes DEF Remove
  <2> QED  BY <1>0, <1>8, <2>1, <2>2, Inside DEF Remove
<1>9. ASSUME NEW p \in Paths, AskDelete(p) PROVE TypeOK'
  <2>1. reader[p].voice \in Voices  BY <1>0, <1>9 DEF AskDelete, Handed, Reader
  <2>2. requests' \subseteq Voices /\ asked' \subseteq Voices /\ misjudged' \subseteq asked'
    BY <1>0, <1>9, <2>1 DEF AskDelete, Request
  <2>3. reader' \in [Paths -> Reader]  BY <1>0, <1>9, ReaderTypes DEF AskDelete
  <2>4. Fault \/ UNCHANGED faults  BY <1>9 DEF AskDelete, Request
  <2> QED  BY <1>0, <1>9, <2>2, <2>3, <2>4, Inside DEF AskDelete
<1>10. ASSUME NEW p \in Paths, WithdrawFails(p) PROVE TypeOK'
  <2>1. key' \in Entries /\ orphaned' \subseteq Voices  BY <1>0, <1>10 DEF WithdrawFails, Entries
  <2>2. reader' \in [Paths -> Reader]  BY <1>0, <1>10, ReaderTypes DEF WithdrawFails
  <2> QED  BY <1>0, <1>10, <2>1, <2>2, Inside DEF WithdrawFails
<1> QED  BY <1>1, <1>2, <1>3, <1>4, <1>5, <1>6, <1>7, <1>8, <1>9, <1>10 DEF CaptureNext, Reads

LEMMA AccountTyped == ASSUME IInv, Crash \/ (\E v \in Voices : Keeps(v)) PROVE TypeOK'
<1> USE Parts
<1>0. TypeOK  BY DEF IInv
<1>1. ASSUME NEW v \in Voices, DeleteVoice(v) PROVE TypeOK'
  <2>1. account' \in Accounts  BY <1>0, <1>1, VoiceRenamed DEF DeleteVoice, Gone, Accounts
  <2>2. requests' \subseteq Voices /\ (Fault \/ UNCHANGED faults)  BY <1>0, <1>1 DEF DeleteVoice
  <2> QED  BY <1>0, <1>1, <2>1, <2>2, Inside DEF DeleteVoice
<1>2. ASSUME NEW v \in Voices, Sweep(v) PROVE TypeOK'
  <2>1. account' \in Accounts  BY <1>0, <1>2, VoiceRenamed DEF Sweep, Gone, Accounts
  <2>2. Fault \/ UNCHANGED faults  BY <1>2 DEF Sweep
  <2> QED  BY <1>0, <1>2, <2>1, <2>2, Inside DEF Sweep
<1>3. CASE Crash
  <2>1. account' \in Accounts  BY <1>0, <1>3, VoiceMade DEF Crash, Accounts
  <2>2. NoCall \in Call /\ Idle \in Reader /\ Fresh \in Memory
    BY <1>0, MemoryTypes DEF NoCall, Call, NoVoice, Idle, Reader
  <2>3. calls' \in Calls  BY <1>0, <1>3, <2>2 DEF Crash, Calls
  <2> QED  BY <1>0, <1>3, <2>1, <2>2, <2>3, Inside DEF Crash
<1> QED  BY <1>1, <1>2, <1>3 DEF Keeps

LEMMA NextTyped == IInv /\ [Next]_vars => TypeOK'
<1> SUFFICES ASSUME IInv, [Next]_vars PROVE TypeOK'  OBVIOUS
<1>1. CASE UNCHANGED vars  BY <1>1 DEF IInv, TypeOK, vars, outside
<1> QED  BY <1>1, OutsideTyped, OwnTyped, CallTyped, FarTyped, AccountTyped DEF IInv, Next

-----------------------------------------------------------------------------
(* Voices that were made stay made, whoever is asked about them.           *)

Survive == \A v \in Voices :
    account[v].name # "none" => /\ account'[v].name # "none" /\ account'[v].secs = account[v].secs
                                /\ account'[v].since = account[v].since /\ account'[v].born = account[v].born

LEMMA Survival == ASSUME IInv, Next PROVE Survive
<1>0. TypeOK /\ Holding  BY DEF IInv
<1>1. CASE UNCHANGED account  BY <1>1 DEF Survive
<1>2. ASSUME NEW c \in DOMAIN calls, Created(c) PROVE Survive
  BY <1>0, <1>2, VoiceMade DEF Survive
<1>3. ASSUME NEW v \in Voices, Gone(v) PROVE Survive
  BY <1>0, <1>3, VoiceRenamed DEF Survive, Gone
<1>4. ASSUME NEW c \in DOMAIN calls, Promoted(c), calls[c].at = "kept" PROVE Survive
  <2>1. calls[c].voice \in Voices  BY <1>0, <1>4 DEF Holding
  <2> QED  BY <1>0, <1>4, <2>1, VoiceRenamed DEF Survive, Promoted
<1>5. CASE Change \/ RoomEnds \/ DayPasses  BY <1>1, <1>5 DEF Change, RoomEnds, DayPasses
<1>6. CASE OwnNext  BY <1>1, <1>6 DEF OwnNext, Refuse, SwitchedOff, GiveUp, Rest, LookFails, Gather, StartClone
<1>7. ASSUME NEW c \in DOMAIN calls, CallNext(c) PROVE Survive
  BY <1>1, <1>2, <1>4, <1>7 DEF CallNext, MakeVoice, Store, NameLanguage, Promote, Agree, Discard, StoreFar
<1>8. ASSUME NEW c \in DOMAIN calls, CallBreaks(c) PROVE Survive
  BY <1>1, <1>2, <1>4, <1>8 DEF CallBreaks, CallFails, StoreFails, LaterFails
<1>9. CASE CaptureNext \/ DubLook \/ WatchLook
  BY <1>1, <1>9 DEF CaptureNext, CaptureAsk, CaptureGate, CaptureTake, DubLook, WatchLook
<1>10. ASSUME NEW p \in Paths, Reads(p) PROVE Survive
  BY <1>1, <1>10 DEF Reads, Compare, Find, Remove, WithdrawFails, AskDelete
<1>11. ASSUME NEW v \in Voices, Keeps(v) PROVE Survive
  BY <1>1, <1>3, <1>11 DEF Keeps, DeleteVoice, Sweep
<1>12. CASE Crash  BY <1>1, <1>2, <1>12 DEF Crash
<1> QED  BY <1>5, <1>6, <1>7, <1>8, <1>9, <1>10, <1>11, <1>12 DEF Next

\* What a call is for does not change, and what it holds only once.
Same(c) == calls'[c].voice = calls[c].voice /\ calls'[c].secs = calls[c].secs
           /\ calls'[c].score = calls[c].score /\ calls'[c].prev = calls[c].prev

LEMMA Ending ==
    ASSUME TypeOK, NEW c \in DOMAIN calls, NEW at \in {"agreed", "stored", "kept"},
           calls' = [calls EXCEPT ![c] = NoCall] \/ calls' = [calls EXCEPT ![c].at = at]
    PROVE  /\ DOMAIN calls' = DOMAIN calls
           /\ calls'[c].at = "none" \/ (calls'[c].at = at /\ Same(c))
           /\ \A d \in DOMAIN calls \ {c} : calls'[d] = calls[d]
<1>1. calls \in [1..MaxCalls -> Call] /\ calls[c] \in Call  BY DEF TypeOK
<1>2. CASE calls' = [calls EXCEPT ![c] = NoCall]
  <2>1. NoCall.at = "none"  BY DEF NoCall
  <2> QED  BY <1>1, <1>2, <2>1
<1>3. CASE calls' = [calls EXCEPT ![c].at = at]
  <2>1. calls'[c] = [calls[c] EXCEPT !.at = at]  BY <1>1, <1>3
  <2>2. calls'[c].at = at /\ Same(c)  BY <1>1, <2>1 DEF Call, Same
  <2> QED  BY <1>1, <1>3, <2>2
<1> QED  BY <1>2, <1>3

LEMMA Making ==
    ASSUME TypeOK, NEW c \in DOMAIN calls, MakeVoice(c)
    PROVE  /\ DOMAIN calls' = DOMAIN calls
           /\ calls'[c].at = "made" /\ calls'[c].voice = NextVoice /\ calls'[c].secs = calls[c].secs
           /\ calls'[c].score = calls[c].score /\ calls'[c].prev = calls[c].prev
           /\ \A d \in DOMAIN calls \ {c} : calls'[d] = calls[d]
BY DEF TypeOK, Call, MakeVoice

LEMMA HoldingOn ==
    ASSUME Holding, Survive, DOMAIN calls' = DOMAIN calls,
           \A c \in DOMAIN calls :
              \/ calls'[c].at \in {"none", "asked"}
              \/ calls[c].at \notin {"none", "asked"} /\ calls'[c].voice = calls[c].voice /\ calls'[c].secs = calls[c].secs
    PROVE  Holding'
BY DEF Holding, Survive

LEMMA HoldingKept == ASSUME IInv, Next PROVE Holding'
<1>0. TypeOK /\ Holding /\ Survive  BY Survival DEF IInv
<1>1. CASE UNCHANGED calls  BY <1>0, <1>1, HoldingOn
<1>2. ASSUME NEW call, call.at = "asked", FreeCalls # {}, Start(call) PROVE Holding'
  <2>1. PICK c \in DOMAIN calls : calls[c].at = "none" /\ calls' = [calls EXCEPT ![c] = call]  BY <1>2, Starts
  <2>2. DOMAIN calls' = DOMAIN calls /\ calls'[c] = call /\ \A d \in DOMAIN calls \ {c} : calls'[d] = calls[d]
    BY <1>0, <2>1 DEF TypeOK
  <2> QED  BY <1>0, <1>2, <2>1, <2>2, HoldingOn
<1>3. ASSUME NEW c \in DOMAIN calls, NEW at \in {"agreed", "stored", "kept"},
             calls' = [calls EXCEPT ![c] = NoCall] \/ (calls[c].at \notin {"none", "asked"} /\ calls' = [calls EXCEPT ![c].at = at])
      PROVE  Holding'
  <2>1. DOMAIN calls' = DOMAIN calls /\ \A d \in DOMAIN calls \ {c} : calls'[d] = calls[d]  BY <1>0, <1>3, Ending
  <2>2. \/ calls'[c].at = "none"
        \/ calls[c].at \notin {"none", "asked"} /\ calls'[c].voice = calls[c].voice /\ calls'[c].secs = calls[c].secs
    <3>1. CASE calls' = [calls EXCEPT ![c] = NoCall]  BY <1>0, <3>1 DEF TypeOK, NoCall
    <3> QED  BY <1>0, <1>3, <3>1, Ending DEF Same
  <2> QED  BY <1>0, <2>1, <2>2, HoldingOn
<1>4. ASSUME NEW c \in DOMAIN calls, MakeVoice(c) PROVE Holding'
  <2>1. /\ NextVoice \in Voices /\ account[NextVoice].name = "none"
        /\ account'[NextVoice].name = "speaker" /\ account'[NextVoice].secs = calls[c].secs
    BY <1>0, <1>4, VoiceMade DEF MakeVoice
  <2>2. SUFFICES ASSUME NEW d \in DOMAIN calls, calls'[d].at \notin {"none", "asked"}
                 PROVE  /\ calls'[d].voice \in Voices
                        /\ account'[calls'[d].voice].name # "none" /\ account'[calls'[d].voice].secs = calls'[d].secs
    BY <1>0, <1>4, Making DEF Holding
  <2>3. CASE d = c  BY <1>0, <1>4, <2>1, <2>3, Making
  <2>4. CASE d # c  BY <1>0, <1>4, <2>2, <2>4, Making DEF Holding, Survive
  <2> QED  BY <2>3, <2>4
<1>5. CASE Change \/ RoomEnds \/ DayPasses  BY <1>1, <1>5 DEF Change, RoomEnds, DayPasses
<1>6. CASE OwnNext
  <2>1. ASSUME NEW s \in Scores \cup {0}, StartClone(s) PROVE Holding'
    <3>1. Asking(Heard(Listened), s).at = "asked"  BY DEF Asking, NoCall
    <3>2. FreeCalls # {} /\ Start(Asking(Heard(Listened), s))  BY <2>1 DEF StartClone
    <3> QED  BY <1>2, <3>1, <3>2
  <2> QED  BY <1>1, <1>6, <2>1 DEF OwnNext, Refuse, SwitchedOff, GiveUp, Rest, LookFails, Gather
<1>7. ASSUME NEW c \in DOMAIN calls, CallNext(c) PROVE Holding'
  <2>1. ASSUME Then(c, "agreed") \/ Then(c, "stored") \/ Then(c, "kept"), calls[c].at \in {"made", "stored"} PROVE Holding'
    BY <1>3, <2>1 DEF Then
  <2>2. ASSUME calls' = [calls EXCEPT ![c] = NoCall] PROVE Holding'  BY <1>3, <2>2
  <2> QED  BY <1>4, <1>7, <2>1, <2>2 DEF CallNext, Store, NameLanguage, Promote, Agree, Discard, StoreFar, Finish
<1>8. ASSUME NEW c \in DOMAIN calls, CallBreaks(c) PROVE Holding'
  BY <1>3, <1>8 DEF CallBreaks, CallFails, StoreFails, LaterFails, Settle, Finish
<1>9. ASSUME NEW s \in Scores \cup {0}, CaptureTake(s) PROVE Holding'
  <2> DEFINE new == [NoCall EXCEPT !.at = "asked", !.secs = MinSeconds, !.since = Heard(mem).since]
  <2>1. UNCHANGED calls \/ (FreeCalls # {} /\ Start(new))  BY <1>9 DEF CaptureTake
  <2>2. new.at = "asked"  BY DEF NoCall
  <2> HIDE DEF new
  <2> QED  BY <1>1, <1>2, <2>1, <2>2
<1>10. CASE CaptureAsk \/ CaptureGate \/ DubLook \/ WatchLook
  BY <1>1, <1>10 DEF CaptureAsk, CaptureGate, DubLook, WatchLook
<1>11. ASSUME NEW p \in Paths, Reads(p) PROVE Holding'
  BY <1>1, <1>11 DEF Reads, Compare, Find, Remove, WithdrawFails, AskDelete
<1>12. ASSUME NEW v \in Voices, Keeps(v) PROVE Holding'  BY <1>1, <1>12 DEF Keeps, DeleteVoice, Sweep
<1>13. CASE Crash  BY <1>0, <1>13, HoldingOn DEF Crash, NoCall
<1> QED  BY <1>5, <1>6, <1>7, <1>8, <1>9, <1>10, <1>11, <1>12, <1>13 DEF Next, CaptureNext

\* The entry keeps its voice, loses it, or takes the one a call holds.
LEMMA KeySteps ==
    ASSUME IInv, Next
    PROVE  key'.voice \in {key.voice, NoVoice} \/ \E c \in DOMAIN calls : Store(c) \/ StoreFar(c)
<1>1. CASE UNCHANGED key  BY <1>1
<1>2. CASE Change \/ RoomEnds \/ DayPasses  BY <1>1, <1>2 DEF Change, RoomEnds, DayPasses
<1>3. CASE OwnNext  BY <1>1, <1>3 DEF OwnNext, Refuse, SwitchedOff, GiveUp, Rest, LookFails, Gather, StartClone
<1>4. ASSUME NEW c \in DOMAIN calls, NameLanguage(c) PROVE key'.voice = key.voice
  BY <1>4, Parts DEF NameLanguage, Entries, IInv
<1>5. ASSUME NEW c \in DOMAIN calls, CallNext(c) PROVE UNCHANGED key \/ Store(c) \/ StoreFar(c) \/ NameLanguage(c)
  BY <1>5 DEF CallNext, MakeVoice, Promote, Agree, Discard
<1>6. ASSUME NEW c \in DOMAIN calls, CallBreaks(c) PROVE UNCHANGED key
  BY <1>6 DEF CallBreaks, CallFails, StoreFails, LaterFails
<1>7. CASE CaptureNext \/ DubLook \/ WatchLook
  BY <1>1, <1>7 DEF CaptureNext, CaptureAsk, CaptureGate, CaptureTake, DubLook, WatchLook
<1>8. ASSUME NEW p \in Paths, Remove(p) \/ WithdrawFails(p) PROVE UNCHANGED key \/ key'.voice = NoVoice
  BY <1>8, Parts DEF Remove, WithdrawFails, Entries, IInv
<1>9. ASSUME NEW p \in Paths, Reads(p) PROVE UNCHANGED key \/ Remove(p) \/ WithdrawFails(p)
  BY <1>9 DEF Reads, Compare, Find, AskDelete
<1>10. ASSUME NEW v \in Voices, Keeps(v) PROVE UNCHANGED key  BY <1>10 DEF Keeps, DeleteVoice, Sweep
<1>11. CASE Crash  BY <1>1, <1>11 DEF Crash
<1> QED  BY <1>1, <1>2, <1>3, <1>4, <1>5, <1>6, <1>7, <1>8, <1>9, <1>10, <1>11 DEF Next

LEMMA NamedKept == ASSUME IInv, Next PROVE Named'
<1>0. TypeOK /\ Holding /\ Named /\ Survive /\ key \in Entries  BY Survival, Parts DEF IInv
<1>1. CASE key'.voice \in {key.voice, NoVoice}  BY <1>0, <1>1 DEF Named, Survive, Entries
<1>2. ASSUME NEW c \in DOMAIN calls, Store(c) \/ StoreFar(c) PROVE Named'
  <2>1. calls[c].voice \in Voices /\ account[calls[c].voice].name # "none"  BY <1>0, <1>2 DEF Holding, Store, StoreFar
  <2>2. key'.voice = calls[c].voice  BY <1>0, <1>2 DEF Store, StoreFar, Entries
  <2> QED  BY <1>0, <2>1, <2>2 DEF Named, Survive
<1> QED  BY <1>1, <1>2, KeySteps

LEMMA HandedKept == ASSUME IInv, Next PROVE Handed'
<1>0. TypeOK /\ Handed /\ reader \in [Paths -> Reader]  BY Parts DEF IInv
<1>1. CASE UNCHANGED reader  BY <1>0, <1>1 DEF Handed
<1>2. ASSUME NEW p \in Paths, NEW r, reader' = [reader EXCEPT ![p] = r], r.at \in {"held", "removed"} => r.voice # NoVoice
      PROVE  Handed'
  BY <1>0, <1>2 DEF Handed
<1>3. Idle.at = "idle"  BY DEF Idle
<1>4. ASSUME NEW p \in Paths, Leaves(p) PROVE Handed'  BY <1>2, <1>3, <1>4 DEF Leaves
<1>5. ASSUME NEW p \in Paths, NEW at \in {"agreed", "free", "absent"}, Goes(p, at) PROVE Handed'
  <2>1. [reader[p] EXCEPT !.at = at].at = at  BY <1>0 DEF Reader
  <2>2. reader' = [reader EXCEPT ![p] = [reader[p] EXCEPT !.at = at]]  BY <1>5 DEF Goes
  <2> QED  BY <1>2, <2>1, <2>2
<1>6. "capture" \in Paths /\ "dub" \in Paths /\ "watch" \in Paths  BY DEF Paths
<1>7. CASE RoomEnds \/ Change  BY <1>1, <1>7 DEF Change, RoomEnds
<1>8. CASE DayPasses \/ Crash  BY <1>3, <1>8 DEF DayPasses, Crash, Handed
<1>9. CASE OwnNext  BY <1>1, <1>9 DEF OwnNext, Refuse, SwitchedOff, GiveUp, Rest, LookFails, Gather, StartClone
<1>10. ASSUME NEW c \in DOMAIN calls, CallNext(c) \/ CallBreaks(c) PROVE Handed'
  BY <1>1, <1>10 DEF CallNext, MakeVoice, Store, NameLanguage, Promote, Agree, Discard, StoreFar,
                     CallBreaks, CallFails, StoreFails, LaterFails
<1>11. CASE CaptureNext
  BY <1>1, <1>4, <1>5, <1>6, <1>11 DEF CaptureNext, CaptureAsk, CaptureGate, CaptureTake, Answer
<1>12. CASE DubLook \/ WatchLook
  <2>1. [at |-> "listed", voice |-> key.voice].at = "listed"  OBVIOUS
  <2> QED  BY <1>2, <1>6, <1>12, <2>1 DEF DubLook, WatchLook
<1>13. ASSUME NEW p \in Paths, Compare(p) PROVE Handed'  BY <1>4, <1>5, <1>13 DEF Compare, Answer
<1>14. ASSUME NEW p \in Paths, Find(p) PROVE Handed'
  <2>1. [at |-> "held", voice |-> key.voice].voice = key.voice  OBVIOUS
  <2> QED  BY <1>2, <1>4, <1>14, <2>1 DEF Find
<1>15. ASSUME NEW p \in Paths, Remove(p) PROVE Handed'
  <2>1. CASE Leaves(p)  BY <1>4, <2>1
  <2>2. CASE Goes(p, "removed")
    <3>1. reader[p].voice # NoVoice  BY <1>0, <1>15 DEF Remove, Handed
    <3>2. [reader[p] EXCEPT !.at = "removed"].voice = reader[p].voice  BY <1>0 DEF Reader
    <3>3. reader' = [reader EXCEPT ![p] = [reader[p] EXCEPT !.at = "removed"]]  BY <2>2 DEF Goes
    <3> QED  BY <1>2, <3>1, <3>2, <3>3
  <2> QED  BY <1>15, <2>1, <2>2 DEF Remove
<1>16. ASSUME NEW p \in Paths, AskDelete(p) PROVE Handed'  BY <1>4, <1>16 DEF AskDelete
<1>17. ASSUME NEW v \in Voices, Keeps(v) PROVE Handed'  BY <1>1, <1>17 DEF Keeps, DeleteVoice, Sweep
<1>18. ASSUME NEW p \in Paths, WithdrawFails(p) PROVE Handed'  BY <1>4, <1>18 DEF WithdrawFails
<1> QED
  BY <1>7, <1>8, <1>9, <1>10, <1>11, <1>12, <1>13, <1>14, <1>15, <1>16, <1>17, <1>18 DEF Next, Reads

-----------------------------------------------------------------------------
(* The steps of a meeting in which the person is at their own seat.        *)

Aside ==
    \/ Change \/ RoomEnds \/ DayPasses \/ Refuse \/ SwitchedOff \/ GiveUp \/ Rest \/ LookFails
    \/ (\E s \in Scores \cup {0} : Gather(s)) \/ \E v \in Voices : Keeps(v)
CallGoesOn(c) == Store(c) \/ NameLanguage(c) \/ Promote(c) \/ CallBreaks(c)

LEMMA OwnSteps ==
    ASSUME IInv, Next, seat' = "own"
    PROVE  /\ seat = "own"
           /\ \/ Aside \/ (\E s \in Scores \cup {0} : StartClone(s)) \/ Crash
              \/ \E c \in DOMAIN calls : MakeVoice(c) \/ CallGoesOn(c)
<1>0. Quiet /\ "capture" \in Paths  BY DEF IInv, Paths
<1>1. CASE seat = "own"
  <2>1. ASSUME NEW c \in DOMAIN calls PROVE ~Agree(c) /\ ~Discard(c) /\ ~StoreFar(c)
    BY <1>0, <1>1 DEF Quiet, Agree, Discard, StoreFar
  <2>2. ~CaptureNext  BY <1>0, <1>1 DEF Quiet, CaptureNext, CaptureAsk, CaptureGate, CaptureTake
  <2>3. ~DubLook /\ ~WatchLook  BY <1>0, <1>1 DEF Quiet, DubLook, WatchLook
  <2>4. ASSUME NEW p \in Paths PROVE ~Reads(p)  BY <1>0, <1>1 DEF Quiet, Reads, Compare, Find, Remove, WithdrawFails, AskDelete
  <2> QED  BY <1>1, <2>1, <2>2, <2>3, <2>4 DEF Next, OwnNext, CallNext, Aside, CallGoesOn
<1>2. CASE seat # "own"
  <2>1. UNCHANGED seat
    BY DEF Next, Change, RoomEnds, DayPasses, OwnNext, Refuse, SwitchedOff, GiveUp, Rest, LookFails, Gather, StartClone,
           CallNext, MakeVoice, Store, NameLanguage, Promote, Agree, Discard, StoreFar,
           CallBreaks, CallFails, StoreFails, LaterFails, CaptureNext, CaptureAsk, CaptureGate, CaptureTake,
           DubLook, WatchLook, Reads, Compare, Find, Remove, WithdrawFails, AskDelete, Keeps, DeleteVoice, Sweep, Crash, outside
  <2> QED  BY <1>2, <2>1
<1> QED  BY <1>1, <1>2

LEMMA AsideSteps ==
    ASSUME IInv, Aside, seat = "own"
    PROVE  /\ UNCHANGED <<seat, carried, calls>> /\ (aged => aged') /\ (aged' \/ UNCHANGED key)
           /\ key'.voice \in {key.voice, NoVoice} /\ mem'.watched = FALSE
           /\ reader' \in {reader, [p \in Paths |-> Idle]} /\ mem'.score \in {0, mem.score, FirstScore}
           /\ mem'.rung \in {0, mem.rung} \/ (mem'.rung = FirstRung /\ UNCHANGED key)
<1>0. TypeOK /\ mem \in Memory /\ mem.watched = FALSE
  <2>1. TypeOK /\ mem \in Memory  BY Parts DEF IInv
  <2>2. mem.watched \in BOOLEAN  BY <2>1 DEF Memory
  <2> QED  BY <2>1, <2>2 DEF IInv, Quiet
<1>1. CASE Change  BY <1>0, <1>1 DEF Change
<1>2. CASE RoomEnds  BY <1>0, <1>2 DEF RoomEnds
<1>3. CASE DayPasses  BY <1>0, <1>3 DEF DayPasses
<1>a. Fresh.score = 0 /\ Fresh.rung = 0 /\ Fresh.watched = FALSE  BY DEF Fresh
<1>4. CASE Refuse
  <2>1. mem'.score = 0 /\ mem'.rung = 0 /\ mem'.watched = FALSE  BY <1>4 DEF Refuse, Fresh
  <2> QED  BY <1>4, <2>1 DEF Refuse, outside
<1>5. CASE SwitchedOff \/ GiveUp
  <2>1. mem'.score = mem.score /\ mem'.rung = mem.rung /\ mem'.watched = mem.watched
    BY <1>0, <1>5 DEF SwitchedOff, GiveUp, Dropped, Memory
  <2> QED  BY <1>0, <1>5, <2>1 DEF SwitchedOff, GiveUp, outside
<1>6. CASE Rest
  <2>1. Listened \in Memory /\ Listened.score = FirstScore /\ Listened.rung = FirstRung /\ Listened.watched = mem.watched
    BY <1>0, Hearing
  <2>2. mem'.score = FirstScore /\ mem'.rung = FirstRung /\ mem'.watched = mem.watched
    BY <1>6, <2>1 DEF Rest, Dropped, Memory
  <2> QED  BY <1>0, <1>6, <2>2 DEF Rest, outside
<1>7. ASSUME NEW s \in Scores \cup {0}, Gather(s)
      PROVE  mem' = Heard(Listened) /\ UNCHANGED <<outside, calls, reader, key>>
  BY <1>7 DEF Gather
<1>8. ASSUME NEW s \in Scores \cup {0}, Gather(s)
      PROVE  mem'.score = FirstScore /\ mem'.rung = FirstRung /\ mem'.watched = FALSE
  BY <1>0, <1>7, <1>8, Hearing
<1>9. ASSUME NEW v \in Voices, Keeps(v) PROVE UNCHANGED <<outside, mem, calls, reader, key>>
  BY <1>9 DEF Keeps, DeleteVoice, Sweep
<1>10. CASE LookFails
  <2>1. Adopted(mem).score = FirstScore /\ Adopted(mem).rung = mem.rung /\ Adopted(mem).watched = mem.watched
    BY <1>0 DEF Adopted, FirstScore, Memory
  <2> QED  BY <1>0, <1>10, <2>1 DEF LookFails, outside
<1> QED  BY <1>0, <1>1, <1>2, <1>3, <1>4, <1>5, <1>6, <1>7, <1>8, <1>9, <1>10 DEF Aside, outside

\* A call that goes on, breaks off or dies leaves the other calls, and the memory but for the score.
LEMMA CallSteps ==
    ASSUME IInv, seat = "own", NEW c \in DOMAIN calls, CallGoesOn(c)
    PROVE  /\ UNCHANGED outside /\ UNCHANGED reader
           /\ DOMAIN calls' = DOMAIN calls /\ \A d \in DOMAIN calls \ {c} : calls'[d] = calls[d]
           /\ Active(c) /\ (calls'[c].at \in {"none", "stored", "kept"} /\ (calls'[c].at = "none" \/ Same(c)))
           /\ mem'.rung = mem.rung /\ mem'.watched = mem.watched
           /\ \/ mem'.score = mem.score /\ (calls[c].at \in {"stored", "kept"} \/ Store(c))
              \/ mem'.score = IF mem.score = calls[c].score THEN calls[c].prev ELSE mem.score
<1>0. TypeOK /\ mem \in Memory  BY Parts DEF IInv
<1>1. ASSUME NEW at \in {"stored", "kept"}, Then(c, at)
      PROVE  /\ UNCHANGED mem /\ DOMAIN calls' = DOMAIN calls /\ calls'[c].at = at /\ Same(c)
             /\ \A d \in DOMAIN calls \ {c} : calls'[d] = calls[d]
  <2>1. NoCall.at = "none"  BY DEF NoCall
  <2>2. calls'[c].at = at  BY <1>0, <1>1 DEF Then, TypeOK, Call
  <2>3. calls' = [calls EXCEPT ![c].at = at] /\ UNCHANGED mem  BY <1>1 DEF Then
  <2> QED  BY <1>0, <2>2, <2>3, Ending
<1>2. ASSUME calls' = [calls EXCEPT ![c] = NoCall]
      PROVE  DOMAIN calls' = DOMAIN calls /\ calls'[c].at = "none" /\ \A d \in DOMAIN calls \ {c} : calls'[d] = calls[d]
  BY <1>0, <1>2 DEF TypeOK, NoCall
<1>3. CASE Store(c)  BY <1>1, <1>3 DEF Store, Active, outside
<1>4. CASE NameLanguage(c) \/ Promote(c)  BY <1>1, <1>2, <1>4 DEF NameLanguage, Promote, Finish, Active, outside
<1>5. CASE LaterFails(c)  BY <1>2, <1>5 DEF LaterFails, Finish, Active, outside
<1>6. CASE CallFails(c) \/ StoreFails(c)
  <2>1. PICK refusal \in BOOLEAN : Settle(c, refusal)  BY <1>6 DEF CallFails, StoreFails
  <2>2. mem' = Settled(c, mem, refusal) /\ calls' = [calls EXCEPT ![c] = NoCall]  BY <2>1 DEF Settle
  <2>3. mem'.score = IF mem.score = calls[c].score THEN calls[c].prev ELSE mem.score  BY <1>0, <2>2 DEF Settled, Memory
  <2>4. mem'.rung = mem.rung /\ mem'.watched = mem.watched  BY <1>0, <2>2 DEF Settled, Memory
  <2>5. Active(c) /\ UNCHANGED <<outside, reader>>  BY <1>6 DEF CallFails, StoreFails, Active
  <2> QED  BY <1>2, <2>2, <2>3, <2>4, <2>5
<1> QED  BY <1>3, <1>4, <1>5, <1>6 DEF CallGoesOn, CallBreaks

\* What StartClone adds to the calls.
LEMMA StartSteps ==
    ASSUME IInv, NEW s \in Scores \cup {0}, StartClone(s), NEW m, m = Heard(Listened)
    PROVE  \E c \in DOMAIN calls :
              /\ calls' = [calls EXCEPT ![c] = Asking(m, s)] /\ DOMAIN calls' = DOMAIN calls
              /\ calls'[c] = Asking(m, s) /\ \A d \in DOMAIN calls \ {c} : calls'[d].at = "none"
              /\ calls'[c].at = "asked" /\ calls'[c].score = s /\ calls'[c].prev = m.score /\ calls'[c].secs = Threshold(m)
<1>1. FreeCalls # {} /\ Start(Asking(m, s)) /\ TypeOK  BY DEF StartClone, IInv
<1>2. PICK c \in DOMAIN calls : calls' = [calls EXCEPT ![c] = Asking(m, s)]  BY <1>1, Starts
<1>3. ~InFlight  BY Beginning
<1>4. \A d \in DOMAIN calls : calls[d].at = "none"  BY <1>3 DEF InFlight
<1>5. DOMAIN calls' = DOMAIN calls /\ calls'[c] = Asking(m, s) /\ \A d \in DOMAIN calls \ {c} : calls'[d] = calls[d]
  BY <1>1, <1>2 DEF TypeOK
<1>6. /\ Asking(m, s).at = "asked" /\ Asking(m, s).score = s /\ Asking(m, s).prev = m.score
      /\ Asking(m, s).secs = Threshold(m)
  BY DEF Asking, NoCall
<1> QED  BY <1>2, <1>4, <1>5, <1>6

-----------------------------------------------------------------------------
(* Every step of such a meeting keeps the rest of the invariant.           *)

LEMMA DatedKept == ASSUME IInv, Next PROVE Dated'
<1>1. Dated  BY DEF IInv
<1>2. CASE UNCHANGED outside  BY <1>1, <1>2 DEF Dated, outside
<1>3. CASE Change \/ RoomEnds \/ DayPasses  BY <1>1, <1>3 DEF Change, RoomEnds, DayPasses, Dated
<1> QED
  BY <1>2, <1>3
  DEF Next, OwnNext, Refuse, SwitchedOff, GiveUp, Rest, LookFails, Gather, StartClone, CallNext, MakeVoice, Store, NameLanguage,
      Promote, Agree, Discard, StoreFar, CallBreaks, CallFails, StoreFails, LaterFails, CaptureNext, CaptureAsk,
      CaptureGate, CaptureTake, DubLook, WatchLook, Reads, Compare, Find, Remove, WithdrawFails, AskDelete, Keeps, DeleteVoice,
      Sweep, Crash

LEMMA OneCallKept == ASSUME IInv, Next, seat' = "own" PROVE OneCall'
<1>0. seat = "own" /\ OneCall /\ TypeOK  BY OwnSteps DEF IInv
<1>1. CASE Aside  BY <1>0, <1>1, AsideSteps DEF OneCall, Active
<1>2. ASSUME NEW s \in Scores \cup {0}, StartClone(s) PROVE OneCall'
  <2> DEFINE m == Heard(Listened)
  <2>1. PICK c \in DOMAIN calls :
           DOMAIN calls' = DOMAIN calls /\ calls'[c].score = s /\ \A d \in DOMAIN calls \ {c} : calls'[d].at = "none"
    BY <1>2, StartSteps
  <2>2. s # 0  BY <1>2, Beginning
  <2> QED  BY <2>1, <2>2 DEF OneCall, Active
<1>3. CASE Crash  BY <1>3 DEF Crash, NoCall, OneCall, Active
<1>4. ASSUME NEW c \in DOMAIN calls, MakeVoice(c) PROVE OneCall'
  <2>1. Active(c)  BY <1>4 DEF MakeVoice, Active
  <2> QED  BY <1>0, <1>4, <2>1, Making DEF OneCall, Active
<1>5. ASSUME NEW c \in DOMAIN calls, CallGoesOn(c) PROVE OneCall'
  BY <1>0, <1>5, CallSteps DEF OneCall, Active, Same
<1> QED  BY <1>1, <1>2, <1>3, <1>4, <1>5, OwnSteps

LEMMA QuietKept == ASSUME IInv, Next, seat' = "own" PROVE Quiet'
<1>0. seat = "own" /\ Quiet /\ TypeOK  BY OwnSteps DEF IInv
<1>1. CASE Aside
  <2>1. UNCHANGED calls /\ mem'.watched = FALSE /\ reader' \in {reader, [p \in Paths |-> Idle]}  BY <1>0, <1>1, AsideSteps
  <2>2. Idle.at = "idle"  BY DEF Idle
  <2> QED  BY <1>0, <2>1, <2>2 DEF Quiet
<1>2. ASSUME NEW s \in Scores \cup {0}, StartClone(s) PROVE Quiet'
  <2> DEFINE m == Heard(Listened)
  <2>1. PICK c \in DOMAIN calls :
           DOMAIN calls' = DOMAIN calls /\ calls'[c].at = "asked" /\ \A d \in DOMAIN calls \ {c} : calls'[d].at = "none"
    BY <1>2, StartSteps
  <2>2. m \in Memory /\ m.watched = mem.watched  BY <1>0, Hearing
  <2>3. mem'.watched = mem.watched  BY <1>2, <2>2 DEF StartClone, Begun, Memory
  <2>4. UNCHANGED reader  BY <1>2 DEF StartClone
  <2> QED  BY <1>0, <2>1, <2>3, <2>4 DEF Quiet
<1>3. CASE Crash  BY <1>3 DEF Crash, NoCall, Fresh, Idle, Quiet
<1>4. ASSUME NEW c \in DOMAIN calls, MakeVoice(c) PROVE Quiet'
  <2>1. UNCHANGED <<mem, reader>>  BY <1>4 DEF MakeVoice
  <2> QED  BY <1>0, <1>4, <2>1, Making DEF Quiet
<1>5. ASSUME NEW c \in DOMAIN calls, CallGoesOn(c) PROVE Quiet'
  BY <1>0, <1>5, CallSteps DEF Quiet
<1> QED  BY <1>1, <1>2, <1>3, <1>4, <1>5, OwnSteps

LEMMA GroundedKept == ASSUME IInv, Next, seat' = "own" PROVE Grounded'
<1>0. seat = "own" /\ Grounded /\ OneCall /\ TypeOK /\ key \in Entries  BY OwnSteps, Parts DEF IInv
<1> SUFFICES ASSUME ~aged', ~HasVoice', mem'.score # 0
             PROVE  \E c \in DOMAIN calls' : /\ calls'[c].at \in {"asked", "made"} /\ calls'[c].prev = 0
                                             /\ calls'[c].score = mem'.score
  BY DEF Grounded
<1>a. ASSUME key'.voice = key.voice, UNCHANGED <<carried, aged>>
      PROVE  ~HasVoice /\ (mem.score # 0 => \E c \in DOMAIN calls :
                calls[c].at \in {"asked", "made"} /\ calls[c].prev = 0 /\ calls[c].score = mem.score)
  BY <1>0, <1>a DEF HasVoice, Grounded
<1>1. CASE Aside
  <2>1. UNCHANGED <<carried, calls, key>> /\ ~aged /\ mem'.score \in {mem.score, FirstScore}  BY <1>0, <1>1, AsideSteps
  <2>2. ~HasVoice /\ carried = 0  BY <2>1 DEF HasVoice
  <2>3. mem'.score = mem.score  BY <2>1, <2>2 DEF FirstScore
  <2> QED  BY <1>0, <2>1, <2>2, <2>3 DEF Grounded
<1>2. ASSUME NEW s \in Scores \cup {0}, StartClone(s)
      PROVE  \E c \in DOMAIN calls' : /\ calls'[c].at \in {"asked", "made"} /\ calls'[c].prev = 0
                                      /\ calls'[c].score = mem'.score
  <2> DEFINE m == Heard(Listened)
  <2>1. PICK c \in DOMAIN calls :
           DOMAIN calls' = DOMAIN calls /\ calls'[c].at = "asked" /\ calls'[c].score = s /\ calls'[c].prev = m.score
    BY <1>2, StartSteps
  <2>2. m \in Memory /\ (~HasVoice => m.score = 0)  BY <1>2, Beginning
  <2>3. UNCHANGED <<key, carried, aged>>  BY <1>2 DEF StartClone, outside
  <2>4. m.score = 0  BY <1>a, <2>2, <2>3
  <2>5. mem'.score = s  BY <1>2, <2>2 DEF StartClone, Begun, Memory
  <2> QED  BY <2>1, <2>4, <2>5
<1>3. CASE Crash  BY <1>3 DEF Crash, Fresh
<1>4. ASSUME NEW c \in DOMAIN calls, MakeVoice(c)
      PROVE  \E d \in DOMAIN calls' : /\ calls'[d].at \in {"asked", "made"} /\ calls'[d].prev = 0
                                      /\ calls'[d].score = mem'.score
  <2>1. UNCHANGED <<mem, key, carried, aged>>  BY <1>4 DEF MakeVoice, outside
  <2>2. PICK d \in DOMAIN calls : calls[d].at \in {"asked", "made"} /\ calls[d].prev = 0 /\ calls[d].score = mem.score
    BY <1>a, <2>1
  <2>3. d = c  BY <1>0, <1>4, <2>2 DEF OneCall, Active, MakeVoice
  <2> QED  BY <1>0, <1>4, <2>1, <2>2, <2>3, Making
<1>5. ASSUME NEW c \in DOMAIN calls, CallGoesOn(c)
      PROVE  \E d \in DOMAIN calls' : /\ calls'[d].at \in {"asked", "made"} /\ calls'[d].prev = 0
                                      /\ calls'[d].score = mem'.score
  <2>1. CASE Store(c)
    <3>1. calls[c].voice # NoVoice  BY <2>1 DEF IInv, Holding, Store, Voices, NoVoice
    <3>2. key'.voice = calls[c].voice  BY <1>0, <2>1 DEF Store, Entries
    <3> QED  BY <3>1, <3>2 DEF HasVoice
  <2>2. CASE ~Store(c)
    <3>1. UNCHANGED outside  BY <1>0, <1>5, CallSteps
    <3>2. UNCHANGED <<carried, aged>>  BY <3>1 DEF outside
    <3>3. key'.voice = key.voice
      BY <1>0, <1>5, <2>2 DEF CallGoesOn, NameLanguage, Promote, CallBreaks, CallFails, StoreFails, LaterFails, Entries
    <3>4. Active(c) /\ calls[c].score # 0  BY <1>0, <1>5, CallSteps DEF OneCall
    <3>5. CASE mem.score # 0
      <4>1. PICK d \in DOMAIN calls : calls[d].at \in {"asked", "made"} /\ calls[d].prev = 0 /\ calls[d].score = mem.score
        BY <1>a, <3>2, <3>3, <3>5
      <4>2. d = c  BY <1>0, <3>4, <4>1 DEF OneCall, Active
      <4> QED  BY <1>0, <1>5, <2>2, <4>1, <4>2, CallSteps
    <3>6. CASE mem.score = 0  BY <1>0, <1>5, <3>4, <3>6, CallSteps
    <3> QED  BY <3>5, <3>6
  <2> QED  BY <2>1, <2>2
<1> QED  BY <1>1, <1>2, <1>3, <1>4, <1>5, OwnSteps

LEMMA ProvisionalOn ==
    ASSUME IInv, Survive, KeyProvisional, key'.voice \in {key.voice, NoVoice}
    PROVE  KeyProvisional'
<1>1. Named /\ key \in Entries  BY Parts DEF IInv
<1> QED  BY <1>1 DEF Named, Survive, KeyProvisional, Entries

\* The voice in use is provisional after a call for a provisional one has gone on.
LEMMA ProvisionalCall ==
    ASSUME IInv, seat = "own", Survive, NEW c \in DOMAIN calls, MakeVoice(c) \/ CallGoesOn(c), calls[c].secs < MinSeconds
    PROVE  KeyProvisional'
<1>0. Below /\ Holding /\ TypeOK /\ key \in Entries  BY Parts DEF IInv
<1>1. CASE Store(c)
  <2>1. calls[c].voice \in Voices /\ account[calls[c].voice].secs = calls[c].secs  BY <1>0, <1>1 DEF Holding, Store
  <2>2. key'.voice = calls[c].voice /\ UNCHANGED account  BY <1>0, <1>1 DEF Store, Entries
  <2> QED  BY <2>1, <2>2 DEF KeyProvisional
<1>2. CASE ~Store(c)
  <2>1. Active(c)  BY <1>0, CallSteps DEF MakeVoice, Active
  <2>2. KeyProvisional  BY <1>0, <2>1 DEF Below
  <2>3. key'.voice = key.voice
    BY <1>0, <1>2 DEF MakeVoice, CallGoesOn, NameLanguage, Promote, CallBreaks, CallFails, StoreFails, LaterFails, Entries
  <2> QED  BY <2>2, <2>3, ProvisionalOn
<1> QED  BY <1>1, <1>2

\* A rung is left upwards, and the first is climbed by somebody who has no voice and gets none.
LEMMA StartBelow ==
    ASSUME IInv, NEW s \in Scores \cup {0}, StartClone(s), NEW m, m = Heard(Listened),
           Threshold(m) < MinSeconds \/ (mem'.rung # 0 /\ Ladder[mem'.rung] < MinSeconds)
    PROVE  Threshold(m) < MinSeconds /\ KeyProvisional
<1>1. TypeOK /\ Climbing /\ m \in Memory /\ m.rung = FirstRung /\ ~InFlight  BY Hearing, Beginning DEF IInv
<1>2. seat = "own"  BY DEF StartClone, Listening, Speaks
<1>3. mem'.rung = IF LastRung(m) THEN 0 ELSE m.rung + 1  BY <1>1 DEF StartClone, Begun, Memory
<1>4. m.rung \in 0..Len(Ladder)  BY <1>1 DEF Memory
<1>5. Threshold(m) < MinSeconds /\ m.rung # 0
  <2>1. CASE Threshold(m) < MinSeconds  BY <2>1, Sizes DEF Threshold
  <2>2. CASE mem'.rung # 0 /\ Ladder[mem'.rung] < MinSeconds
    <3>1. m.rung \in 1..Len(Ladder) /\ m.rung # Len(Ladder) /\ mem'.rung = m.rung + 1
      BY <1>3, <1>4, <2>2, Sizes DEF LastRung
    <3>2. m.rung + 1 \in 1..Len(Ladder) /\ Ladder[m.rung] < Ladder[m.rung + 1]  BY <3>1, LadderShape
    <3>3. Ladder[m.rung] \in Nat /\ Ladder[m.rung + 1] \in Nat  BY <3>1, <3>2, Sizes
    <3> QED  BY <2>2, <3>1, <3>2, <3>3, Sizes DEF Threshold
  <2> QED  BY <2>1, <2>2
<1>6. KeyProvisional
  <2>1. CASE m.rung = mem.rung
    <3>1. Ladder[mem.rung] < MinSeconds  BY <1>5, <2>1 DEF Threshold
    <3> QED  BY <1>1, <1>2, <1>5, <2>1, <3>1 DEF Climbing
  <2>2. CASE m.rung # mem.rung  BY <1>1, <2>2 DEF FirstRung, HasVoice, KeyProvisional
  <2> QED  BY <2>1, <2>2
<1> QED  BY <1>5, <1>6

LEMMA ClimbingKept == ASSUME IInv, Next, seat' = "own" PROVE Climbing' /\ Below'
<1>0. seat = "own" /\ Climbing /\ Below /\ OneCall /\ TypeOK /\ Survive  BY OwnSteps, Survival DEF IInv
<1>1. CASE Aside
  <2>1. UNCHANGED calls /\ key'.voice \in {key.voice, NoVoice}  BY <1>0, <1>1, AsideSteps
  <2>2. KeyProvisional => KeyProvisional'  BY <1>0, <2>1, ProvisionalOn
  <2>3. Below'  BY <1>0, <2>1, <2>2 DEF Below, Active
  <2>4. CASE mem'.rung \in {0, mem.rung}  BY <1>0, <2>1, <2>2, <2>3, <2>4 DEF Climbing, Active
  <2>5. CASE mem'.rung = FirstRung /\ mem'.rung # mem.rung /\ UNCHANGED key
    <3>1. ~HasVoice /\ ~InFlight  BY <2>5 DEF FirstRung
    <3>2. key'.voice = NoVoice  BY <2>5, <3>1 DEF HasVoice
    <3>3. \A c \in DOMAIN calls' : calls'[c].at = "none"  BY <2>1, <3>1 DEF InFlight
    <3> QED  BY <2>3, <3>2, <3>3 DEF Climbing, KeyProvisional, Active
  <2> QED  BY <1>0, <1>1, <2>3, <2>4, <2>5, AsideSteps
<1>2. ASSUME NEW s \in Scores \cup {0}, StartClone(s) PROVE Climbing' /\ Below'
  <2> DEFINE m == Heard(Listened)
  <2>1. PICK c \in DOMAIN calls :
           /\ DOMAIN calls' = DOMAIN calls /\ calls'[c].secs = Threshold(m)
           /\ \A d \in DOMAIN calls \ {c} : calls'[d].at = "none"
    BY <1>2, StartSteps
  <2>2. key'.voice = key.voice  BY <1>2 DEF StartClone
  <2>3. KeyProvisional => KeyProvisional'  BY <1>0, <2>2, ProvisionalOn
  <2>4. Threshold(m) < MinSeconds \/ (mem'.rung # 0 /\ Ladder[mem'.rung] < MinSeconds)
          => Threshold(m) < MinSeconds /\ KeyProvisional'
    BY <1>2, <2>3, StartBelow
  <2> HIDE DEF m
  <2>5. Below'  BY <2>1, <2>4 DEF Below, Active
  <2>6. Climbing'  BY <2>1, <2>4 DEF Climbing, Active
  <2> QED  BY <2>5, <2>6
<1>3. CASE Crash
  <2>1. \A c \in DOMAIN calls' : calls'[c].at = "none"  BY <1>3 DEF Crash, NoCall
  <2>2. mem'.rung = 0  BY <1>3 DEF Crash, Fresh
  <2> QED  BY <2>1, <2>2 DEF Climbing, Below, Active
<1>4. ASSUME NEW c \in DOMAIN calls, MakeVoice(c) \/ CallGoesOn(c) PROVE Climbing' /\ Below'
  <2>1. /\ DOMAIN calls' = DOMAIN calls /\ \A d \in DOMAIN calls \ {c} : calls'[d] = calls[d]
        /\ calls'[c].at = "none" \/ calls'[c].secs = calls[c].secs
    BY <1>0, <1>4, Making, CallSteps DEF Same
  <2>2. mem'.rung = mem.rung  BY <1>0, <1>4, CallSteps DEF MakeVoice
  <2>3. Active(c)  BY <1>0, <1>4, CallSteps DEF MakeVoice, Active
  <2>4. \A d \in DOMAIN calls \ {c} : ~Active(d)  BY <1>0, <2>3 DEF OneCall
  <2>5. calls[c].secs < MinSeconds => KeyProvisional'  BY <1>0, <1>4, ProvisionalCall
  <2>6. Below'  BY <2>1, <2>4, <2>5 DEF Below, Active
  <2>7. Climbing'  BY <1>0, <2>1, <2>2, <2>3, <2>4, <2>5 DEF Climbing, Active
  <2> QED  BY <2>6, <2>7
<1> QED  BY <1>1, <1>2, <1>3, <1>4, OwnSteps

-----------------------------------------------------------------------------
(* The theorems.                                                           *)

LEMMA InitInv == Init => IInv
<1> SUFFICES ASSUME Init PROVE IInv  OBVIOUS
<1>1. mem = Fresh /\ calls = [c \in 1..MaxCalls |-> NoCall] /\ reader = [p \in Paths |-> Idle] /\ key.voice = NoVoice /\ aged = FALSE
  BY DEF Init
<1>2. \A c \in DOMAIN calls : calls[c].at = "none"  BY <1>1 DEF NoCall
<1>3. \A p \in Paths : reader[p].at = "idle"  BY <1>1 DEF Idle
<1>4. mem.score = 0 /\ mem.rung = 0 /\ mem.watched = FALSE  BY <1>1 DEF Fresh
<1> QED
  BY <1>1, <1>2, <1>3, <1>4, InitTyped
  DEF IInv, OneCall, Active, Holding, Named, Handed, Quiet, Dated, Grounded, Climbing, Below

LEMMA NextInv == IInv /\ [Next]_vars => IInv'
<1> SUFFICES ASSUME IInv, [Next]_vars PROVE IInv'  OBVIOUS
<1>1. TypeOK'  BY NextTyped
<1>2. CASE Next
  <2>1. Holding' /\ Named' /\ Handed' /\ Dated'  BY <1>2, HoldingKept, NamedKept, HandedKept, DatedKept
  <2>2. CASE seat' = "own"
    BY <1>1, <1>2, <2>1, <2>2, OneCallKept, QuietKept, GroundedKept, ClimbingKept DEF IInv
  <2>3. CASE seat' # "own"
    BY <1>1, <2>1, <2>3 DEF IInv, OneCall, Quiet, Grounded, Climbing, Below
  <2> QED  BY <2>2, <2>3
<1>3. CASE UNCHANGED vars
  BY <1>1, <1>3
  DEF IInv, OneCall, Active, Holding, Named, Handed, Quiet, Dated, Grounded, HasVoice, Climbing, KeyProvisional, Below, vars, outside
<1> QED  BY <1>2, <1>3

LEMMA Invariant == Spec => []IInv
BY InitInv, NextInv, PTL DEF Spec

\* Every variable has its type, and no more upgrades of a voice are spent than the setting
\* allows (worker.py:3423).
THEOREM TypeCorrect == Spec => []TypeOK
<1>1. IInv => TypeOK  BY DEF IInv
<1> QED  BY <1>1, Invariant, PTL

\* While no clone is being made, a speaker taken for cloned has a voice: a score without a
\* voice belongs to the call that is making the first one, which takes it back if it fails.
THEOREM NobodyIsTakenForCloned == Spec => []BeliefIsTrue
<1>1. IInv => BeliefIsTrue  BY DEF IInv, BeliefIsTrue, Grounded, InFlight
<1> QED  BY <1>1, Invariant, PTL

\* A voice made from a full sample is never replaced by a provisional one: such a call is
\* begun only while nothing better exists, and nothing better is begun until it has ended.
THEOREM FullVoiceStays == Spec => ProvisionalNeverReturns
<1> DEFINE Step == seat = "own" /\ key.voice # NoVoice /\ key'.voice \notin {NoVoice, key.voice}
                     /\ account[key.voice].secs >= MinSeconds
                   => account[key'.voice].secs >= MinSeconds
<1>1. IInv /\ [Next]_vars => [Step]_vars
  <2> SUFFICES ASSUME IInv, Next, seat = "own", key.voice # NoVoice, key'.voice \notin {NoVoice, key.voice},
                      account[key.voice].secs >= MinSeconds
               PROVE  account[key'.voice].secs >= MinSeconds
    OBVIOUS
  <2>0. TypeOK /\ Quiet /\ Holding /\ Below /\ key \in Entries  BY Parts DEF IInv
  <2>1. PICK c \in DOMAIN calls : Store(c)  BY <2>0, KeySteps DEF StoreFar, Quiet
  <2>2. key'.voice = calls[c].voice /\ account[calls[c].voice].secs = calls[c].secs  BY <2>0, <2>1 DEF Store, Entries, Holding
  <2>3. Active(c) /\ calls[c].secs \in Nat  BY <2>0, <2>1 DEF Store, Active, TypeOK, Call
  <2>4. account[key.voice].secs \in Nat  BY <2>0 DEF TypeOK, Entries
  <2>5. ~KeyProvisional  BY <2>4, Sizes DEF KeyProvisional
  <2>6. ~(calls[c].secs < MinSeconds)  BY <2>0, <2>3, <2>5 DEF Below
  <2> QED  BY <2>2, <2>3, <2>6, Sizes
<1>2. [][Step]_vars <=> ProvisionalNeverReturns  BY DEF ProvisionalNeverReturns
<1> QED  BY <1>1, <1>2, Invariant, PTL DEF Spec

-----------------------------------------------------------------------------
(* A voice is destroyed for a withdrawal.  Samples, calls and voices carry *)
(* the number of withdrawals at their beginning: while it is the present   *)
(* one, the person consents and nobody is withdrawing the voice.           *)

NobodyWithdraws == \A p \in Paths : ~Withdrawing(p)

Past ==
    /\ mem.since <= leaves /\ \A c \in DOMAIN calls : calls[c].since <= leaves
    /\ \A v \in Voices : account[v].since <= leaves
Sampled == reader["capture"].at \in {"agreed", "free"} /\ mem.since = leaves => consent
Underway == seat = "far" => \A c \in DOMAIN calls : Active(c) /\ calls[c].since = leaves => consent /\ NobodyWithdraws
InUse == seat = "far" /\ key.voice # NoVoice /\ account[key.voice].since = leaves => consent /\ NobodyWithdraws
Born == \A c \in DOMAIN calls : calls[c].at \notin {"none", "asked"} => account[calls[c].voice].since = calls[c].since
Left(v) == account[v].name # "none" /\ account[v].since < leaves
Taken == \A p \in Paths : reader[p].at \in {"held", "removed"} => Left(reader[p].voice)
Destroyed == \A v \in asked \ misjudged : Left(v)

Since == Past /\ Sampled /\ Underway /\ InUse /\ Born /\ Taken /\ Destroyed

LEMMA SinceTypes ==
    ASSUME TypeOK
    PROVE  /\ leaves \in Nat /\ mem.since \in Nat /\ \A c \in DOMAIN calls : calls[c].since \in Nat
           /\ \A v \in Voices : account[v].since \in Nat
BY DEF TypeOK, Memory, Call

\* What keeps the beginning of the sample.
LEMMA SinceKept ==
    ASSUME TypeOK, NEW m \in Memory
    PROVE  /\ Fresh.since = 0 /\ Dropped(m).since = m.since /\ Heard(m).since = m.since
           /\ Adopted(m).since = m.since /\ Placed(m).since = m.since
           /\ \A s \in Scores : Begun(m, s).since = m.since
           /\ [m EXCEPT !.watched = TRUE].since = m.since
           /\ \A c \in DOMAIN calls, refusal \in BOOLEAN : Settled(c, m, refusal).since = m.since
BY DEF Memory, Fresh, Dropped, Heard, Adopted, Placed, Begun, Settled

LEMMA ListenedSince == ASSUME TypeOK PROVE Listened.since = mem.since /\ Heard(Listened).since = mem.since
<1>1. mem \in Memory  BY DEF TypeOK
<1>2. Adopted(mem) \in Memory /\ Adopted(mem).since = mem.since  BY <1>1, MemoryTypes, SinceKept
<1>3. Listened \in Memory /\ Listened.since = mem.since  BY <1>2, MemoryTypes, SinceKept DEF Listened
<1> QED  BY <1>3, SinceKept

\* A sample begins with a look at the consent, and nowhere else.
LEMMA SampleSteps ==
    ASSUME IInv, Next
    PROVE  mem'.since <= mem.since \/ (CaptureAsk /\ mem'.since = leaves)
<1>0. TypeOK /\ mem \in Memory /\ mem.since \in Nat  BY Parts, SinceTypes DEF IInv
<1>1. CASE UNCHANGED mem  BY <1>0, <1>1
<1>2. CASE mem'.since = mem.since \/ mem'.since = 0  BY <1>0, <1>2
<1>a. Dropped(mem).since = mem.since /\ Fresh.since = 0  BY <1>0, SinceKept
<1>3. CASE Change \/ DayPasses  BY <1>1, <1>3 DEF Change, DayPasses
<1>4. CASE RoomEnds  BY <1>0, <1>2, <1>a, <1>4 DEF RoomEnds
<1>5. CASE OwnNext
  <2>1. CASE Refuse
    <3>1. mem'.since = 0  BY <2>1 DEF Refuse, Fresh
    <3> QED  BY <1>2, <3>1
  <2>2. CASE SwitchedOff
    <3>1. mem'.since = mem.since  BY <1>0, <2>2 DEF SwitchedOff, Dropped, Memory
    <3> QED  BY <1>2, <3>1
  <2>3. CASE GiveUp  BY <1>2, <1>a, <2>3 DEF GiveUp
  <2>4. CASE Rest
    <3>1. Listened \in Memory  BY <1>0, Hearing
    <3>2. Dropped(Listened).since = Listened.since  BY <1>0, <3>1, SinceKept
    <3> QED  BY <1>0, <1>2, <2>4, <3>2, ListenedSince DEF Rest
  <2>5. ASSUME NEW s \in Scores \cup {0}, Gather(s) PROVE mem'.since = mem.since
    BY <1>0, <2>5, ListenedSince DEF Gather
  <2>6. ASSUME NEW s \in Scores \cup {0}, StartClone(s) PROVE mem'.since = mem.since
    <3> DEFINE m == Heard(Listened)
    <3>1. m \in Memory /\ s \in Scores  BY <2>6, Beginning
    <3>2. Begun(m, s).since = m.since  BY <1>0, <3>1, SinceKept
    <3> QED  BY <1>0, <2>6, <3>2, ListenedSince DEF StartClone
  <2>7. CASE LookFails  BY <1>0, <1>2, <2>7, SinceKept DEF LookFails
  <2> QED  BY <1>2, <1>5, <2>1, <2>2, <2>3, <2>4, <2>5, <2>6, <2>7 DEF OwnNext
<1>6. ASSUME NEW c \in DOMAIN calls, NEW refusal \in BOOLEAN, Settle(c, refusal) PROVE mem'.since = mem.since
  BY <1>0, <1>6, SinceKept DEF Settle
<1>7. ASSUME NEW c \in DOMAIN calls, CallBreaks(c) PROVE mem'.since = mem.since
  BY <1>6, <1>7 DEF CallBreaks, CallFails, StoreFails, LaterFails, Finish
<1>8. ASSUME NEW c \in DOMAIN calls, CallNext(c) PROVE mem'.since = mem.since
  BY <1>0, <1>8, SinceKept DEF CallNext, MakeVoice, Store, NameLanguage, Promote, Agree, Discard, StoreFar, Then, Finish
<1>9. CASE CaptureAsk
  <2> DEFINE since == IF mem.heard = 0 THEN leaves ELSE mem.since
             here == [mem EXCEPT !.watched = TRUE, !.since = IF mem.heard = 0 THEN leaves ELSE @]
  <2>1. here \in Memory /\ here.since = since  BY <1>0 DEF TypeOK, Memory
  <2>2. Dropped(here).since = since  BY <1>0, <2>1, SinceKept
  <2>3. mem' = here \/ mem' = Dropped(here)  BY <1>9 DEF CaptureAsk, Answer
  <2> HIDE DEF here
  <2>4. mem'.since = since  BY <2>1, <2>2, <2>3
  <2>5. CASE mem.heard = 0  BY <1>9, <2>4, <2>5
  <2>6. CASE mem.heard # 0  BY <1>2, <2>4, <2>6
  <2> QED  BY <2>5, <2>6
<1>10. CASE CaptureGate  BY <1>0, <1>2, <1>a, <1>10 DEF CaptureGate
<1>11. ASSUME NEW s \in Scores \cup {0}, CaptureTake(s) PROVE mem'.since = mem.since
  <2>1. Heard(mem) \in Memory /\ Heard(mem).since = mem.since  BY <1>0, MemoryTypes, SinceKept
  <2>2. Dropped(Heard(mem)).since = mem.since  BY <1>0, <2>1, SinceKept
  <2>3. mem' \in {Dropped(mem), Heard(mem), Dropped(Heard(mem))}  BY <1>11 DEF CaptureTake
  <2> QED  BY <1>a, <2>1, <2>2, <2>3
<1>12. CASE DubLook \/ WatchLook  BY <1>0, <1>2, <1>12, SinceKept DEF DubLook, WatchLook
<1>13. ASSUME NEW p \in Paths, Reads(p) PROVE mem'.since = mem.since
  BY <1>0, <1>13, SinceKept DEF Reads, Compare, Find, Remove, WithdrawFails, AskDelete, Answer
<1>14. ASSUME NEW v \in Voices, Keeps(v) PROVE UNCHANGED mem  BY <1>14 DEF Keeps, DeleteVoice, Sweep
<1>15. CASE Crash  BY <1>2, <1>a, <1>15 DEF Crash
<1> QED
  BY <1>1, <1>2, <1>3, <1>4, <1>5, <1>7, <1>8, <1>9, <1>10, <1>11, <1>12, <1>13, <1>14, <1>15
  DEF Next, CaptureNext

\* A look at the consent that finds none is the beginning of a withdrawal, and what it
\* takes is the voice in use; one that finds it lets a chunk in.
Looks ==
    /\ \A p \in Paths : Withdrawing(p)' => Withdrawing(p) \/ ~consent
    /\ \A p \in Paths : reader'[p].at \in {"held", "removed"} =>
          \/ reader[p].at \in {"held", "removed"} /\ reader'[p].voice = reader[p].voice
          \/ reader[p].at = "absent" /\ key.voice # NoVoice /\ reader'[p].voice = key.voice
    /\ reader'["capture"].at \in {"agreed", "free"} =>
          reader["capture"].at \in {"agreed", "free"} \/ (CaptureAsk /\ consent)

LEMMA LookSteps == ASSUME IInv, Next PROVE Looks
<1>0. TypeOK /\ reader \in [Paths -> Reader]  BY Parts DEF IInv
<1>1. "capture" \in Paths /\ "dub" \in Paths /\ "watch" \in Paths /\ Idle.at = "idle"  BY DEF Paths, Idle
<1>2. ASSUME NEW p \in Paths, NEW r, reader' = [reader EXCEPT ![p] = r],
             r.at \in {"absent", "held", "removed"} => Withdrawing(p) \/ ~consent,
             r.at \in {"held", "removed"} =>
                 \/ reader[p].at \in {"held", "removed"} /\ r.voice = reader[p].voice
                 \/ reader[p].at = "absent" /\ key.voice # NoVoice /\ r.voice = key.voice,
             r.at \in {"agreed", "free"} => p # "capture" \/ reader[p].at \in {"agreed", "free"} \/ (CaptureAsk /\ consent)
      PROVE  Looks
  <2>1. reader'[p] = r /\ \A q \in Paths \ {p} : reader'[q] = reader[q]  BY <1>0, <1>2
  <2>2. \A q \in Paths : Withdrawing(q)' => Withdrawing(q) \/ ~consent  BY <1>2, <2>1 DEF Withdrawing
  <2>3. \A q \in Paths : reader'[q].at \in {"held", "removed"} =>
           \/ reader[q].at \in {"held", "removed"} /\ reader'[q].voice = reader[q].voice
           \/ reader[q].at = "absent" /\ key.voice # NoVoice /\ reader'[q].voice = key.voice
    BY <1>2, <2>1
  <2>4. reader'["capture"].at \in {"agreed", "free"} =>
           reader["capture"].at \in {"agreed", "free"} \/ (CaptureAsk /\ consent)
    BY <1>1, <1>2, <2>1
  <2> QED  BY <2>2, <2>3, <2>4 DEF Looks
<1>3. ASSUME NEW p \in Paths, Leaves(p) PROVE Looks  BY <1>1, <1>2, <1>3 DEF Leaves
<1>4. ASSUME NEW p \in Paths, NEW at, Goes(p, at),
             at \in {"absent", "held", "removed"} => Withdrawing(p) \/ ~consent,
             at \in {"held", "removed"} => reader[p].at \in {"held", "removed"},
             at \in {"agreed", "free"} => p # "capture" \/ reader[p].at \in {"agreed", "free"} \/ (CaptureAsk /\ consent)
      PROVE  Looks
  <2> DEFINE r == [reader[p] EXCEPT !.at = at]
  <2>1. r.at = at /\ r.voice = reader[p].voice  BY <1>0 DEF Reader
  <2>2. reader' = [reader EXCEPT ![p] = r]  BY <1>0, <1>4 DEF Goes
  <2> HIDE DEF r
  <2> QED  BY <1>2, <1>4, <2>1, <2>2
<1>5. CASE UNCHANGED reader  BY <1>5 DEF Looks, Withdrawing
<1>6. ASSUME NEW p \in Paths, Goes(p, "absent"), ~consent PROVE Looks  BY <1>4, <1>6
<1>7. CASE Change \/ RoomEnds  BY <1>5, <1>7 DEF Change, RoomEnds
<1>8. CASE DayPasses \/ Crash
  <2>1. \A p \in Paths : reader'[p].at = "idle"  BY <1>1, <1>8 DEF DayPasses, Crash
  <2> QED  BY <1>1, <2>1 DEF Looks, Withdrawing
<1>9. CASE OwnNext  BY <1>5, <1>9 DEF OwnNext, Refuse, SwitchedOff, GiveUp, Rest, LookFails, Gather, StartClone
<1>10. ASSUME NEW c \in DOMAIN calls, CallNext(c) \/ CallBreaks(c) PROVE Looks
  BY <1>5, <1>10 DEF CallNext, MakeVoice, Store, NameLanguage, Promote, Agree, Discard, StoreFar,
                     CallBreaks, CallFails, StoreFails, LaterFails
<1>11. CASE CaptureAsk
  <2>1. CASE consent /\ Goes("capture", "agreed")  BY <1>1, <1>4, <1>11, <2>1
  <2>2. CASE ~consent /\ Goes("capture", "absent")  BY <1>1, <1>6, <2>2
  <2>3. CASE UNCHANGED reader  BY <1>5, <2>3
  <2> QED  BY <1>11, <2>1, <2>2, <2>3 DEF CaptureAsk, Answer
<1>12. CASE CaptureGate
  <2>1. CASE Leaves("capture")  BY <1>1, <1>3, <2>1
  <2>2. CASE Goes("capture", "free")  BY <1>1, <1>4, <1>12, <2>2 DEF CaptureGate
  <2> QED  BY <1>12, <2>1, <2>2 DEF CaptureGate
<1>13. ASSUME NEW s \in Scores \cup {0}, CaptureTake(s) PROVE Looks  BY <1>1, <1>3, <1>13 DEF CaptureTake
<1>14. CASE DubLook \/ WatchLook
  <2>1. [at |-> "listed", voice |-> key.voice].at = "listed"  OBVIOUS
  <2> QED  BY <1>1, <1>2, <1>14, <2>1 DEF DubLook, WatchLook
<1>15. ASSUME NEW p \in Paths, Compare(p) PROVE Looks
  BY <1>3, <1>6, <1>15 DEF Compare, Answer
<1>16. ASSUME NEW p \in Paths, Find(p) PROVE Looks
  <2>1. CASE Leaves(p)  BY <1>3, <2>1
  <2>2. CASE key.voice # NoVoice /\ reader' = [reader EXCEPT ![p] = [at |-> "held", voice |-> key.voice]]
    <3>1. Withdrawing(p) /\ reader[p].at = "absent"  BY <1>16 DEF Find, Withdrawing
    <3>2. [at |-> "held", voice |-> key.voice].at = "held" /\ [at |-> "held", voice |-> key.voice].voice = key.voice  OBVIOUS
    <3> QED  BY <1>2, <2>2, <3>1, <3>2
  <2> QED  BY <1>16, <2>1, <2>2 DEF Find
<1>17. ASSUME NEW p \in Paths, Remove(p) PROVE Looks
  <2>1. CASE Leaves(p)  BY <1>3, <2>1
  <2>2. CASE Goes(p, "removed")
    <3>1. Withdrawing(p) /\ reader[p].at = "held"  BY <1>17 DEF Remove, Withdrawing
    <3> QED  BY <1>4, <2>2, <3>1
  <2> QED  BY <1>17, <2>1, <2>2 DEF Remove
<1>18. ASSUME NEW p \in Paths, AskDelete(p) PROVE Looks  BY <1>3, <1>18 DEF AskDelete
<1>19. ASSUME NEW v \in Voices, Keeps(v) PROVE Looks  BY <1>5, <1>19 DEF Keeps, DeleteVoice, Sweep
<1>20. ASSUME NEW p \in Paths, WithdrawFails(p) PROVE Looks  BY <1>3, <1>20 DEF WithdrawFails
<1> QED
  BY <1>7, <1>8, <1>9, <1>10, <1>11, <1>12, <1>13, <1>14, <1>15, <1>16, <1>17, <1>18, <1>19, <1>20
  DEF Next, CaptureNext, Reads

\* A call goes on for the same sample, ends, or begins for the sample that is heard; one of
\* the far side begins after a look at the consent, and while nobody withdraws.
Begins(c) ==
    /\ calls'[c].at = "asked" /\ calls'[c].since = mem.since
    /\ seat = "far" => reader["capture"].at = "free" /\ NobodyWithdraws
Nods(c) ==
    calls'[c].at = "agreed" =>
        calls[c].at \in {"made", "agreed"} /\ calls'[c].voice = calls[c].voice /\ (consent \/ calls[c].at = "agreed")
CallsGo ==
    /\ DOMAIN calls' = DOMAIN calls
    /\ \A c \in DOMAIN calls :
          \/ (calls'[c].at = "none" /\ calls'[c].since \in {0, calls[c].since}) \/ Begins(c)
          \/ /\ Active(c) /\ calls'[c].since = calls[c].since
             /\ \/ calls'[c].at = "asked" \/ account'[calls'[c].voice].since = calls[c].since
                \/ calls[c].at # "asked" /\ calls'[c].voice = calls[c].voice
             /\ Nods(c)

LEMMA CallsGoOn ==
    ASSUME DOMAIN calls' = DOMAIN calls, NEW c \in DOMAIN calls, \A d \in DOMAIN calls \ {c} : calls'[d] = calls[d],
           \/ (calls'[c].at = "none" /\ calls'[c].since = 0) \/ Begins(c)
           \/ /\ Active(c) /\ calls'[c].since = calls[c].since /\ Nods(c)
              /\ account'[calls'[c].voice].since = calls[c].since \/ (calls[c].at # "asked" /\ calls'[c].voice = calls[c].voice)
    PROVE  CallsGo
BY DEF CallsGo, Active, Nods

LEMMA CallsSteps == ASSUME IInv, Next PROVE CallsGo
<1>0. TypeOK /\ calls \in Calls  BY Parts DEF IInv
<1>1. CASE UNCHANGED calls  BY <1>1 DEF CallsGo, Active, Nods
<1>2. ASSUME NEW c \in DOMAIN calls, calls' = [calls EXCEPT ![c] = NoCall] PROVE CallsGo
  <2>1. DOMAIN calls' = DOMAIN calls /\ calls'[c].at = "none" /\ calls'[c].since = 0 /\ \A d \in DOMAIN calls \ {c} : calls'[d] = calls[d]
    BY <1>0, <1>2 DEF Calls, NoCall
  <2> QED  BY <2>1, CallsGoOn
<1>3. ASSUME NEW c \in DOMAIN calls, calls[c].at \notin {"none", "asked"}, NEW at, calls' = [calls EXCEPT ![c].at = at],
             at = "agreed" => calls[c].at = "made" /\ consent
      PROVE  CallsGo
  <2>1. /\ DOMAIN calls' = DOMAIN calls /\ calls'[c].at = at /\ calls'[c].since = calls[c].since /\ calls'[c].voice = calls[c].voice
        /\ \A d \in DOMAIN calls \ {c} : calls'[d] = calls[d]
    BY <1>0, <1>3 DEF Calls, Call
  <2> QED  BY <1>3, <2>1, CallsGoOn DEF Active, Nods
<1>4. ASSUME NEW call, FreeCalls # {}, Start(call), call.at = "asked", call.since = mem.since,
             seat = "far" => reader["capture"].at = "free" /\ NobodyWithdraws
      PROVE  CallsGo
  <2>1. PICK c \in DOMAIN calls : calls' = [calls EXCEPT ![c] = call]  BY <1>4, Starts
  <2>2. DOMAIN calls' = DOMAIN calls /\ calls'[c] = call /\ \A d \in DOMAIN calls \ {c} : calls'[d] = calls[d]
    BY <1>0, <2>1 DEF Calls
  <2>3. Begins(c)  BY <1>4, <2>2 DEF Begins
  <2> QED  BY <2>2, <2>3, CallsGoOn
<1>5. CASE Change \/ RoomEnds \/ DayPasses  BY <1>1, <1>5 DEF Change, RoomEnds, DayPasses
<1>6. ASSUME NEW s \in Scores \cup {0}, StartClone(s) PROVE CallsGo
  <2> DEFINE call == Asking(Heard(Listened), s)
  <2>1. FreeCalls # {} /\ Start(call) /\ seat = "own"  BY <1>6 DEF StartClone, Listening, Speaks
  <2>2. call.at = "asked" /\ call.since = mem.since
    <3>1. call.at = "asked" /\ call.since = Heard(Listened).since  BY DEF Asking, NoCall
    <3> QED  BY <1>0, <3>1, ListenedSince
  <2> HIDE DEF call
  <2> QED  BY <1>4, <2>1, <2>2
<1>7. CASE OwnNext  BY <1>1, <1>6, <1>7 DEF OwnNext, Refuse, SwitchedOff, GiveUp, Rest, LookFails, Gather
<1>8. ASSUME NEW c \in DOMAIN calls, MakeVoice(c) PROVE CallsGo
  <2>1. Created(c) /\ Active(c) /\ calls' = [calls EXCEPT ![c].at = "made", ![c].voice = NextVoice]
    BY <1>8 DEF MakeVoice, Active
  <2>2. /\ DOMAIN calls' = DOMAIN calls /\ calls'[c].since = calls[c].since /\ calls'[c].voice = NextVoice
        /\ calls'[c].at = "made"
        /\ \A d \in DOMAIN calls \ {c} : calls'[d] = calls[d]
    BY <1>0, <2>1 DEF Calls, Call
  <2>3. account'[NextVoice].since = calls[c].since  BY <1>0, <2>1, VoiceMade
  <2> QED  BY <2>1, <2>2, <2>3, CallsGoOn DEF Nods
<1>9. ASSUME NEW c \in DOMAIN calls, CallNext(c) PROVE CallsGo
  BY <1>2, <1>3, <1>8, <1>9 DEF CallNext, Store, NameLanguage, Promote, Agree, Discard, StoreFar, Then, Finish
<1>10. ASSUME NEW c \in DOMAIN calls, CallBreaks(c) PROVE CallsGo
  BY <1>2, <1>10 DEF CallBreaks, CallFails, StoreFails, LaterFails, Settle, Finish
<1>11. ASSUME NEW s \in Scores \cup {0}, CaptureTake(s) PROVE CallsGo
  <2> DEFINE call == [NoCall EXCEPT !.at = "asked", !.secs = MinSeconds, !.since = Heard(mem).since]
  <2>1. \/ UNCHANGED calls
        \/ FreeCalls # {} /\ Start(call) /\ NobodyWithdraws /\ reader["capture"].at = "free"
    BY <1>11 DEF CaptureTake, NobodyWithdraws
  <2>2. call.at = "asked" /\ call.since = mem.since
    <3>1. call.at = "asked" /\ call.since = Heard(mem).since  BY DEF NoCall
    <3>2. Heard(mem).since = mem.since  BY <1>0, SinceKept DEF TypeOK
    <3> QED  BY <3>1, <3>2
  <2> HIDE DEF call
  <2> QED  BY <1>1, <1>4, <2>1, <2>2
<1>12. CASE CaptureAsk \/ CaptureGate \/ DubLook \/ WatchLook
  BY <1>1, <1>12 DEF CaptureAsk, CaptureGate, DubLook, WatchLook
<1>13. ASSUME NEW p \in Paths, Reads(p) PROVE UNCHANGED calls  BY <1>13 DEF Reads, Compare, Find, Remove, WithdrawFails, AskDelete
<1>14. ASSUME NEW v \in Voices, Keeps(v) PROVE UNCHANGED calls  BY <1>14 DEF Keeps, DeleteVoice, Sweep
<1>15. CASE Crash  BY <1>0, <1>15 DEF Crash, NoCall, CallsGo
<1> QED
  BY <1>1, <1>5, <1>7, <1>9, <1>10, <1>11, <1>12, <1>13, <1>14, <1>15 DEF Next, CaptureNext

\* Voices are asked about when they were removed, or just made and read to be without consent;
\* and they are no younger than what was heard.
LEMMA AskedSteps ==
    ASSUME IInv, Next
    PROVE  /\ \A v \in asked' \ misjudged' :
                 \/ v \in asked \ misjudged \/ (\E p \in Paths : reader[p].at = "removed" /\ v = reader[p].voice)
                 \/ \E c \in DOMAIN calls : seat = "far" /\ calls[c].at = "made" /\ ~consent /\ v = calls[c].voice
           /\ \A v \in Voices : /\ \/ account'[v].since = account[v].since
                                   \/ \E c \in DOMAIN calls : account'[v].since = calls[c].since
                                /\ account'[v].born \in {account[v].born, leaves}
<1>0. TypeOK /\ Holding  BY DEF IInv
<1> DEFINE Kept(v) == account'[v].since = account[v].since /\ account'[v].born = account[v].born
<1>1. ASSUME NEW p \in Paths, AskDelete(p)
      PROVE  asked' = asked \cup {reader[p].voice} /\ UNCHANGED misjudged /\ reader[p].at = "removed"
  BY <1>1 DEF AskDelete
<1>2. ASSUME NEW c \in DOMAIN calls, Created(c), NEW v \in Voices
      PROVE  Kept(v) \/ (account'[v].since = calls[c].since /\ account'[v].born = leaves)
  BY <1>0, <1>2, VoiceMade
<1>3. ASSUME NEW w \in Voices, NEW v \in Voices, Gone(w) PROVE Kept(v)  BY <1>0, <1>3, VoiceRenamed DEF Gone
<1>4. ASSUME NEW c \in DOMAIN calls, calls[c].at = "kept", Promoted(c), NEW v \in Voices PROVE Kept(v)
  <2>1. calls[c].voice \in Voices  BY <1>0, <1>4 DEF Holding
  <2> QED  BY <1>0, <1>4, <2>1, VoiceRenamed DEF Promoted
<1>5. ASSUME NEW c \in DOMAIN calls, CallNext(c)
      PROVE  /\ \/ UNCHANGED <<asked, misjudged>>
                \/ /\ asked' = asked \cup {calls[c].voice} /\ seat = "far" /\ calls[c].at = "made"
                   /\ (~consent /\ UNCHANGED misjudged) \/ misjudged' = misjudged \cup {calls[c].voice}
             /\ UNCHANGED account \/ Created(c) \/ (calls[c].at = "kept" /\ Promoted(c))
  BY <1>5 DEF CallNext, MakeVoice, Store, NameLanguage, Promote, Agree, Discard, StoreFar
<1>6. ASSUME NEW c \in DOMAIN calls, CallBreaks(c)
      PROVE  UNCHANGED <<asked, misjudged>> /\ (UNCHANGED account \/ Created(c) \/ (calls[c].at = "kept" /\ Promoted(c)))
  BY <1>6 DEF CallBreaks, CallFails, StoreFails, LaterFails
<1>7. ASSUME NEW v \in Voices, Keeps(v) PROVE UNCHANGED <<asked, misjudged>> /\ (UNCHANGED account \/ Gone(v))
  BY <1>7 DEF Keeps, DeleteVoice, Sweep
<1>8. CASE Crash
  <2>1. UNCHANGED <<asked, misjudged>> /\ (UNCHANGED account \/ \E c \in DOMAIN calls : Created(c))  BY <1>8 DEF Crash
  <2> QED  BY <1>2, <2>1
<1>9. CASE Change \/ RoomEnds \/ DayPasses \/ OwnNext \/ CaptureNext \/ DubLook \/ WatchLook
  <2>1. UNCHANGED <<asked, misjudged, account>>
    BY <1>9 DEF Change, RoomEnds, DayPasses, OwnNext, Refuse, SwitchedOff, GiveUp, Rest, LookFails, Gather, StartClone,
                CaptureNext, CaptureAsk, CaptureGate, CaptureTake, DubLook, WatchLook
  <2> QED  BY <2>1
<1>10. ASSUME NEW p \in Paths, Reads(p) PROVE UNCHANGED account /\ (UNCHANGED <<asked, misjudged>> \/ AskDelete(p))
  BY <1>10 DEF Reads, Compare, Find, Remove, WithdrawFails, AskDelete
<1> QED
  BY <1>1, <1>2, <1>3, <1>4, <1>5, <1>6, <1>7, <1>8, <1>9, <1>10 DEF Next

LEMMA OutsideSteps == ASSUME Next, ~Change PROVE UNCHANGED seat /\ UNCHANGED consent /\ UNCHANGED leaves
<1>1. CASE UNCHANGED outside  BY <1>1 DEF outside
<1>2. CASE RoomEnds \/ DayPasses  BY <1>2 DEF RoomEnds, DayPasses
<1>3. CASE OwnNext  BY <1>1, <1>3 DEF OwnNext, Refuse, SwitchedOff, GiveUp, Rest, LookFails, Gather, StartClone
<1>4. ASSUME NEW c \in DOMAIN calls, CallNext(c) \/ CallBreaks(c) PROVE UNCHANGED outside
  BY <1>4 DEF CallNext, MakeVoice, Store, NameLanguage, Promote, Agree, Discard, StoreFar,
              CallBreaks, CallFails, StoreFails, LaterFails
<1>5. CASE CaptureNext \/ DubLook \/ WatchLook
  BY <1>1, <1>5 DEF CaptureNext, CaptureAsk, CaptureGate, CaptureTake, DubLook, WatchLook
<1>6. ASSUME NEW p \in Paths, Reads(p) PROVE UNCHANGED outside
  BY <1>6 DEF Reads, Compare, Find, Remove, WithdrawFails, AskDelete
<1>7. ASSUME NEW v \in Voices, Keeps(v) PROVE UNCHANGED outside  BY <1>7 DEF Keeps, DeleteVoice, Sweep
<1>8. CASE Crash  BY <1>1, <1>8 DEF Crash
<1> QED  BY <1>1, <1>2, <1>3, <1>4, <1>5, <1>6, <1>7, <1>8 DEF Next

\* While nobody changes their mind.
LEMMA SinceOn == ASSUME IInv, TypeOK', Since, Next, ~Change PROVE Since'
<1>0. TypeOK /\ Holding /\ Named /\ Handed /\ Quiet /\ reader \in [Paths -> Reader] /\ asked \subseteq Voices /\ key \in Entries
  BY Parts DEF IInv
<1>1. UNCHANGED <<seat, consent, leaves>> /\ Survive  BY OutsideSteps, Survival
<1>2. Past /\ Sampled /\ Underway /\ InUse /\ Born /\ Taken /\ Destroyed  BY DEF Since
<1>3. CallsGo /\ Looks  BY CallsSteps, LookSteps
<1>4. /\ leaves \in Nat /\ mem.since \in Nat /\ mem'.since \in Nat /\ \A c \in DOMAIN calls : calls[c].since \in Nat
      /\ \A v \in Voices : account[v].since \in Nat
  <2>1. leaves \in Nat /\ mem.since \in Nat /\ (\A c \in DOMAIN calls : calls[c].since \in Nat)
        /\ \A v \in Voices : account[v].since \in Nat
    BY <1>0, SinceTypes
  <2>2. mem' \in Memory  BY DEF TypeOK
  <2> QED  BY <2>1, <2>2 DEF Memory
<1>5. Past'
  <2>1. mem'.since <= leaves  BY <1>2, <1>4, SampleSteps DEF Past
  <2>2. ASSUME NEW c \in DOMAIN calls' PROVE calls'[c].since <= leaves
    <3>1. c \in DOMAIN calls  BY <1>3 DEF CallsGo
    <3>2. calls'[c].since \in {0, mem.since, calls[c].since}  BY <1>3, <3>1 DEF CallsGo, Begins
    <3> QED  BY <1>2, <1>4, <3>1, <3>2 DEF Past
  <2>3. ASSUME NEW v \in Voices PROVE account'[v].since <= leaves
    BY <1>2, AskedSteps DEF Past
  <2> QED  BY <1>1, <2>1, <2>2, <2>3 DEF Past
<1>6. Sampled'
  <2> SUFFICES ASSUME reader'["capture"].at \in {"agreed", "free"}, mem'.since = leaves PROVE consent
    BY <1>1 DEF Sampled
  <2>1. CASE CaptureAsk /\ consent  BY <2>1
  <2>2. CASE reader["capture"].at \in {"agreed", "free"}
    <3>1. ~CaptureAsk  BY <2>2 DEF CaptureAsk
    <3>2. mem.since = leaves
      <4>1. mem'.since <= mem.since  BY <3>1, SampleSteps
      <4>2. mem.since <= leaves  BY <1>2 DEF Past
      <4> QED  BY <1>4, <4>1, <4>2
    <3> QED  BY <1>2, <2>2, <3>2 DEF Sampled
  <2> QED  BY <1>3, <2>1, <2>2 DEF Looks
<1>7. ASSUME consent, NobodyWithdraws PROVE consent' /\ NobodyWithdraws'
  BY <1>1, <1>3, <1>7 DEF NobodyWithdraws, Looks
<1>8. Underway'
  <2> SUFFICES ASSUME seat = "far", NEW c \in DOMAIN calls, Active(c)', calls'[c].since = leaves
               PROVE  consent /\ NobodyWithdraws
    BY <1>1, <1>3, <1>7 DEF Underway, CallsGo
  <2>1. CASE Begins(c)
    <3>1. reader["capture"].at = "free" /\ NobodyWithdraws /\ mem.since = leaves  BY <2>1 DEF Begins
    <3> QED  BY <1>2, <3>1 DEF Sampled
  <2>2. CASE Active(c) /\ calls'[c].since = calls[c].since  BY <1>2, <2>2 DEF Underway
  <2> QED  BY <1>3, <2>1, <2>2 DEF CallsGo, Active
<1>9. InUse'
  <2> SUFFICES ASSUME seat = "far", key'.voice # NoVoice, account'[key'.voice].since = leaves
               PROVE  consent /\ NobodyWithdraws
    BY <1>1, <1>7 DEF InUse
  <2>1. CASE key'.voice = key.voice
    <3>1. key.voice \in Voices  BY <1>0, <2>1 DEF Entries
    <3>2. account[key.voice].since = leaves  BY <1>0, <1>1, <2>1, <3>1 DEF Named, Survive
    <3> QED  BY <1>2, <2>1, <3>2 DEF InUse
  <2>2. ASSUME NEW c \in DOMAIN calls, Store(c) \/ StoreFar(c) PROVE consent /\ NobodyWithdraws
    <3>1. key'.voice = calls[c].voice /\ calls[c].at \in {"made", "agreed"}  BY <1>0, <2>2 DEF Store, StoreFar, Entries
    <3>2. /\ calls[c].voice \in Voices /\ account[calls[c].voice].name # "none"
          /\ account[calls[c].voice].since = calls[c].since
      BY <1>0, <1>2, <3>1 DEF Holding, Born
    <3>3. calls[c].since = leaves  BY <1>1, <3>1, <3>2 DEF Survive
    <3> QED  BY <1>2, <3>1, <3>3 DEF Underway, Active
  <2> QED  BY <2>1, <2>2, KeySteps
<1>10. Born'
  <2> SUFFICES ASSUME NEW c \in DOMAIN calls, calls'[c].at \notin {"none", "asked"}
               PROVE  account'[calls'[c].voice].since = calls'[c].since
    BY <1>3 DEF Born, CallsGo
  <2>1. Active(c) /\ calls'[c].since = calls[c].since  BY <1>3 DEF CallsGo, Begins
  <2>2. CASE account'[calls'[c].voice].since = calls[c].since  BY <2>1, <2>2
  <2>3. CASE calls[c].at # "asked" /\ calls'[c].voice = calls[c].voice
    <3>1. calls[c].at \notin {"none", "asked"}  BY <2>1, <2>3 DEF Active
    <3>2. /\ calls[c].voice \in Voices /\ account[calls[c].voice].name # "none"
          /\ account[calls[c].voice].since = calls[c].since
      BY <1>0, <1>2, <3>1 DEF Holding, Born
    <3> QED  BY <1>1, <2>1, <2>3, <3>2 DEF Survive
  <2> QED  BY <1>3, <2>2, <2>3 DEF CallsGo, Begins
<1>11. ASSUME NEW v \in Voices, Left(v) PROVE Left(v)'  BY <1>1, <1>11 DEF Left, Survive
<1>12. ASSUME NEW p \in Paths, reader[p].at \in {"held", "removed"} PROVE reader[p].voice \in Voices /\ Left(reader[p].voice)
  BY <1>0, <1>2, <1>12 DEF Handed, Reader, Taken
<1>13. Taken'
  <2> SUFFICES ASSUME NEW p \in Paths, reader'[p].at \in {"held", "removed"}
               PROVE  \E v \in Voices : v = reader'[p].voice /\ Left(v)'
    BY DEF Taken, Left
  <2>1. CASE reader[p].at \in {"held", "removed"} /\ reader'[p].voice = reader[p].voice
    <3>1. PICK v \in Voices : v = reader[p].voice  BY <1>12, <2>1
    <3>2. Left(v)'  BY <1>11, <1>12, <2>1, <3>1
    <3> QED  BY <2>1, <3>1, <3>2
  <2>2. CASE reader[p].at = "absent" /\ key.voice # NoVoice /\ reader'[p].voice = key.voice
    <3>1. PICK v \in Voices : v = key.voice  BY <1>0, <2>2 DEF Entries
    <3>2. seat = "far"
      <4>1. seat \in {"own", "far"}  BY <1>0 DEF TypeOK
      <4> QED  BY <1>0, <2>2, <4>1 DEF Quiet
    <3>3. Withdrawing(p)  BY <2>2 DEF Withdrawing
    <3>4. account[v].since # leaves  BY <1>2, <2>2, <3>1, <3>2, <3>3 DEF InUse, NobodyWithdraws
    <3>5. account[v].since < leaves  BY <1>2, <1>4, <3>4 DEF Past
    <3>6. Left(v)  BY <1>0, <2>2, <3>1, <3>5 DEF Left, Named
    <3>7. Left(v)'  BY <1>11, <3>6
    <3> QED  BY <2>2, <3>1, <3>7
  <2> QED  BY <1>3, <2>1, <2>2 DEF Looks
<1>14. Destroyed'
  <2> SUFFICES ASSUME NEW v \in asked' \ misjudged' PROVE Left(v)'  BY DEF Destroyed
  <2>1. v \in Voices /\ Left(v)
    <3>1. CASE v \in asked \ misjudged  BY <1>0, <1>2, <3>1 DEF Destroyed
    <3>2. ASSUME NEW p \in Paths, reader[p].at = "removed", v = reader[p].voice PROVE v \in Voices /\ Left(v)
      BY <1>12, <3>2
    <3>3. ASSUME NEW c \in DOMAIN calls, seat = "far", calls[c].at = "made", ~consent, v = calls[c].voice
          PROVE  v \in Voices /\ Left(v)
      <4>1. v \in Voices /\ account[v].name # "none" /\ account[v].since = calls[c].since
        BY <1>0, <1>2, <3>3 DEF Holding, Born
      <4>2. calls[c].since # leaves /\ calls[c].since <= leaves  BY <1>2, <3>3 DEF Underway, Active, Past
      <4> QED  BY <1>4, <4>1, <4>2 DEF Left
    <3> QED  BY <3>1, <3>2, <3>3, AskedSteps
  <2> QED  BY <1>11, <2>1
<1> QED  BY <1>5, <1>6, <1>8, <1>9, <1>10, <1>13, <1>14 DEF Since

\* A withdrawal leaves everything that had begun behind it.
LEMMA SinceChanged == ASSUME IInv, Since, Change PROVE Since'
<1>0. TypeOK /\ asked \subseteq Voices /\ Handed /\ reader \in [Paths -> Reader]  BY Parts DEF IInv
<1>1. UNCHANGED <<seat, mem, calls, reader, key, account, asked, misjudged>>  BY DEF Change
<1>2. Past /\ Sampled /\ Underway /\ InUse /\ Born /\ Taken /\ Destroyed  BY DEF Since
<1>3. /\ leaves \in Nat /\ mem.since \in Nat /\ \A c \in DOMAIN calls : calls[c].since \in Nat
      /\ \A v \in Voices : account[v].since \in Nat
  BY <1>0, SinceTypes
<1>4. (leaves' = leaves /\ (consent => consent')) \/ leaves' = leaves + 1
  <2>1. CASE UNCHANGED consent /\ UNCHANGED leaves  BY <2>1
  <2>2. CASE consent' = ~consent /\ leaves' = leaves + (IF consent THEN 1 ELSE 0)
    <3>1. CASE consent  BY <2>2, <3>1
    <3>2. CASE ~consent  BY <1>3, <2>2, <3>2
    <3> QED  BY <3>1, <3>2
  <2> QED  BY <2>1, <2>2 DEF Change
<1>5. NobodyWithdraws' <=> NobodyWithdraws  BY <1>1 DEF NobodyWithdraws, Withdrawing
<1>6. leaves' \in Nat /\ leaves <= leaves' /\ (leaves' = leaves => (consent => consent'))  BY <1>3, <1>4
<1>7. ASSUME NEW n \in Nat, n <= leaves PROVE n <= leaves' /\ (n = leaves' => n = leaves /\ leaves' = leaves)
  BY <1>3, <1>6, <1>7
<1>8. Past'  BY <1>1, <1>2, <1>3, <1>7 DEF Past
<1>9. Sampled'
  <2>1. mem.since = leaves' => mem.since = leaves /\ leaves' = leaves  BY <1>2, <1>3, <1>7 DEF Past
  <2> QED  BY <1>1, <1>2, <1>6, <2>1 DEF Sampled
<1>10. Underway'
  <2>1. \A c \in DOMAIN calls : calls[c].since = leaves' => calls[c].since = leaves /\ leaves' = leaves
    BY <1>2, <1>3, <1>7 DEF Past
  <2> QED  BY <1>1, <1>2, <1>5, <1>6, <2>1 DEF Underway, Active
<1>11. InUse'
  <2>1. key.voice # NoVoice => key.voice \in Voices  BY <1>0 DEF TypeOK
  <2>2. key.voice # NoVoice /\ account[key.voice].since = leaves' => account[key.voice].since = leaves /\ leaves' = leaves
    BY <1>2, <1>3, <1>7, <2>1 DEF Past
  <2> QED  BY <1>1, <1>2, <1>5, <1>6, <2>2 DEF InUse
<1>12. Born'  BY <1>1, <1>2 DEF Born
<1>13. ASSUME NEW v \in Voices, Left(v) PROVE Left(v)'  BY <1>1, <1>3, <1>6, <1>13 DEF Left
<1>14. Taken'
  <2> SUFFICES ASSUME NEW p \in Paths, reader[p].at \in {"held", "removed"}
               PROVE  \E v \in Voices : v = reader[p].voice /\ Left(v)'
    BY <1>1 DEF Taken, Left
  <2>1. PICK v \in Voices : v = reader[p].voice  BY <1>0 DEF Handed, Reader
  <2>2. Left(v)'  BY <1>2, <1>13, <2>1 DEF Taken
  <2> QED  BY <2>1, <2>2
<1>15. Destroyed'  BY <1>0, <1>1, <1>2, <1>13 DEF Destroyed
<1> QED  BY <1>8, <1>9, <1>10, <1>11, <1>12, <1>14, <1>15 DEF Since

LEMMA InitSince == Init => Since
<1> SUFFICES ASSUME Init PROVE Since  OBVIOUS
<1>1. leaves = 0 /\ mem.since = 0 /\ asked = {} /\ key.voice = NoVoice  BY DEF Init, Fresh
<1>2. \A c \in DOMAIN calls : calls[c].at = "none" /\ calls[c].since = 0  BY DEF Init, NoCall
<1>3. \A p \in Paths : reader[p].at = "idle"  BY DEF Init, Idle
<1>4. \A v \in Voices : account[v].since = 0  BY DEF Init
<1>5. reader["capture"].at = "idle"  BY <1>3 DEF Paths
<1> QED
  BY <1>1, <1>2, <1>3, <1>4, <1>5 DEF Since, Past, Sampled, Underway, InUse, Born, Taken, Destroyed, Active

\* A far-side person's voice is asked to be destroyed for a withdrawal only if they withdrew after
\* its sample was begun, whatever reads of their consent fail meanwhile (worker.py:3887); except a
\* voice just made, for which a failed read is taken for a withdrawal (worker.py:3930).
THEOREM OnlyWithdrawersAreForgotten == Spec => []OnlyTheWithdrawn
<1>1. IInv /\ Since /\ [Next]_vars => Since'
  <2> SUFFICES ASSUME IInv, Since, [Next]_vars PROVE Since'  OBVIOUS
  <2>1. CASE UNCHANGED vars
    <3>1. UNCHANGED <<seat, consent, leaves, mem, calls, reader, key, account, asked, misjudged>>  BY <2>1 DEF vars, outside
    <3> QED
      BY <3>1 DEF Since, Past, Sampled, Underway, InUse, Born, Taken, Destroyed, Active, Left, NobodyWithdraws, Withdrawing
  <2>2. CASE Next /\ ~Change
    <3>1. TypeOK'  BY NextTyped
    <3> QED  BY <2>2, <3>1, SinceOn
  <2> QED  BY <2>1, <2>2, SinceChanged
<1>2. Since => OnlyTheWithdrawn  BY DEF Since, Destroyed, Left, OnlyTheWithdrawn
<1> QED  BY <1>1, <1>2, InitSince, Invariant, PTL DEF Spec

-----------------------------------------------------------------------------
(* A voice is in use with its person's consent, or they withdrew it later. *)
(* Between the last look at the consent and the entry that makes the voice *)
(* reachable, only a withdrawal can part the two.                          *)

Dawn == \A v \in Voices : account[v].born <= leaves
Nodded == \A c \in DOMAIN calls : calls[c].at = "agreed" /\ ~consent => account[calls[c].voice].born < leaves
Arrival == Dawn /\ Nodded /\ ArrivedWithConsent

LEMMA BornTypes == TypeOK => leaves \in Nat /\ \A v \in Voices : account[v].born \in Nat
BY DEF TypeOK

\* Whatever was made before a withdrawal is older than it.
LEMMA ArrivalChanged == ASSUME IInv, Arrival, Change PROVE Arrival'
<1>0. TypeOK /\ Holding /\ leaves \in Nat /\ \A v \in Voices : account[v].born \in Nat  BY BornTypes DEF IInv
<1>1. UNCHANGED <<seat, calls, key, account>>  BY DEF Change
<1>2. Dawn /\ Nodded /\ ArrivedWithConsent  BY DEF Arrival
<1>3. (UNCHANGED consent /\ UNCHANGED leaves) \/ consent' \/ leaves' = leaves + 1
  <2>1. CASE consent' = ~consent /\ leaves' = leaves + (IF consent THEN 1 ELSE 0)
    <3>1. CASE consent  BY <2>1, <3>1
    <3>2. CASE ~consent  BY <2>1, <3>2
    <3> QED  BY <3>1, <3>2
  <2>2. CASE UNCHANGED consent /\ UNCHANGED leaves  BY <2>2
  <2> QED  BY <2>1, <2>2 DEF Change
<1>4. leaves' \in Nat /\ leaves <= leaves'
  <2>1. (IF consent THEN 1 ELSE 0) \in Nat  OBVIOUS
  <2>2. leaves' = leaves \/ leaves' = leaves + (IF consent THEN 1 ELSE 0)  BY Zenon DEF Change
  <2> QED  BY <1>0, <2>1, <2>2
<1>5. ASSUME NEW v \in Voices PROVE account[v].born <= leaves' /\ (leaves' = leaves + 1 => account[v].born < leaves')
  BY <1>0, <1>2, <1>4, <1>5 DEF Dawn
<1>6. Dawn'  BY <1>1, <1>5 DEF Dawn
<1>7. Nodded'
  <2> SUFFICES ASSUME NEW c \in DOMAIN calls, calls[c].at = "agreed", ~consent' PROVE account[calls[c].voice].born < leaves'
    BY <1>1 DEF Nodded
  <2>1. calls[c].voice \in Voices  BY <1>0 DEF Holding
  <2>2. CASE leaves' = leaves + 1  BY <1>5, <2>1, <2>2
  <2>3. CASE UNCHANGED consent /\ UNCHANGED leaves  BY <1>2, <2>3 DEF Nodded
  <2> QED  BY <1>3, <2>2, <2>3
<1>8. ArrivedWithConsent'
  <2> SUFFICES ASSUME seat = "far", key.voice # NoVoice, ~consent' PROVE account[key.voice].born < leaves'
    BY <1>1 DEF ArrivedWithConsent
  <2>1. key.voice \in Voices  BY <1>0 DEF TypeOK
  <2>2. CASE leaves' = leaves + 1  BY <1>5, <2>1, <2>2
  <2>3. CASE UNCHANGED consent /\ UNCHANGED leaves  BY <1>2, <2>3 DEF ArrivedWithConsent
  <2> QED  BY <1>3, <2>2, <2>3
<1> QED  BY <1>6, <1>7, <1>8 DEF Arrival

\* While nobody changes their mind: the call that is agreed was read to have consent.
LEMMA ArrivalOn == ASSUME IInv, Arrival, Next, ~Change PROVE Arrival'
<1>0. TypeOK /\ Holding /\ Named /\ key \in Entries /\ leaves \in Nat  BY Parts, BornTypes DEF IInv
<1>1. UNCHANGED <<seat, consent, leaves>> /\ Survive /\ CallsGo  BY OutsideSteps, Survival, CallsSteps
<1>2. Dawn /\ Nodded /\ ArrivedWithConsent  BY DEF Arrival
<1>3. Dawn'
  <2> SUFFICES ASSUME NEW v \in Voices PROVE account'[v].born <= leaves  BY <1>1 DEF Dawn
  <2>1. account'[v].born \in {account[v].born, leaves}  BY AskedSteps
  <2> QED  BY <1>0, <1>2, <2>1 DEF Dawn
<1>4. Nodded'
  <2> SUFFICES ASSUME NEW c \in DOMAIN calls, calls'[c].at = "agreed", ~consent
               PROVE  account'[calls'[c].voice].born < leaves
    BY <1>1 DEF Nodded, CallsGo
  <2>1. Nods(c)  BY <1>1 DEF CallsGo, Begins
  <2>2. calls[c].at = "agreed" /\ calls'[c].voice = calls[c].voice  BY <2>1 DEF Nods
  <2>3. calls[c].voice \in Voices /\ account[calls[c].voice].name # "none"  BY <1>0, <2>2 DEF Holding
  <2> QED  BY <1>1, <1>2, <2>2, <2>3 DEF Nodded, Survive
<1>5. ArrivedWithConsent'
  <2> SUFFICES ASSUME seat = "far", key'.voice # NoVoice, ~consent PROVE account'[key'.voice].born < leaves
    BY <1>1 DEF ArrivedWithConsent
  <2>1. CASE key'.voice = key.voice
    <3>1. key.voice \in Voices /\ account[key.voice].name # "none"  BY <1>0, <2>1 DEF Entries, Named
    <3> QED  BY <1>1, <1>2, <2>1, <3>1 DEF ArrivedWithConsent, Survive
  <2>2. ASSUME NEW c \in DOMAIN calls, Store(c) \/ StoreFar(c) PROVE account'[key'.voice].born < leaves
    <3>1. StoreFar(c)  BY <2>2 DEF Store
    <3>2. key'.voice = calls[c].voice /\ calls[c].at = "agreed"  BY <1>0, <3>1 DEF StoreFar, Entries
    <3>3. calls[c].voice \in Voices /\ account[calls[c].voice].name # "none"  BY <1>0, <3>2 DEF Holding
    <3> QED  BY <1>1, <1>2, <3>2, <3>3 DEF Nodded, Survive
  <2> QED  BY <2>1, <2>2, KeySteps
<1> QED  BY <1>3, <1>4, <1>5 DEF Arrival

\* A far-side person's voice that came back from the vendor after they withdrew is not put to
\* use: one in use without consent was made before a withdrawal (worker.py:3919).
THEOREM NoVoiceArrivesUnwanted == Spec => []ArrivedWithConsent
<1>1. Init => Arrival
  BY DEF Init, NoCall, Arrival, Dawn, Nodded, ArrivedWithConsent
<1>2. IInv /\ Arrival /\ [Next]_vars => Arrival'
  <2> SUFFICES ASSUME IInv, Arrival, [Next]_vars PROVE Arrival'  OBVIOUS
  <2>1. CASE UNCHANGED vars
    BY <2>1 DEF vars, outside, Arrival, Dawn, Nodded, ArrivedWithConsent
  <2> QED  BY <2>1, ArrivalOn, ArrivalChanged
<1>3. Arrival => ArrivedWithConsent  BY DEF Arrival
<1> QED  BY <1>1, <1>2, <1>3, Invariant, PTL DEF Spec

-----------------------------------------------------------------------------
(***************************************************************************)
(* PipelinedQueue, for any workers, keys, messages, counts and faults.     *)
(*   A worker's lines hold what takes a place in flight and the retry it   *)
(* is at, each once: so whatever is let go, acknowledged or lost in a      *)
(* crash leaves every delivered entry pending, handled or parked, and no   *)
(* process reclaims what it has in flight itself.                          *)
(***************************************************************************)
CONSTANTS
    Workers, NumMsgs, Keys, KeyOf, Position, TurnLength, MaxInFlight, ReadCount, ReclaimCount,
    Timeout, MinIdle, MaxAttempts, MaxFailed, Nobody
VARIABLES
    cursor, pending, owner, idle, times, mode, stopping, inFlight, line, busy, ran,
    acking, batch, retry, stage, spoken, done, parked, failed

Pipe == INSTANCE PipelinedQueue WITH faults <- failed, MaxFaults <- MaxFailed

PQTyped ==
    /\ cursor \in 0..NumMsgs /\ pending \subseteq Pipe!Msgs /\ done \subseteq Pipe!Msgs /\ parked \subseteq Pipe!Msgs
    /\ inFlight \in [Workers -> SUBSET Pipe!Msgs] /\ acking \in [Workers -> SUBSET Pipe!Msgs]
    /\ line \in [Workers -> [Keys -> Seq(Pipe!Msgs)]] /\ busy \in [Workers -> SUBSET Keys]
    /\ batch \in [Workers -> Seq(Pipe!Msgs)] /\ retry \in [Workers -> Pipe!Msgs \cup {0}]
    /\ stage \in [Workers -> Pipe!Stages] /\ mode \in [Workers -> Pipe!Modes]

\* What a process works on was delivered.
Delivered ==
    /\ \A m \in pending : m <= cursor
    /\ \A w \in Workers : /\ \A m \in inFlight[w] : m <= cursor
                          /\ \A i \in 1..Len(batch[w]) : batch[w][i] <= cursor
                          /\ retry[w] <= cursor

\* A line holds messages of its key, each once, and the running one is at its head.
KeyLines ==
    \A w \in Workers, k \in Keys :
       /\ \A i \in 1..Len(line[w][k]) : KeyOf[line[w][k][i]] = k
       /\ \A i, j \in 1..Len(line[w][k]) : line[w][k][i] = line[w][k][j] => i = j
       /\ k \in busy[w] => line[w][k] # <<>>

\* A read message is in flight in one process only, and no process reclaims its own.
Apart ==
    \A w \in Workers :
       /\ acking[w] \subseteq inFlight[w] /\ retry[w] \notin inFlight[w]
       /\ \A v \in Workers \ {w} : inFlight[v] \cap inFlight[w] = {}

\* A retry exists during a recovery pass only.
Retrying ==
    \A w \in Workers :
       /\ stage[w] = "next" <=> retry[w] = 0
       /\ mode[w] # "recover" => stage[w] = "next"

\* What is about to be acknowledged was handled or parked.
Settling ==
    \A w \in Workers :
       /\ acking[w] \subseteq done
       /\ stage[w] = "ack" => retry[w] \in done \cup parked

\* The lines hold what takes a place in flight and is not being acknowledged, and
\* the retry until it was handled: nothing else, and all of it.
Queued(w, m) == \E i \in 1..Len(line[w][KeyOf[m]]) : line[w][KeyOf[m]][i] = m
Waits(w, m) == m \in inFlight[w] \ acking[w] \/ (m = retry[w] /\ stage[w] \in {"line", "late"})

Tracked == \A w \in Workers, m \in Pipe!Msgs : Queued(w, m) <=> Waits(w, m)

PQInv == PQTyped /\ Delivered /\ KeyLines /\ Apart /\ Retrying /\ Settling /\ Tracked /\ Pipe!NothingLost

LEMMA PQBounds ==
    ASSUME Pipe!PipelineConstants
    PROVE  /\ NumMsgs \in Nat /\ KeyOf \in [Pipe!Msgs -> Keys] /\ Pipe!Msgs \subseteq Nat \ {0}
           /\ \A m \in Pipe!Msgs : m <= NumMsgs
BY DEF Pipe!Msgs

LEMMA ConcatElements ==
    ASSUME NEW S, NEW s \in Seq(S), NEW t \in Seq(S)
    PROVE  /\ s \o t \in Seq(S)
           /\ \A i \in 1..Len(s) : i \in 1..Len(s \o t) /\ (s \o t)[i] = s[i]
           /\ \A j \in 1..Len(t) : Len(s) + j \in 1..Len(s \o t) /\ (s \o t)[Len(s) + j] = t[j]
           /\ \A i \in 1..Len(s \o t) : i \in 1..Len(s) \/ \E j \in 1..Len(t) : i = Len(s) + j
           /\ s # <<>> => s \o t # <<>>
  <1>1. /\ s \o t \in Seq(S) /\ Len(s \o t) = Len(s) + Len(t)
        /\ \A i \in 1..Len(s) + Len(t) : (s \o t)[i] = IF i <= Len(s) THEN s[i] ELSE t[i - Len(s)]
    BY ConcatProperties
  <1>2. Len(s) \in Nat /\ Len(t) \in Nat
    BY LenProperties
  <1>3. \A i \in 1..Len(s) : i \in 1..Len(s \o t) /\ (s \o t)[i] = s[i]
    BY <1>1, <1>2
  <1>4. ASSUME NEW j \in 1..Len(t)
        PROVE  Len(s) + j \in 1..Len(s \o t) /\ (s \o t)[Len(s) + j] = t[j]
    <2>1. /\ Len(s) + j \in 1..Len(s) + Len(t) /\ ~(Len(s) + j <= Len(s))
          /\ Len(s) + j - Len(s) = j
      BY <1>2
    <2>. QED
      BY <1>1, <2>1
  <1>5. ASSUME NEW i \in 1..Len(s \o t), i \notin 1..Len(s) PROVE \E j \in 1..Len(t) : i = Len(s) + j
    <2>1. i - Len(s) \in 1..Len(t) /\ i = Len(s) + (i - Len(s))
      BY <1>1, <1>2, <1>5
    <2>. QED
      BY <2>1
  <1>6. s # <<>> => s \o t # <<>>
    BY <1>1, <1>2, EmptySeq
  <1>. QED
    BY <1>1, <1>3, <1>4, <1>5, <1>6
LEMMA PQInit ==
    ASSUME Pipe!PipelineConstants
    PROVE  Pipe!Init => PQInv
  <1>. SUFFICES ASSUME Pipe!Init PROVE PQInv
    OBVIOUS
  <1>1. PQTyped
    <2>1. 0 \in 0..NumMsgs
      BY PQBounds
    <2>2. [w \in Workers |-> [k \in Keys |-> <<>>]] \in [Workers -> [Keys -> Seq(Pipe!Msgs)]]
      OBVIOUS
    <2>3. [w \in Workers |-> <<>>] \in [Workers -> Seq(Pipe!Msgs)]
      OBVIOUS
    <2>. QED
      BY <2>1, <2>2, <2>3 DEF Pipe!Init, PQTyped, Pipe!Stages, Pipe!Modes
  <1>2. Delivered
    BY DEF Pipe!Init, Delivered
  <1>3. KeyLines /\ Apart /\ Retrying /\ Settling
    BY DEF Pipe!Init, KeyLines, Apart, Retrying, Settling
  <1>4. Tracked
    BY PQBounds DEF Pipe!Init, Tracked, Queued, Waits
  <1>5. Pipe!NothingLost
    BY DEF Pipe!Init, Pipe!NothingLost
  <1>. QED
    BY <1>1, <1>2, <1>3, <1>4, <1>5 DEF PQInv

\* The steps of the reading side and of time that move no message.
LEMMA PQFrame ==
    ASSUME PQInv, UNCHANGED <<cursor, pending, inFlight, line, busy, acking, Pipe!recoverVars, done, parked>>,
           mode' \in [Workers -> Pipe!Modes],
           \A w \in Workers : mode'[w] # "recover" => mode[w] # "recover" \/ stage[w] = "next"
    PROVE  PQInv'
  <1>. USE DEF Pipe!recoverVars, PQInv
  <1>1. PQTyped' /\ Delivered' /\ Retrying'
    BY DEF PQTyped, Delivered, Retrying
  <1>2. KeyLines' /\ Apart' /\ Settling' /\ Pipe!NothingLost'
    BY DEF KeyLines, Apart, Settling, Pipe!NothingLost
  <1>3. Tracked'
    BY DEF Tracked, Queued, Waits
  <1>. QED
    BY <1>1, <1>2, <1>3

LEMMA QuietKeeps ==
    ASSUME PQInv,
           \/ Pipe!Tick
           \/ \E w \in Workers :
                \/ Pipe!Leave(w) \/ Pipe!SkipRecovery(w) \/ Pipe!NoRead(w) \/ Pipe!Drained(w) \/ Pipe!EndRecovery(w) \/ Pipe!Restart(w)
                \/ Pipe!Sigterm(w) \/ \E k \in Keys : Pipe!Speak(w, k)
    PROVE  PQInv'
  <1>. USE DEF Pipe!redisVars, Pipe!readerVars, Pipe!lineVars, Pipe!recoverVars
  <1>1. CASE Pipe!Tick
    BY <1>1, PQFrame DEF Pipe!Tick, PQInv, PQTyped
  <1>2. ASSUME NEW w \in Workers, NEW k \in Keys, Pipe!Speak(w, k) PROVE PQInv'
    BY <1>2, PQFrame DEF Pipe!Speak, PQInv, PQTyped
  <1>3. ASSUME NEW w \in Workers, Pipe!Sigterm(w) PROVE PQInv'
    BY <1>3, PQFrame DEF Pipe!Sigterm, PQInv, PQTyped
  <1>4. ASSUME NEW w \in Workers,
               Pipe!Leave(w) \/ Pipe!SkipRecovery(w) \/ Pipe!NoRead(w) \/ Pipe!Drained(w) \/ Pipe!EndRecovery(w) \/ Pipe!Restart(w)
        PROVE  PQInv'
    <2>1. /\ UNCHANGED <<cursor, pending, inFlight, line, busy, acking, Pipe!recoverVars, done, parked>>
          /\ \E x \in Pipe!Modes : mode' = [mode EXCEPT ![w] = x]
          /\ mode[w] = "recover" => stage[w] = "next"
      BY <1>4 DEF Pipe!Leave, Pipe!SkipRecovery, Pipe!NoRead, Pipe!Drained, Pipe!EndRecovery, Pipe!Restart, Pipe!Modes
    <2>2. mode' \in [Workers -> Pipe!Modes] /\ \A v \in Workers \ {w} : mode'[v] = mode[v]
      BY <2>1 DEF PQInv, PQTyped
    <2>. QED
      BY <2>1, <2>2, PQFrame
  <1>. QED
    BY <1>1, <1>2, <1>3, <1>4

LEMMA RecoverKeeps ==
    ASSUME PQInv, NEW w \in Workers, Pipe!Recover(w)
    PROVE  PQInv'
  <1>. PICK s \in Pipe!Lists(ReclaimCount) :
          Pipe!IsClaim(s) /\ batch' = [batch EXCEPT ![w] = s]
    BY DEF Pipe!Recover
  <1>1. /\ UNCHANGED <<cursor, pending, inFlight, line, busy, acking, retry, stage, done, parked>>
        /\ mode' = [mode EXCEPT ![w] = "recover"]
    BY DEF Pipe!Recover, Pipe!lineVars
  <1>2. s \in Seq(Pipe!Msgs)
    BY DEF Pipe!Lists
  <1>3. \A i \in 1..Len(s) : s[i] <= cursor
    BY DEF Pipe!IsClaim, Pipe!Abandoned, PQInv, Delivered
  <1>4. PQTyped'
    BY <1>1, <1>2 DEF PQInv, PQTyped, Pipe!Modes
  <1>5. Delivered'
    BY <1>1, <1>2, <1>3 DEF PQInv, PQTyped, Delivered
  <1>6. KeyLines' /\ Apart' /\ Settling' /\ Pipe!NothingLost' /\ Retrying'
    BY <1>1 DEF PQInv, PQTyped, KeyLines, Apart, Settling, Pipe!NothingLost, Retrying
  <1>7. Tracked'
    <2>1. \A v \in Workers, m \in Pipe!Msgs : Queued(v, m)' <=> Queued(v, m)
      BY <1>1 DEF Queued
    <2>2. \A v \in Workers, m \in Pipe!Msgs : Waits(v, m)' <=> Waits(v, m)
      BY <1>1 DEF Waits
    <2>. QED
      BY <2>1, <2>2 DEF PQInv, Tracked
  <1>. QED
    BY <1>4, <1>5, <1>6, <1>7 DEF PQInv

\* Entries that join the lines wait there, and nothing else has moved.
LEMMA JoinLines ==
    ASSUME Pipe!PipelineConstants,
           PQInv, NEW w \in Workers, NEW S \in SUBSET Pipe!Msgs, Pipe!Join(w, S), busy' = busy,
           \A m \in S : ~Queued(w, m)
    PROVE  /\ line' \in [Workers -> [Keys -> Seq(Pipe!Msgs)]] /\ KeyLines'
           /\ \A v \in Workers, m \in Pipe!Msgs : Queued(v, m)' <=> Queued(v, m) \/ (v = w /\ m \in S)
  <1>. PICK new \in [Keys -> Pipe!Lists(ReadCount)] :
          /\ \A k \in Keys : /\ Pipe!Ascending(new[k])
                             /\ {new[k][i] : i \in 1..Len(new[k])} = {m \in S : KeyOf[m] = k}
          /\ line' = [line EXCEPT ![w] = [k \in Keys |-> line[w][k] \o new[k]]]
    BY DEF Pipe!Join, PQInv, PQTyped
  <1>1. \A k \in Keys : line[w][k] \in Seq(Pipe!Msgs) /\ new[k] \in Seq(Pipe!Msgs)
    <2>1. ASSUME NEW k \in Keys PROVE new[k] \in Seq(Pipe!Msgs)
      <3>1. new[k] \in UNION {[1..n -> Pipe!Msgs] : n \in {j \in 0..NumMsgs : j <= ReadCount}}
        BY DEF Pipe!Lists
      <3>2. PICK n \in {j \in 0..NumMsgs : j <= ReadCount} : new[k] \in [1..n -> Pipe!Msgs]
        BY <3>1
      <3>3. n \in Nat
        BY <3>2, PQBounds
      <3>. QED
        BY <3>2, <3>3
    <2>. QED
      BY <2>1 DEF PQInv, PQTyped
  <1>2. line' \in [Workers -> [Keys -> Seq(Pipe!Msgs)]]
    <2>1. \A k \in Keys : line[w][k] \o new[k] \in Seq(Pipe!Msgs)
      BY <1>1, ConcatElements
    <2>2. [k \in Keys |-> line[w][k] \o new[k]] \in [Keys -> Seq(Pipe!Msgs)]
      BY <2>1
    <2>. QED
      BY <2>2 DEF PQInv, PQTyped
  <1>3. \A k \in Keys : line'[w][k] = line[w][k] \o new[k]
    BY DEF PQInv, PQTyped
  <1>4. \A v \in Workers \ {w} : line'[v] = line[v]
    BY DEF PQInv, PQTyped
  <1>5. ASSUME NEW k \in Keys
        PROVE  /\ \A i \in 1..Len(line'[w][k]) : KeyOf[line'[w][k][i]] = k
               /\ \A i, j \in 1..Len(line'[w][k]) : line'[w][k][i] = line'[w][k][j] => i = j
               /\ line[w][k] # <<>> => line'[w][k] # <<>>
               /\ \A m \in Pipe!Msgs : KeyOf[m] = k => (Queued(w, m)' <=> Queued(w, m) \/ m \in S)
    <2>. DEFINE s == line[w][k]
                t == new[k]
    <2>1. s \in Seq(Pipe!Msgs) /\ t \in Seq(Pipe!Msgs)
      BY <1>1
    <2>2. line'[w][k] = s \o t
      BY <1>3
    <2>3. /\ \A i \in 1..Len(t) : t[i] \in S /\ KeyOf[t[i]] = k
          /\ \A m \in S : KeyOf[m] = k => \E i \in 1..Len(t) : t[i] = m
          /\ \A i, j \in 1..Len(t) : i < j => t[i] < t[j]
      BY DEF Pipe!Ascending
    <2>4. /\ \A i \in 1..Len(s) : KeyOf[s[i]] = k
          /\ \A i, j \in 1..Len(s) : s[i] = s[j] => i = j
      BY DEF PQInv, KeyLines
    <2>5. ASSUME NEW m \in Pipe!Msgs, KeyOf[m] = k
          PROVE  /\ Queued(w, m) <=> (\E i \in 1..Len(s) : s[i] = m)
                 /\ Queued(w, m)' <=> (\E i \in 1..Len(s \o t) : (s \o t)[i] = m)
      <3>1. Queued(w, m) <=> (\E i \in 1..Len(s) : s[i] = m)
        BY <2>5 DEF Queued
      <3>2. Queued(w, m)' <=> (\E i \in 1..Len(line'[w][k]) : line'[w][k][i] = m)
        BY <2>5 DEF Queued
      <3>. QED
        BY <2>2, <3>1, <3>2
    <2>. HIDE DEF s, t
    <2>6. /\ \A i \in 1..Len(s) : i \in 1..Len(s \o t) /\ (s \o t)[i] = s[i]
          /\ \A j \in 1..Len(t) : Len(s) + j \in 1..Len(s \o t) /\ (s \o t)[Len(s) + j] = t[j]
          /\ \A i \in 1..Len(s \o t) : i \in 1..Len(s) \/ \E j \in 1..Len(t) : i = Len(s) + j
          /\ s # <<>> => s \o t # <<>>
      BY <2>1, ConcatElements
    <2>7. \A i \in 1..Len(s) : s[i] \in Pipe!Msgs /\ s[i] \notin S
      <3>1. \A i \in 1..Len(s) : s[i] \in Pipe!Msgs
        BY <2>1, ElementOfSeq
      <3>. QED
        BY <2>4, <2>5, <3>1
    <2>8. \A i, j \in 1..Len(t) : t[i] = t[j] => i = j
      <3>1. \A i \in 1..Len(t) : t[i] \in Nat
        BY <2>1, ElementOfSeq, PQBounds
      <3>2. Len(t) \in Nat
        BY <2>1, LenProperties
      <3>. SUFFICES ASSUME NEW i \in 1..Len(t), NEW j \in 1..Len(t), t[i] = t[j], i < j PROVE FALSE
        BY <3>2
      <3>3. t[i] < t[j] /\ t[i] \in Nat
        BY <2>3, <3>1
      <3>. QED
        BY <3>3
    <2>9. ASSUME NEW i \in 1..Len(s \o t)
          PROVE  \/ i \in 1..Len(s) /\ (s \o t)[i] = s[i] /\ s[i] \notin S
                 \/ \E j \in 1..Len(t) : i = Len(s) + j /\ (s \o t)[i] = t[j] /\ t[j] \in S
      <3>1. CASE i \in 1..Len(s)
        BY <2>6, <2>7, <3>1
      <3>2. CASE \E j \in 1..Len(t) : i = Len(s) + j
        <4>1. PICK j \in 1..Len(t) : i = Len(s) + j
          BY <3>2
        <4>2. (s \o t)[i] = t[j] /\ t[j] \in S
          BY <2>3, <2>6, <4>1
        <4>. QED
          BY <4>1, <4>2
      <3>. QED
        BY <2>6, <3>1, <3>2
    <2>10. \A i \in 1..Len(s \o t) : KeyOf[(s \o t)[i]] = k
      <3>. TAKE i \in 1..Len(s \o t)
      <3>1. CASE i \in 1..Len(s) /\ (s \o t)[i] = s[i]
        BY <2>4, <3>1
      <3>2. CASE \E j \in 1..Len(t) : (s \o t)[i] = t[j]
        BY <2>3, <3>2
      <3>. QED
        BY <2>9, <3>1, <3>2
    <2>11. ASSUME NEW i \in 1..Len(s \o t), NEW j \in 1..Len(s \o t), (s \o t)[i] = (s \o t)[j] PROVE i = j
      <3>1. CASE (s \o t)[i] \notin S
        BY <2>4, <2>9, <2>11, <3>1
      <3>2. CASE (s \o t)[i] \in S
        <4>1. PICK a \in 1..Len(t) : i = Len(s) + a /\ (s \o t)[i] = t[a]
          BY <2>9, <3>2
        <4>2. PICK b \in 1..Len(t) : j = Len(s) + b /\ (s \o t)[j] = t[b]
          BY <2>9, <2>11, <3>2
        <4>. QED
          BY <2>8, <2>11, <4>1, <4>2
      <3>. QED
        BY <3>1, <3>2
    <2>12. ASSUME NEW m \in Pipe!Msgs, KeyOf[m] = k
           PROVE  (\E i \in 1..Len(s \o t) : (s \o t)[i] = m) <=> (\E i \in 1..Len(s) : s[i] = m) \/ m \in S
      <3>1. ASSUME NEW i \in 1..Len(s \o t), (s \o t)[i] = m PROVE (\E j \in 1..Len(s) : s[j] = m) \/ m \in S
        BY <2>9, <3>1
      <3>2. ASSUME NEW i \in 1..Len(s), s[i] = m PROVE \E j \in 1..Len(s \o t) : (s \o t)[j] = m
        BY <2>6, <3>2
      <3>3. ASSUME m \in S PROVE \E j \in 1..Len(s \o t) : (s \o t)[j] = m
        <4>1. PICK i \in 1..Len(t) : t[i] = m
          BY <2>3, <2>12, <3>3
        <4>. QED
          BY <2>6, <4>1
      <3>. QED
        BY <3>1, <3>2, <3>3
    <2>13. s = line[w][k]
      BY DEF s
    <2>14. \A m \in Pipe!Msgs : KeyOf[m] = k => (Queued(w, m)' <=> Queued(w, m) \/ m \in S)
      <3>. SUFFICES ASSUME NEW m \in Pipe!Msgs, KeyOf[m] = k PROVE Queued(w, m)' <=> Queued(w, m) \/ m \in S
        OBVIOUS
      <3>1. Queued(w, m) <=> (\E i \in 1..Len(s) : s[i] = m)
        BY <2>5
      <3>2. Queued(w, m)' <=> (\E i \in 1..Len(s \o t) : (s \o t)[i] = m)
        BY <2>5
      <3>3. (\E i \in 1..Len(s \o t) : (s \o t)[i] = m) <=> (\E i \in 1..Len(s) : s[i] = m) \/ m \in S
        BY <2>12
      <3>. QED
        BY <3>1, <3>2, <3>3
    <2>15. /\ \A i \in 1..Len(line'[w][k]) : KeyOf[line'[w][k][i]] = k
           /\ line[w][k] # <<>> => line'[w][k] # <<>>
      BY <2>2, <2>6, <2>10, <2>13
    <2>16. \A i, j \in 1..Len(line'[w][k]) : line'[w][k][i] = line'[w][k][j] => i = j
      BY <2>2, <2>11
    <2>. QED
      BY <2>14, <2>15, <2>16
  <1>6. KeyLines'
    <2>1. ASSUME NEW v \in Workers \ {w}, NEW k \in Keys
          PROVE  /\ \A i \in 1..Len(line'[v][k]) : KeyOf[line'[v][k][i]] = k
                 /\ \A i, j \in 1..Len(line'[v][k]) : line'[v][k][i] = line'[v][k][j] => i = j
                 /\ k \in busy'[v] => line'[v][k] # <<>>
      <3>1. line'[v][k] = line[v][k]
        BY <1>4
      <3>. QED
        BY <3>1 DEF PQInv, KeyLines
    <2>2. \A k \in Keys : k \in busy'[w] => line'[w][k] # <<>>
      BY <1>5 DEF PQInv, KeyLines
    <2>. QED
      BY <1>5, <2>1, <2>2 DEF KeyLines
  <1>7. \A v \in Workers, m \in Pipe!Msgs : Queued(v, m)' <=> Queued(v, m) \/ (v = w /\ m \in S)
    <2>1. \A v \in Workers \ {w}, m \in Pipe!Msgs : Queued(v, m)' <=> Queued(v, m)
      BY <1>4 DEF Queued
    <2>2. \A m \in Pipe!Msgs : Queued(w, m)' <=> Queued(w, m) \/ m \in S
      BY <1>5, PQBounds
    <2>. QED
      BY <2>1, <2>2
  <1>. QED
    BY <1>2, <1>6, <1>7

\* New entries are beyond whatever was delivered before.
LEMMA ReadKeeps ==
    ASSUME Pipe!PipelineConstants,
           PQInv, NEW w \in Workers, Pipe!Read(w)
    PROVE  PQInv'
  <1>. PICK n \in 1..ReadCount :
          /\ cursor + n <= NumMsgs
          /\ cursor' = cursor + n
          /\ pending' = pending \cup (cursor + 1)..(cursor + n)
          /\ inFlight' = [inFlight EXCEPT ![w] = @ \cup (cursor + 1)..(cursor + n)]
          /\ Pipe!Join(w, (cursor + 1)..(cursor + n))
    BY DEF Pipe!Read
  <1>. DEFINE S == (cursor + 1)..(cursor + n)
  <1>1. /\ UNCHANGED <<busy, acking, batch, retry, stage, done, parked>>
        /\ mode[w] = "read" /\ mode' = [mode EXCEPT ![w] = "top"]
    BY DEF Pipe!Read, Pipe!recoverVars
  <1>t. PQTyped /\ Delivered /\ cursor \in Nat /\ n \in Nat \ {0} /\ NumMsgs \in Nat
    <2>1. ReadCount \in Nat \ {0}
      OBVIOUS
    <2>. QED
      BY <2>1, PQBounds DEF PQInv, PQTyped
  <1>2. S \subseteq Pipe!Msgs /\ (\A m \in S : m <= cursor + n /\ ~(m <= cursor)) /\ cursor + n \in 0..NumMsgs
    BY <1>t DEF Pipe!Msgs
  <1>. HIDE DEF S
  <1>3. \A v \in Workers : \A m \in S : m \notin inFlight[v] /\ retry[v] # m
    BY <1>t, <1>2 DEF Delivered
  <1>4. /\ line' \in [Workers -> [Keys -> Seq(Pipe!Msgs)]] /\ KeyLines'
        /\ \A v \in Workers, m \in Pipe!Msgs : Queued(v, m)' <=> Queued(v, m) \/ (v = w /\ m \in S)
    <2>1. \A m \in S : ~Queued(w, m)
      BY <1>2, <1>3 DEF PQInv, Tracked, Waits
    <2>2. Pipe!Join(w, S)
      BY DEF S
    <2>. QED
      BY <1>1, <1>2, <2>1, <2>2, JoinLines
  <1>5. \A m \in Pipe!Msgs \cup {0} : m <= cursor => m <= cursor'
    BY <1>t, PQBounds
  <1>6. /\ inFlight' = [inFlight EXCEPT ![w] = inFlight[w] \cup S] /\ pending' = pending \cup S
        /\ \A m \in S : m <= cursor'
    BY <1>2 DEF S
  <1>7. PQTyped'
    <2>1. inFlight' \in [Workers -> SUBSET Pipe!Msgs] /\ pending' \subseteq Pipe!Msgs
      BY <1>t, <1>2, <1>6 DEF PQTyped
    <2>2. mode' \in [Workers -> Pipe!Modes]
      BY <1>t, <1>1 DEF PQTyped, Pipe!Modes
    <2>. QED
      BY <1>1, <1>t, <1>2, <1>4, <2>1, <2>2 DEF PQTyped
  <1>8. Delivered'
    <2>1. \A m \in pending' : m <= cursor'
      BY <1>t, <1>5, <1>6 DEF PQTyped, Delivered
    <2>2. \A v \in Workers : \A m \in inFlight'[v] : m <= cursor'
      BY <1>t, <1>5, <1>6 DEF PQTyped, Delivered
    <2>3. \A v \in Workers : retry'[v] <= cursor'
      BY <1>t, <1>1, <1>5 DEF PQTyped, Delivered
    <2>4. ASSUME NEW v \in Workers, NEW i \in 1..Len(batch'[v]) PROVE batch'[v][i] <= cursor'
      <3>1. batch[v][i] \in Pipe!Msgs
        BY <1>t, <1>1, <2>4, ElementOfSeq DEF PQTyped
      <3>. QED
        BY <1>t, <1>1, <1>5, <2>4, <3>1 DEF Delivered
    <2>. QED
      BY <2>1, <2>2, <2>3, <2>4 DEF Delivered
  <1>9. Apart' /\ Retrying' /\ Settling'
    BY <1>1, <1>t, <1>3, <1>6 DEF PQInv, PQTyped, Apart, Retrying, Settling
  <1>10. Tracked'
    <2>1. \A v \in Workers, m \in Pipe!Msgs : Waits(v, m)' <=> Waits(v, m) \/ (v = w /\ m \in S)
      <3>1. \A v \in Workers : acking[v] \cap S = {}
        BY <1>3 DEF PQInv, Apart
      <3>2. inFlight'[w] = inFlight[w] \cup S /\ \A v \in Workers \ {w} : inFlight'[v] = inFlight[v]
        BY <1>t, <1>6 DEF PQTyped
      <3>. TAKE v \in Workers, m \in Pipe!Msgs
      <3>3. acking'[v] = acking[v] /\ retry'[v] = retry[v] /\ stage'[v] = stage[v]
        BY <1>1
      <3>4. m \in inFlight'[v] <=> m \in inFlight[v] \/ (v = w /\ m \in S)
        BY <3>2
      <3>5. m \in S => m \notin acking[v]
        BY <3>1
      <3>. QED
        BY <3>3, <3>4, <3>5 DEF Waits
    <2>. QED
      BY <1>4, <2>1 DEF PQInv, Tracked
  <1>11. Pipe!NothingLost'
    <2>1. \A m \in 1..cursor' : m \in 1..cursor \/ m \in S
      BY <1>t DEF S
    <2>. QED
      BY <1>1, <1>6, <2>1 DEF PQInv, Pipe!NothingLost
  <1>. QED
    BY <1>4, <1>7, <1>8, <1>9, <1>10, <1>11 DEF PQInv

LEMMA AppendElements ==
    ASSUME NEW S, NEW s \in Seq(S), NEW e \in S
    PROVE  /\ Append(s, e) \in Seq(S) /\ Append(s, e) # <<>>
           /\ \A i \in 1..Len(s) : i \in 1..Len(Append(s, e)) /\ Append(s, e)[i] = s[i]
           /\ Len(s) + 1 \in 1..Len(Append(s, e)) /\ Append(s, e)[Len(s) + 1] = e
           /\ \A i \in 1..Len(Append(s, e)) : i \in 1..Len(s) \/ i = Len(s) + 1
  <1>1. /\ Append(s, e) \in Seq(S) /\ Append(s, e) # <<>> /\ Len(Append(s, e)) = Len(s) + 1
        /\ \A i \in 1..Len(s) : Append(s, e)[i] = s[i]
        /\ Append(s, e)[Len(s) + 1] = e
    BY AppendProperties
  <1>2. Len(s) \in Nat
    BY LenProperties
  <1>. QED
    BY <1>1, <1>2

\* A reclaimed entry joins its line behind the others.
LEMMA AppendLine ==
    ASSUME Pipe!PipelineConstants,
           PQInv, NEW w \in Workers, NEW m \in Pipe!Msgs, busy' = busy, ~Queued(w, m),
           line' = [line EXCEPT ![w][KeyOf[m]] = Append(@, m)]
    PROVE  /\ line' \in [Workers -> [Keys -> Seq(Pipe!Msgs)]] /\ KeyLines'
           /\ \A v \in Workers, o \in Pipe!Msgs : Queued(v, o)' <=> Queued(v, o) \/ (v = w /\ o = m)
  <1>. DEFINE h == KeyOf[m]
              s == line[w][h]
  <1>0. h \in Keys
    BY PQBounds
  <1>1. s \in Seq(Pipe!Msgs)
    BY <1>0 DEF PQInv, PQTyped
  <1>2. /\ Append(s, m) \in Seq(Pipe!Msgs) /\ Append(s, m) # <<>>
        /\ \A i \in 1..Len(s) : i \in 1..Len(Append(s, m)) /\ Append(s, m)[i] = s[i]
        /\ Len(s) + 1 \in 1..Len(Append(s, m)) /\ Append(s, m)[Len(s) + 1] = m
        /\ \A i \in 1..Len(Append(s, m)) : i \in 1..Len(s) \/ i = Len(s) + 1
    <2>1. m \in Pipe!Msgs
      OBVIOUS
    <2>. HIDE DEF s
    <2>. QED
      BY <1>1, <2>1, AppendElements
  <1>3. /\ line' \in [Workers -> [Keys -> Seq(Pipe!Msgs)]] /\ line'[w][h] = Append(s, m)
        /\ \A v \in Workers, k \in Keys : v # w \/ k # h => line'[v][k] = line[v][k]
    BY <1>0, <1>2 DEF PQInv, PQTyped
  <1>4. /\ \A i \in 1..Len(s) : KeyOf[s[i]] = h /\ s[i] # m
        /\ \A i, j \in 1..Len(s) : s[i] = s[j] => i = j
    BY <1>0 DEF PQInv, KeyLines, Queued
  <1>5. ASSUME NEW v \in Workers, NEW o \in Pipe!Msgs PROVE Queued(v, o)' <=> Queued(v, o) \/ (v = w /\ o = m)
    <2>1. KeyOf[o] \in Keys
      BY PQBounds
    <2>2. CASE v # w \/ KeyOf[o] # h
      <3>1. line'[v][KeyOf[o]] = line[v][KeyOf[o]]
        BY <1>3, <2>1, <2>2
      <3>2. ~(v = w /\ o = m)
        BY <2>2
      <3>. QED
        BY <3>1, <3>2 DEF Queued
    <2>3. CASE v = w /\ KeyOf[o] = h
      <3>1. Queued(v, o)' <=> (\E i \in 1..Len(Append(s, m)) : Append(s, m)[i] = o)
        <4>1. Queued(v, o)' <=> (\E i \in 1..Len(line'[w][h]) : line'[w][h][i] = o)
          BY <2>3 DEF Queued
        <4>. QED
          BY <1>3, <4>1
      <3>2. Queued(v, o) <=> (\E i \in 1..Len(s) : s[i] = o)
        BY <2>3 DEF Queued
      <3>. HIDE DEF s, h
      <3>. QED
        BY <1>2, <2>3, <3>1, <3>2
    <2>. QED
      BY <2>2, <2>3
  <1>6. KeyLines'
    <2>1. ASSUME NEW v \in Workers, NEW k \in Keys, v # w \/ k # h
          PROVE  /\ \A i \in 1..Len(line'[v][k]) : KeyOf[line'[v][k][i]] = k
                 /\ \A i, j \in 1..Len(line'[v][k]) : line'[v][k][i] = line'[v][k][j] => i = j
                 /\ k \in busy'[v] => line'[v][k] # <<>>
      <3>1. line'[v][k] = line[v][k]
        BY <1>3, <2>1
      <3>2. /\ \A i \in 1..Len(line[v][k]) : KeyOf[line[v][k][i]] = k
            /\ \A i, j \in 1..Len(line[v][k]) : line[v][k][i] = line[v][k][j] => i = j
            /\ k \in busy[v] => line[v][k] # <<>>
        BY DEF PQInv, KeyLines
      <3>. QED
        BY <3>1, <3>2
    <2>. HIDE DEF s
    <2>2. \A i \in 1..Len(Append(s, m)) : KeyOf[Append(s, m)[i]] = h
      BY <1>2, <1>4
    <2>3. \A i, j \in 1..Len(Append(s, m)) : Append(s, m)[i] = Append(s, m)[j] => i = j
      BY <1>2, <1>4
    <2>4. /\ \A i \in 1..Len(line'[w][h]) : KeyOf[line'[w][h][i]] = h
          /\ \A i, j \in 1..Len(line'[w][h]) : line'[w][h][i] = line'[w][h][j] => i = j
          /\ line'[w][h] # <<>>
      BY <1>2, <1>3, <2>2, <2>3
    <2>. HIDE DEF h
    <2>5. ASSUME NEW v \in Workers, NEW k \in Keys
          PROVE  /\ \A i \in 1..Len(line'[v][k]) : KeyOf[line'[v][k][i]] = k
                 /\ \A i, j \in 1..Len(line'[v][k]) : line'[v][k][i] = line'[v][k][j] => i = j
                 /\ k \in busy'[v] => line'[v][k] # <<>>
      <3>1. CASE v = w /\ k = h
        BY <2>4, <3>1
      <3>2. CASE v # w \/ k # h
        BY <2>1, <3>2
      <3>. QED
        BY <3>1, <3>2
    <2>. QED
      BY <2>5 DEF KeyLines
  <1>. QED
    BY <1>3, <1>5, <1>6

\* The recovery pass.
LEMMA NextRetryKeeps ==
    ASSUME Pipe!PipelineConstants,
           PQInv, NEW w \in Workers, Pipe!NextRetry(w)
    PROVE  PQInv'
  <1>. DEFINE m == Head(batch[w])
  <1>1. /\ batch[w] \in Seq(Pipe!Msgs) /\ batch[w] # <<>> /\ stage[w] = "next" /\ mode[w] = "recover"
        /\ batch' = [batch EXCEPT ![w] = Tail(batch[w])]
        /\ UNCHANGED <<cursor, pending, mode, inFlight, busy, acking, done, parked>>
    BY DEF Pipe!NextRetry, PQInv, PQTyped, Pipe!redisVars, Pipe!readerVars
  <1>2. /\ Tail(batch[w]) \in Seq(Pipe!Msgs) /\ m \in Pipe!Msgs /\ Len(batch[w]) \in Nat \ {0}
        /\ m = batch[w][1] /\ Len(Tail(batch[w])) = Len(batch[w]) - 1
        /\ \A i \in 1..Len(Tail(batch[w])) : i + 1 \in 1..Len(batch[w]) /\ Tail(batch[w])[i] = batch[w][i + 1]
    BY <1>1, HeadTailProperties, EmptySeq
  <1>3. m <= cursor /\ \A i \in 1..Len(Tail(batch[w])) : Tail(batch[w])[i] <= cursor
    <2>1. 1 \in 1..Len(batch[w])
      BY <1>2
    <2>. QED
      BY <1>2, <2>1 DEF PQInv, Delivered
  <1>4. CASE UNCHANGED <<retry, stage, line>>
    <2>1. PQTyped' /\ Delivered'
      BY <1>1, <1>2, <1>3, <1>4 DEF PQInv, PQTyped, Delivered
    <2>2. KeyLines' /\ Apart' /\ Retrying' /\ Settling' /\ Pipe!NothingLost'
      BY <1>1, <1>4 DEF PQInv, KeyLines, Apart, Retrying, Settling, Pipe!NothingLost
    <2>3. Tracked'
      BY <1>1, <1>4 DEF PQInv, Tracked, Queued, Waits
    <2>. QED
      BY <2>1, <2>2, <2>3 DEF PQInv
  <1>5. CASE /\ m \notin inFlight[w] /\ retry' = [retry EXCEPT ![w] = m]
             /\ stage' = [stage EXCEPT ![w] = "line"]
             /\ line' = [line EXCEPT ![w][KeyOf[m]] = Append(@, m)]
    <2>. HIDE DEF m
    <2>0. m # 0 /\ m \in Pipe!Msgs
      BY <1>2, PQBounds
    <2>1. ~Queued(w, m)
      BY <1>1, <1>5, <2>0 DEF PQInv, Tracked, Waits
    <2>2. /\ line' \in [Workers -> [Keys -> Seq(Pipe!Msgs)]] /\ KeyLines'
          /\ \A v \in Workers, o \in Pipe!Msgs : Queued(v, o)' <=> Queued(v, o) \/ (v = w /\ o = m)
      BY <1>1, <1>5, <2>0, <2>1, AppendLine
    <2>3. PQTyped' /\ Delivered'
      BY <1>1, <1>2, <1>3, <1>5, <2>0, <2>2 DEF PQInv, PQTyped, Delivered, Pipe!Stages
    <2>4. /\ \A v \in Workers \ {w} : retry'[v] = retry[v] /\ stage'[v] = stage[v]
          /\ retry'[w] = m /\ stage'[w] = "line"
      BY <1>5 DEF PQInv, PQTyped
    <2>5. Apart' /\ Retrying' /\ Settling' /\ Pipe!NothingLost'
      BY <1>1, <1>5, <2>0, <2>4 DEF PQInv, Apart, Retrying, Settling, Pipe!NothingLost
    <2>6. \A v \in Workers, o \in Pipe!Msgs : Waits(v, o)' <=> Waits(v, o) \/ (v = w /\ o = m)
      BY <1>1, <2>4 DEF Waits
    <2>7. Tracked'
      BY <2>2, <2>6 DEF PQInv, Tracked
    <2>. QED
      BY <2>2, <2>3, <2>5, <2>7 DEF PQInv
  <1>. QED
    BY <1>4, <1>5 DEF Pipe!NextRetry, PQInv, PQTyped

LEMMA RetryKeeps ==
    ASSUME Pipe!PipelineConstants,
           PQInv, NEW w \in Workers, Pipe!CountAttempts(w) \/ Pipe!Park(w) \/ Pipe!AckRetry(w) \/ Pipe!ReaderFails(w)
           \/ (Pipe!ReplyLost(w) /\ Pipe!AckReplyLost(w))
    PROVE  PQInv'
  <1>1. /\ UNCHANGED <<cursor, inFlight, line, busy, acking, done>>
        /\ batch' = batch \/ batch' = [batch EXCEPT ![w] = <<>>]
        /\ retry' = retry \/ retry' = [retry EXCEPT ![w] = 0]
        /\ \E s \in Pipe!Stages : stage' = [stage EXCEPT ![w] = s]
        /\ mode' = mode \/ mode' = [mode EXCEPT ![w] = "drain"]
    BY DEF Pipe!CountAttempts, Pipe!Park, Pipe!AckRetry, Pipe!ReaderFails, Pipe!ReplyLost, Pipe!AckReplyLost, Pipe!redisVars, Pipe!readerVars, Pipe!lineVars, PQInv, PQTyped, Pipe!Stages
  <1>2. /\ pending' = pending \/ (pending' = pending \ {retry[w]} /\ stage[w] = "ack")
        /\ parked' = parked \/ (parked' = parked \cup {retry[w]} /\ stage[w] = "park")
    BY DEF Pipe!CountAttempts, Pipe!Park, Pipe!AckRetry, Pipe!ReaderFails, Pipe!ReplyLost, Pipe!AckReplyLost, Pipe!redisVars
  <1>3. \/ stage'[w] = "next" /\ retry'[w] = 0
        \/ stage'[w] = "park" /\ stage[w] = "count" /\ retry' = retry /\ mode' = mode
        \/ stage'[w] = "ack" /\ stage[w] = "park" /\ retry' = retry /\ parked' = parked \cup {retry[w]} /\ mode' = mode
    BY DEF Pipe!CountAttempts, Pipe!Park, Pipe!AckRetry, Pipe!ReaderFails, Pipe!ReplyLost, Pipe!AckReplyLost, Pipe!readerVars, PQInv, PQTyped
  <1>4. stage[w] \notin {"line", "late"}
    BY DEF Pipe!CountAttempts, Pipe!Park, Pipe!AckRetry, Pipe!ReaderFails, Pipe!ReplyLost, Pipe!AckReplyLost, PQInv, Retrying
  <1>5. \A v \in Workers \ {w} : stage'[v] = stage[v] /\ retry'[v] = retry[v] /\ mode'[v] = mode[v]
    BY <1>1 DEF PQInv, PQTyped
  <1>6. PQTyped'
    <2>1. batch' \in [Workers -> Seq(Pipe!Msgs)]
      <3>1. batch \in [Workers -> Seq(Pipe!Msgs)] /\ (batch' = batch \/ batch' = [batch EXCEPT ![w] = <<>>])
        BY <1>1 DEF PQInv, PQTyped
      <3>2. <<>> \in Seq(Pipe!Msgs)
        OBVIOUS
      <3>. QED
        BY <3>1, <3>2
    <2>2. retry' \in [Workers -> Pipe!Msgs \cup {0}]
      <3>1. retry \in [Workers -> Pipe!Msgs \cup {0}] /\ (retry' = retry \/ retry' = [retry EXCEPT ![w] = 0])
        BY <1>1 DEF PQInv, PQTyped
      <3>. QED
        BY <3>1
    <2>3. stage' \in [Workers -> Pipe!Stages]
      BY <1>1 DEF PQInv, PQTyped
    <2>4. mode' \in [Workers -> Pipe!Modes]
      BY <1>1 DEF PQInv, PQTyped, Pipe!Modes
    <2>5. stage[w] = "park" => retry[w] \in Pipe!Msgs
      BY DEF PQInv, PQTyped, Retrying
    <2>. QED
      BY <1>1, <1>2, <2>1, <2>2, <2>3, <2>4, <2>5 DEF PQInv, PQTyped
  <1>7. Delivered'
    <2>1. \A v \in Workers : \A i \in 1..Len(batch'[v]) : batch'[v][i] <= cursor
      <3>1. \A v \in Workers : batch'[v] = batch[v] \/ batch'[v] = <<>>
        <4>1. batch \in [Workers -> Seq(Pipe!Msgs)] /\ (batch' = batch \/ batch' = [batch EXCEPT ![w] = <<>>])
          BY <1>1 DEF PQInv, PQTyped
        <4>. QED
          BY <4>1
      <3>2. 1..Len(<<>>) = {}
        OBVIOUS
      <3>. QED
        BY <3>1, <3>2 DEF PQInv, Delivered
    <2>2. \A v \in Workers : retry'[v] <= cursor
      <3>1. 0 <= cursor
        BY PQBounds DEF PQInv, PQTyped
      <3>. QED
        BY <1>1, <3>1 DEF PQInv, PQTyped, Delivered
    <2>. QED
      BY <1>1, <1>2, <2>1, <2>2 DEF PQInv, Delivered
  <1>8. KeyLines'
    BY <1>1 DEF PQInv, KeyLines
  <1>9. Apart'
    <2>1. 0 \notin Pipe!Msgs
      BY PQBounds
    <2>2. \A v \in Workers : retry'[v] = retry[v] \/ retry'[v] = 0
      BY <1>1 DEF PQInv, PQTyped
    <2>. QED
      BY <1>1, <2>1, <2>2 DEF PQInv, PQTyped, Apart
  <1>10. Settling' /\ Retrying'
    BY <1>1, <1>2, <1>3, <1>5 DEF PQInv, Settling, Retrying
  <1>11. Pipe!NothingLost'
    BY <1>1, <1>2 DEF PQInv, Settling, Pipe!NothingLost
  <1>12. Tracked'
    <2>1. stage'[w] \notin {"line", "late"}
      BY <1>3
    <2>2. \A v \in Workers, m \in Pipe!Msgs : Waits(v, m)' <=> Waits(v, m)
      BY <1>1, <1>4, <1>5, <2>1 DEF Waits
    <2>3. \A v \in Workers, m \in Pipe!Msgs : Queued(v, m)' <=> Queued(v, m)
      BY <1>1 DEF Queued
    <2>. QED
      BY <2>2, <2>3 DEF PQInv, Tracked
  <1>. QED
    BY <1>6, <1>7, <1>8, <1>9, <1>10, <1>11, <1>12 DEF PQInv

\* The handler at the head of a line lets it go: its message waits no more.
LEMMA LetGoLines ==
    ASSUME Pipe!PipelineConstants,
           PQInv, NEW w \in Workers, NEW k \in Keys, k \in busy[w], Pipe!LetGo(w, k)
    PROVE  /\ Pipe!Holder(w, k) \in Pipe!Msgs /\ Queued(w, Pipe!Holder(w, k))
           /\ line' \in [Workers -> [Keys -> Seq(Pipe!Msgs)]] /\ busy' \in [Workers -> SUBSET Keys]
           /\ KeyLines'
           /\ \A v \in Workers, m \in Pipe!Msgs :
                 Queued(v, m)' <=> Queued(v, m) /\ (v # w \/ m # Pipe!Holder(w, k))
  <1>. DEFINE s == line[w][k]
              h == Pipe!Holder(w, k)
  <1>1. s \in Seq(Pipe!Msgs) /\ s # <<>>
    BY DEF PQInv, PQTyped, KeyLines
  <1>2. /\ Tail(s) \in Seq(Pipe!Msgs) /\ h \in Pipe!Msgs /\ h = s[1]
        /\ Len(s) \in Nat \ {0} /\ Len(Tail(s)) = Len(s) - 1
        /\ \A i \in 1..Len(Tail(s)) : Tail(s)[i] = s[i + 1]
    BY <1>1, HeadTailProperties, EmptySeq DEF Pipe!Holder
  <1>3. 1 \in 1..Len(s) /\ \A i \in 1..Len(Tail(s)) : i + 1 \in 1..Len(s) /\ i + 1 # 1
    BY <1>2
  <1>4. /\ line' \in [Workers -> [Keys -> Seq(Pipe!Msgs)]] /\ busy' \in [Workers -> SUBSET Keys]
        /\ line'[w][k] = Tail(s) /\ k \notin busy'[w]
        /\ \A v \in Workers, j \in Keys : v # w \/ j # k =>
              line'[v][j] = line[v][j] /\ (j \in busy'[v] => j \in busy[v])
    BY <1>2 DEF Pipe!LetGo, PQInv, PQTyped
  <1>5. /\ \A i \in 1..Len(s) : KeyOf[s[i]] = k
        /\ \A i, j \in 1..Len(s) : s[i] = s[j] => i = j
    BY DEF PQInv, KeyLines
  <1>6. KeyOf[h] = k
    BY <1>2, <1>3, <1>5
  <1>7. Queued(w, h)
    BY <1>2, <1>3, <1>6 DEF Queued
  <1>8. KeyLines'
    <2>1. ASSUME NEW v \in Workers, NEW j \in Keys, v # w \/ j # k
          PROVE  /\ \A i \in 1..Len(line'[v][j]) : KeyOf[line'[v][j][i]] = j
                 /\ \A i, n \in 1..Len(line'[v][j]) : line'[v][j][i] = line'[v][j][n] => i = n
                 /\ j \in busy'[v] => line'[v][j] # <<>>
      <3>1. line'[v][j] = line[v][j] /\ (j \in busy'[v] => j \in busy[v])
        BY <1>4, <2>1
      <3>2. /\ \A i \in 1..Len(line[v][j]) : KeyOf[line[v][j][i]] = j
            /\ \A i, n \in 1..Len(line[v][j]) : line[v][j][i] = line[v][j][n] => i = n
            /\ j \in busy[v] => line[v][j] # <<>>
        BY DEF PQInv, KeyLines
      <3>. QED
        BY <3>1, <3>2
    <2>. HIDE DEF s, h
    <2>2. \A i \in 1..Len(Tail(s)) : KeyOf[Tail(s)[i]] = k
      BY <1>2, <1>3, <1>5
    <2>3. \A i, j \in 1..Len(Tail(s)) : Tail(s)[i] = Tail(s)[j] => i = j
      <3>. SUFFICES ASSUME NEW i \in 1..Len(Tail(s)), NEW j \in 1..Len(Tail(s)), Tail(s)[i] = Tail(s)[j] PROVE i = j
        OBVIOUS
      <3>1. i + 1 = j + 1
        BY <1>2, <1>3, <1>5
      <3>. QED
        BY <1>2, <3>1
    <2>. QED
      <3>1. /\ \A i \in 1..Len(line'[w][k]) : KeyOf[line'[w][k][i]] = k
            /\ \A i, j \in 1..Len(line'[w][k]) : line'[w][k][i] = line'[w][k][j] => i = j
            /\ k \notin busy'[w]
        BY <1>4, <2>2, <2>3
      <3>. QED
        BY <2>1, <3>1 DEF KeyLines
  <1>9. ASSUME NEW v \in Workers, NEW m \in Pipe!Msgs
        PROVE  Queued(v, m)' <=> Queued(v, m) /\ (v # w \/ m # h)
    <2>1. KeyOf[m] \in Keys
      BY PQBounds
    <2>2. CASE v # w \/ KeyOf[m] # k
      <3>1. line'[v][KeyOf[m]] = line[v][KeyOf[m]]
        BY <1>4, <2>1, <2>2
      <3>2. v # w \/ m # h
        BY <1>6, <2>2
      <3>. QED
        BY <3>1, <3>2 DEF Queued
    <2>3. CASE v = w /\ KeyOf[m] = k
      <3>1. Queued(v, m)' <=> (\E i \in 1..Len(Tail(s)) : Tail(s)[i] = m)
        <4>1. Queued(v, m)' <=> (\E i \in 1..Len(line'[w][k]) : line'[w][k][i] = m)
          BY <2>3 DEF Queued
        <4>. QED
          BY <1>4, <4>1
      <3>2. Queued(v, m) <=> (\E i \in 1..Len(s) : s[i] = m)
        BY <2>3 DEF Queued
      <3>. HIDE DEF s, h
      <3>3. ASSUME NEW i \in 1..Len(Tail(s)), Tail(s)[i] = m PROVE (\E j \in 1..Len(s) : s[j] = m) /\ m # h
        <4>1. s[i + 1] = m /\ i + 1 \in 1..Len(s) /\ i + 1 # 1
          BY <1>2, <1>3, <3>3
        <4>2. m # s[1]
          BY <1>3, <1>5, <4>1
        <4>. QED
          BY <1>2, <4>1, <4>2
      <3>4. ASSUME NEW i \in 1..Len(s), s[i] = m, m # h PROVE \E j \in 1..Len(Tail(s)) : Tail(s)[j] = m
        <4>1. i # 1
          BY <1>2, <3>4
        <4>2. i - 1 \in 1..Len(Tail(s)) /\ (i - 1) + 1 = i
          BY <1>2, <4>1
        <4>3. Tail(s)[i - 1] = m
          BY <1>2, <3>4, <4>2
        <4>. QED
          BY <4>2, <4>3
      <3>. QED
        BY <2>3, <3>1, <3>2, <3>3, <3>4
    <2>. QED
      BY <2>2, <2>3
  <1>. QED
    BY <1>2, <1>4, <1>7, <1>8, <1>9

\* The handlers.
LEMMA BeginKeeps ==
    ASSUME PQInv, NEW w \in Workers, NEW k \in Keys, Pipe!Begin(w, k)
    PROVE  PQInv'
  <1>1. /\ UNCHANGED <<cursor, pending, mode, inFlight, line, acking, batch, retry, done, parked>>
        /\ busy' = [busy EXCEPT ![w] = busy[w] \cup {k}] /\ line[w][k] # <<>>
        /\ stage' = stage \/ (stage' = [stage EXCEPT ![w] = "late"] /\ Pipe!Holder(w, k) = retry[w])
    BY DEF Pipe!Begin, Pipe!redisVars, Pipe!readerVars, PQInv, PQTyped
  <1>2. Pipe!Holder(w, k) \in Pipe!Msgs /\ Queued(w, Pipe!Holder(w, k))
    <2>1. line[w][k] \in Seq(Pipe!Msgs) /\ Len(line[w][k]) \in Nat \ {0}
      BY <1>1, EmptySeq DEF PQInv, PQTyped
    <2>2. Pipe!Holder(w, k) \in Pipe!Msgs /\ Pipe!Holder(w, k) = line[w][k][1] /\ 1 \in 1..Len(line[w][k])
      BY <1>1, <2>1, HeadTailProperties DEF Pipe!Holder
    <2>3. KeyOf[Pipe!Holder(w, k)] = k
      BY <2>2 DEF PQInv, KeyLines
    <2>. QED
      BY <2>2, <2>3 DEF Queued
  <1>3. stage' # stage => stage[w] \in {"line", "late"}
    BY <1>1, <1>2 DEF PQInv, Tracked, Waits, Apart
  <1>4. PQTyped'
    <2>1. stage' \in [Workers -> Pipe!Stages]
      BY <1>1 DEF PQInv, PQTyped, Pipe!Stages
    <2>2. busy' \in [Workers -> SUBSET Keys]
      BY <1>1 DEF PQInv, PQTyped
    <2>. QED
      BY <1>1, <2>1, <2>2 DEF PQInv, PQTyped
  <1>5. KeyLines'
    <2>1. \A v \in Workers, j \in Keys : j \in busy'[v] => j \in busy[v] \/ (v = w /\ j = k)
      BY <1>1 DEF PQInv, PQTyped
    <2>. QED
      BY <1>1, <2>1 DEF PQInv, KeyLines
  <1>6. \A v \in Workers : stage'[v] = stage[v] \/ (stage[v] = "line" /\ stage'[v] = "late")
    BY <1>1, <1>3 DEF PQInv, PQTyped
  <1>7. Delivered' /\ Apart' /\ Pipe!NothingLost' /\ Settling' /\ Retrying'
    BY <1>1, <1>6 DEF PQInv, Delivered, Apart, Pipe!NothingLost, Settling, Retrying
  <1>8. Tracked'
    <2>1. \A v \in Workers, m \in Pipe!Msgs : Waits(v, m)' <=> Waits(v, m)
      BY <1>1, <1>6 DEF Waits
    <2>2. \A v \in Workers, m \in Pipe!Msgs : Queued(v, m)' <=> Queued(v, m)
      BY <1>1 DEF Queued
    <2>. QED
      BY <2>1, <2>2 DEF PQInv, Tracked
  <1>. QED
    BY <1>4, <1>5, <1>7, <1>8 DEF PQInv

LEMMA FinishKeeps ==
    ASSUME Pipe!PipelineConstants,
           PQInv, NEW w \in Workers, NEW k \in Keys, Pipe!Succeed(w, k) \/ Pipe!ParkLate(w, k) \/ Pipe!Fail(w, k)
    PROVE  PQInv'
  <1>. DEFINE m == Pipe!Holder(w, k)
  <1>1. k \in busy[w] /\ Pipe!LetGo(w, k) /\ UNCHANGED <<cursor, pending, mode, batch, retry>>
    BY DEF Pipe!Succeed, Pipe!ParkLate, Pipe!Fail, Pipe!redisVars, Pipe!readerVars
  <1>2. /\ m \in Pipe!Msgs /\ Queued(w, m)
        /\ line' \in [Workers -> [Keys -> Seq(Pipe!Msgs)]] /\ busy' \in [Workers -> SUBSET Keys]
        /\ KeyLines'
        /\ \A v \in Workers, o \in Pipe!Msgs : Queued(v, o)' <=> Queued(v, o) /\ (v # w \/ o # m)
    BY <1>1, LetGoLines
  <1>3. \/ /\ m = retry[w] /\ UNCHANGED <<inFlight, acking>>
           /\ \/ done' = done \cup {m} /\ parked' = parked /\ stage' = [stage EXCEPT ![w] = "ack"]
              \/ done' = done /\ parked' = parked \cup {m} /\ stage' = [stage EXCEPT ![w] = "ack"]
              \/ done' = done /\ parked' = parked /\ stage' = [stage EXCEPT ![w] = "count"]
        \/ /\ m # retry[w] /\ UNCHANGED <<stage, inFlight, parked>>
           /\ done' = done \cup {m} /\ acking' = [acking EXCEPT ![w] = acking[w] \cup {m}]
        \/ /\ m # retry[w] /\ UNCHANGED <<stage, acking, done, parked>>
           /\ inFlight' = [inFlight EXCEPT ![w] = inFlight[w] \ {m}]
    BY DEF Pipe!Succeed, Pipe!ParkLate, Pipe!Fail, Pipe!Late, PQInv, PQTyped
  <1>. HIDE DEF m
  <1>4. Waits(w, m)
    BY <1>2 DEF PQInv, Tracked
  <1>5. CASE /\ m = retry[w] /\ UNCHANGED <<inFlight, acking>>
             /\ \/ done' = done \cup {m} /\ parked' = parked /\ stage' = [stage EXCEPT ![w] = "ack"]
                \/ done' = done /\ parked' = parked \cup {m} /\ stage' = [stage EXCEPT ![w] = "ack"]
                \/ done' = done /\ parked' = parked /\ stage' = [stage EXCEPT ![w] = "count"]
    <2>0. stage[w] \in {"line", "late"}
      BY <1>4, <1>5 DEF Waits, PQInv, Apart
    <2>1. PQTyped'
      <3>1. stage' \in [Workers -> Pipe!Stages]
        BY <1>5 DEF PQInv, PQTyped, Pipe!Stages
      <3>. QED
        BY <1>1, <1>2, <1>5, <3>1 DEF PQInv, PQTyped
    <2>2. /\ \A v \in Workers \ {w} : stage'[v] = stage[v]
          /\ stage'[w] \in {"ack", "count"} /\ (stage'[w] = "ack" => m \in done' \cup parked')
          /\ done \subseteq done' /\ parked \subseteq parked'
      BY <1>5 DEF PQInv, PQTyped
    <2>3. Delivered' /\ Apart' /\ Pipe!NothingLost'
      BY <1>1, <1>5, <2>2 DEF PQInv, Delivered, Apart, Pipe!NothingLost
    <2>4. Settling' /\ Retrying'
      BY <1>1, <1>5, <2>0, <2>2 DEF PQInv, Settling, Retrying
    <2>5. \A v \in Workers, o \in Pipe!Msgs : Waits(v, o)' <=> Waits(v, o) /\ (v # w \/ o # m)
      <3>1. m \notin inFlight[w]
        BY <1>5 DEF PQInv, Apart
      <3>. QED
        BY <1>1, <1>5, <2>0, <2>2, <3>1 DEF Waits
    <2>6. Tracked'
      BY <1>2, <2>5 DEF PQInv, Tracked
    <2>. QED
      BY <1>2, <2>1, <2>3, <2>4, <2>6 DEF PQInv
  <1>6. CASE /\ m # retry[w] /\ UNCHANGED <<stage, inFlight, parked>>
             /\ done' = done \cup {m} /\ acking' = [acking EXCEPT ![w] = acking[w] \cup {m}]
    <2>1. PQTyped'
      BY <1>1, <1>2, <1>6 DEF PQInv, PQTyped
    <2>2. acking'[w] = acking[w] \cup {m} /\ \A v \in Workers \ {w} : acking'[v] = acking[v]
      BY <1>6 DEF PQInv, PQTyped
    <2>3. m \in inFlight[w]
      BY <1>4, <1>6 DEF Waits
    <2>4. Delivered' /\ Apart' /\ Pipe!NothingLost' /\ Settling' /\ Retrying'
      BY <1>1, <1>6, <2>2, <2>3 DEF PQInv, Delivered, Apart, Pipe!NothingLost, Settling, Retrying
    <2>5. \A v \in Workers, o \in Pipe!Msgs : Waits(v, o)' <=> Waits(v, o) /\ (v # w \/ o # m)
      BY <1>1, <1>6, <2>2 DEF Waits
    <2>6. Tracked'
      BY <1>2, <2>5 DEF PQInv, Tracked
    <2>. QED
      BY <1>2, <2>1, <2>4, <2>6 DEF PQInv
  <1>7. CASE /\ m # retry[w] /\ UNCHANGED <<stage, acking, done, parked>>
             /\ inFlight' = [inFlight EXCEPT ![w] = inFlight[w] \ {m}]
    <2>1. PQTyped'
      BY <1>1, <1>2, <1>7 DEF PQInv, PQTyped
    <2>2. inFlight'[w] = inFlight[w] \ {m} /\ \A v \in Workers \ {w} : inFlight'[v] = inFlight[v]
      BY <1>7 DEF PQInv, PQTyped
    <2>3. m \notin acking[w]
      BY <1>4, <1>7 DEF Waits
    <2>4. Delivered' /\ Pipe!NothingLost' /\ Settling' /\ Retrying'
      BY <1>1, <1>7, <2>2 DEF PQInv, Delivered, Pipe!NothingLost, Settling, Retrying
    <2>5. Apart'
      BY <1>1, <1>7, <2>2, <2>3 DEF PQInv, Apart
    <2>6. \A v \in Workers, o \in Pipe!Msgs : Waits(v, o)' <=> Waits(v, o) /\ (v # w \/ o # m)
      BY <1>1, <1>7, <2>2 DEF Waits
    <2>7. Tracked'
      BY <1>2, <2>6 DEF PQInv, Tracked
    <2>. QED
      BY <1>2, <2>1, <2>4, <2>5, <2>7 DEF PQInv
  <1>. QED
    BY <1>3, <1>5, <1>6, <1>7

\* A message leaves the list of those in flight once it was acknowledged, or could not be.
LEMMA AckKeeps ==
    ASSUME PQInv, NEW w \in Workers, NEW m \in Pipe!Msgs, Pipe!Ack(w, m) \/ Pipe!AckFails(w, m)
    PROVE  PQInv'
  <1>1. /\ m \in acking[w] /\ pending' \in {pending, pending \ {m}}
        /\ acking' = [acking EXCEPT ![w] = acking[w] \ {m}]
        /\ inFlight' = [inFlight EXCEPT ![w] = inFlight[w] \ {m}]
        /\ UNCHANGED <<cursor, mode, line, busy, batch, retry, stage, done, parked>>
    BY DEF Pipe!Ack, Pipe!AckFails, Pipe!redisVars, Pipe!readerVars, Pipe!lineVars, Pipe!recoverVars, PQInv, PQTyped
  <1>2. /\ acking'[w] = acking[w] \ {m} /\ inFlight'[w] = inFlight[w] \ {m}
        /\ \A v \in Workers \ {w} : acking'[v] = acking[v] /\ inFlight'[v] = inFlight[v]
    BY <1>1 DEF PQInv, PQTyped
  <1>3. PQTyped'
    BY <1>1 DEF PQInv, PQTyped
  <1>4. Delivered'
    BY <1>1, <1>2 DEF PQInv, Delivered
  <1>5. KeyLines'
    BY <1>1 DEF PQInv, KeyLines
  <1>6. Apart'
    BY <1>1, <1>2 DEF PQInv, Apart
  <1>7. Settling' /\ Retrying' /\ Pipe!NothingLost'
    BY <1>1, <1>2 DEF PQInv, Settling, Retrying, Pipe!NothingLost
  <1>8. Tracked'
    <2>1. \A v \in Workers, o \in Pipe!Msgs : Waits(v, o)' <=> Waits(v, o)
      BY <1>1, <1>2 DEF Waits
    <2>2. \A v \in Workers, o \in Pipe!Msgs : Queued(v, o)' <=> Queued(v, o)
      BY <1>1 DEF Queued
    <2>. QED
      BY <2>1, <2>2 DEF PQInv, Tracked
  <1>. QED
    BY <1>3, <1>4, <1>5, <1>6, <1>7, <1>8 DEF PQInv

LEMMA CrashKeeps ==
    ASSUME Pipe!PipelineConstants,
           PQInv, NEW w \in Workers, Pipe!Crash(w)
    PROVE  PQInv'
  <1>1. /\ mode' = [mode EXCEPT ![w] = "down"]
        /\ inFlight' = [inFlight EXCEPT ![w] = {}] /\ acking' = [acking EXCEPT ![w] = {}]
        /\ line' = [line EXCEPT ![w] = [k \in Keys |-> <<>>]] /\ busy' = [busy EXCEPT ![w] = {}]
        /\ batch' = [batch EXCEPT ![w] = <<>>] /\ retry' = [retry EXCEPT ![w] = 0]
        /\ stage' = [stage EXCEPT ![w] = "next"]
        /\ UNCHANGED <<cursor, pending, done, parked>>
    BY DEF Pipe!Crash, Pipe!redisVars
  <1>2. /\ inFlight'[w] = {} /\ acking'[w] = {} /\ busy'[w] = {} /\ batch'[w] = <<>>
        /\ retry'[w] = 0 /\ stage'[w] = "next" /\ \A k \in Keys : line'[w][k] = <<>>
        /\ \A v \in Workers \ {w} :
              /\ mode'[v] = mode[v] /\ inFlight'[v] = inFlight[v] /\ acking'[v] = acking[v]
              /\ line'[v] = line[v] /\ busy'[v] = busy[v] /\ batch'[v] = batch[v]
              /\ retry'[v] = retry[v] /\ stage'[v] = stage[v]
    BY <1>1 DEF PQInv, PQTyped
  <1>3. PQTyped'
    <2>1. line' \in [Workers -> [Keys -> Seq(Pipe!Msgs)]]
      BY <1>1 DEF PQInv, PQTyped
    <2>2. batch' \in [Workers -> Seq(Pipe!Msgs)]
      BY <1>1 DEF PQInv, PQTyped
    <2>. QED
      BY <1>1, <2>1, <2>2 DEF PQInv, PQTyped, Pipe!Stages, Pipe!Modes
  <1>4. 1..Len(<<>>) = {}
    OBVIOUS
  <1>5. Delivered'
    <2>1. 0 <= cursor
      BY PQBounds DEF PQInv, PQTyped
    <2>2. ASSUME NEW v \in Workers
          PROVE  /\ \A m \in inFlight'[v] : m <= cursor
                 /\ \A i \in 1..Len(batch'[v]) : batch'[v][i] <= cursor
                 /\ retry'[v] <= cursor
      <3>1. CASE v = w
        BY <1>2, <1>4, <2>1, <3>1
      <3>2. CASE v # w
        BY <1>2, <3>2 DEF PQInv, Delivered
      <3>. QED
        BY <3>1, <3>2
    <2>. QED
      BY <1>1, <2>2 DEF PQInv, Delivered
  <1>6. KeyLines'
    <2>1. ASSUME NEW v \in Workers, NEW k \in Keys
          PROVE  /\ \A i \in 1..Len(line'[v][k]) : KeyOf[line'[v][k][i]] = k
                 /\ \A i, j \in 1..Len(line'[v][k]) : line'[v][k][i] = line'[v][k][j] => i = j
                 /\ k \in busy'[v] => line'[v][k] # <<>>
      <3>1. CASE v = w
        BY <1>2, <1>4, <3>1
      <3>2. CASE v # w
        BY <1>2, <3>2 DEF PQInv, KeyLines
      <3>. QED
        BY <3>1, <3>2
    <2>. QED
      BY <2>1 DEF KeyLines
  <1>7. Apart' /\ Settling' /\ Retrying' /\ Pipe!NothingLost'
    BY <1>1, <1>2 DEF PQInv, Apart, Settling, Retrying, Pipe!NothingLost
  <1>8. Tracked'
    <2>1. ASSUME NEW v \in Workers, NEW m \in Pipe!Msgs PROVE Queued(v, m)' <=> Waits(v, m)'
      <3>1. CASE v = w
        <4>1. KeyOf[m] \in Keys
          BY PQBounds
        <4>2. ~Queued(w, m)'
          BY <1>2, <1>4, <4>1 DEF Queued
        <4>. QED
          BY <1>2, <3>1, <4>2 DEF Waits
      <3>2. CASE v # w
        <4>1. Queued(v, m)' <=> Queued(v, m)
          BY <1>2, <3>2 DEF Queued
        <4>2. Waits(v, m)' <=> Waits(v, m)
          BY <1>2, <3>2 DEF Waits
        <4>3. Queued(v, m) <=> Waits(v, m)
          BY DEF PQInv, Tracked
        <4>. QED
          BY <4>1, <4>2, <4>3
      <3>. QED
        BY <3>1, <3>2
    <2>. QED
      BY <2>1 DEF Tracked
  <1>. QED
    BY <1>3, <1>5, <1>6, <1>7, <1>8 DEF PQInv

\* A read whose reply was lost leaves pending entries that nobody was given.
LEMMA ReplyLostKeeps ==
    ASSUME Pipe!PipelineConstants, PQInv, NEW w \in Workers, Pipe!ReplyLost(w)
    PROVE  PQInv'
  <1>1. /\ UNCHANGED <<inFlight, line, busy, acking, done, parked>>
        /\ Pipe!ReadReplyLost(w) \/ Pipe!ClaimReplyLost(w) \/ Pipe!AckReplyLost(w)
    BY DEF Pipe!ReplyLost, Pipe!lineVars
  <1>2. CASE Pipe!AckReplyLost(w)
    BY <1>2, RetryKeeps
  <1>3. CASE Pipe!ClaimReplyLost(w)
    BY <1>1, <1>3, PQFrame DEF Pipe!ClaimReplyLost, Pipe!recoverVars, PQInv, PQTyped
  <1>4. CASE Pipe!ReadReplyLost(w)
    <2>1. PICK n \in 1..ReadCount :
             /\ cursor + n <= NumMsgs /\ cursor' = cursor + n
             /\ pending' = pending \cup (cursor + 1)..(cursor + n)
      BY <1>4 DEF Pipe!ReadReplyLost
    <2>2. UNCHANGED <<mode, batch, retry, stage>>
      BY <1>4 DEF Pipe!ReadReplyLost
    <2>3. /\ cursor \in Nat /\ n \in Nat /\ NumMsgs \in Nat /\ cursor' \in 0..NumMsgs
          /\ (cursor + 1)..(cursor + n) \subseteq Pipe!Msgs
          /\ \A x \in Nat : x <= cursor => x <= cursor'
          /\ \A m \in 1..cursor' : m \in 1..cursor \/ m \in (cursor + 1)..(cursor + n)
          /\ \A m \in (cursor + 1)..(cursor + n) : m <= cursor'
      BY <2>1, PQBounds, Pipe!PipelineConstants DEF PQInv, PQTyped, Pipe!Msgs
    <2>4. PQTyped'
      BY <1>1, <2>1, <2>2, <2>3 DEF PQInv, PQTyped
    <2>5. Delivered'
      <3>1. PQTyped /\ Pipe!Msgs \subseteq Nat
        BY PQBounds DEF PQInv
      <3>2. \A m \in pending' : m <= cursor'
        BY <2>1, <2>3, <3>1 DEF PQInv, PQTyped, Delivered
      <3>3. ASSUME NEW v \in Workers
            PROVE  /\ \A m \in inFlight[v] : m <= cursor'
                   /\ \A i \in 1..Len(batch[v]) : batch[v][i] <= cursor'
                   /\ retry[v] <= cursor'
        <4>1. /\ inFlight[v] \subseteq Nat /\ retry[v] \in Nat
          <5>1. inFlight[v] \subseteq Pipe!Msgs /\ retry[v] \in Pipe!Msgs \cup {0}
            BY <3>1 DEF PQTyped
          <5>2. /\ \A m \in Pipe!Msgs : m \in Nat
                /\ 0 \in Nat
            BY <3>1
          <5>3. retry[v] \in Nat
            BY <5>1, <5>2
          <5>. QED
            BY <5>1, <5>2, <5>3
        <4>2. \A i \in 1..Len(batch[v]) : batch[v][i] \in Nat
          <5>1. batch[v] \in Seq(Pipe!Msgs)
            BY <3>1 DEF PQTyped
          <5>. QED
            BY <3>1, <5>1, ElementOfSeq
        <4>. QED
          BY <2>3, <4>1, <4>2 DEF PQInv, Delivered
      <3>. QED
        BY <1>1, <2>2, <3>2, <3>3 DEF Delivered
    <2>6. KeyLines' /\ Apart' /\ Settling' /\ Retrying' /\ Tracked'
      BY <1>1, <2>2 DEF PQInv, KeyLines, Apart, Settling, Retrying, Tracked, Queued, Waits
    <2>7. Pipe!NothingLost'
      BY <1>1, <2>1, <2>3 DEF PQInv, Pipe!NothingLost
    <2>. QED
      BY <2>4, <2>5, <2>6, <2>7 DEF PQInv
  <1>. QED
    BY <1>1, <1>2, <1>3, <1>4

LEMMA PQNext ==
    ASSUME Pipe!PipelineConstants
    PROVE  PQInv /\ [Pipe!Next]_(Pipe!vars) => PQInv'
  <1>. SUFFICES ASSUME PQInv, [Pipe!Next]_(Pipe!vars) PROVE PQInv'
    OBVIOUS
  <1>1. CASE UNCHANGED Pipe!vars
    BY <1>1, PQFrame DEF Pipe!vars, Pipe!redisVars, Pipe!readerVars, Pipe!lineVars, Pipe!recoverVars, PQInv, PQTyped
  <1>2. CASE Pipe!Tick
    BY <1>2, QuietKeeps
  <1>3. ASSUME NEW w \in Workers, Pipe!Reader(w) \/ Pipe!Recover(w) \/ Pipe!ReaderFails(w) \/ Pipe!ReplyLost(w) \/ Pipe!Crash(w) \/ Pipe!Sigterm(w)
        PROVE  PQInv'
    BY <1>3, QuietKeeps, RecoverKeeps, ReadKeeps, NextRetryKeeps, RetryKeeps, ReplyLostKeeps, CrashKeeps DEF Pipe!Reader
  <1>4. ASSUME NEW w \in Workers, NEW k \in Keys, Pipe!Handler(w, k) PROVE PQInv'
    BY <1>4, QuietKeeps, BeginKeeps, FinishKeeps DEF Pipe!Handler
  <1>5. ASSUME NEW w \in Workers, NEW m \in Pipe!Msgs, Pipe!Ack(w, m) \/ Pipe!AckFails(w, m) PROVE PQInv'
    BY <1>5, AckKeeps
  <1>. QED
    BY <1>1, <1>2, <1>3, <1>4, <1>5 DEF Pipe!Next

\* "A delivered message is pending, handled or parked", whatever crashes, is
\* reclaimed, retried or acknowledged when.
THEOREM PipelineLosesNothing == Pipe!PipelineConstants => (Pipe!Spec => []Pipe!NothingLost)
  <1>. SUFFICES ASSUME Pipe!PipelineConstants PROVE Pipe!Spec => []Pipe!NothingLost
    OBVIOUS
  <1>1. PQInv => Pipe!NothingLost
    BY DEF PQInv
  <1>. QED
    BY PQInit, PQNext, <1>1, PTL DEF Pipe!Spec

\* No place in flight is taken for good: what has one waits in its line, runs at its
\* head or is being acknowledged, once only, and in no other process.
PlacesWorked ==
    /\ \A w \in Workers, m \in Pipe!Msgs : m \in inFlight[w] => m \in acking[w] \/ Queued(w, m)
    /\ \A w \in Workers, k \in Keys : \A i, j \in 1..Len(line[w][k]) :
          line[w][k][i] = line[w][k][j] => i = j
    /\ \A v, w \in Workers : v # w => inFlight[v] \cap inFlight[w] = {}

\* The claim that a full pipeline empties again (consume_pipelined stops reading at
\* _MAX_IN_FLIGHT) rests on this.
THEOREM EveryPlaceIsWorked == Pipe!PipelineConstants => (Pipe!Spec => []PlacesWorked)
  <1>. SUFFICES ASSUME Pipe!PipelineConstants PROVE Pipe!Spec => []PlacesWorked
    OBVIOUS
  <1>1. PQInv => PlacesWorked
    BY DEF PQInv, KeyLines, Tracked, Waits, Apart, PlacesWorked
  <1>. QED
    BY PQInit, PQNext, <1>1, PTL DEF Pipe!Spec

\* Only an acknowledgement takes an entry off the pending list.
LEMMA PQPending ==
    ASSUME [Pipe!Next]_(Pipe!vars), pending \ pending' # {}
    PROVE  \E w \in Workers : Pipe!AckRetry(w) \/ Pipe!AckReplyLost(w) \/ \E m \in Pipe!Msgs : Pipe!Ack(w, m)
  <1>. USE DEF Pipe!redisVars, Pipe!readerVars, Pipe!lineVars, Pipe!recoverVars
  <1>1. ~UNCHANGED Pipe!vars /\ ~Pipe!Tick
    BY DEF Pipe!vars, Pipe!Tick
  <1>2. ASSUME NEW w \in Workers, Pipe!Reader(w) \/ Pipe!Recover(w) \/ Pipe!ReaderFails(w) \/ Pipe!ReplyLost(w) \/ Pipe!Crash(w) \/ Pipe!Sigterm(w)
        PROVE  Pipe!AckRetry(w) \/ Pipe!AckReplyLost(w)
    BY <1>2 DEF Pipe!Reader, Pipe!Leave, Pipe!SkipRecovery, Pipe!Read, Pipe!NoRead, Pipe!Drained, Pipe!NextRetry, Pipe!EndRecovery, Pipe!CountAttempts,
       Pipe!Park, Pipe!Restart, Pipe!Recover, Pipe!ReaderFails, Pipe!ReplyLost, Pipe!ReadReplyLost, Pipe!ClaimReplyLost, Pipe!Crash, Pipe!Sigterm
  <1>3. \A w \in Workers, k \in Keys : ~Pipe!Handler(w, k)
    BY DEF Pipe!Handler, Pipe!Begin, Pipe!Speak, Pipe!Succeed, Pipe!ParkLate, Pipe!Fail
  <1>4. \A w \in Workers, m \in Pipe!Msgs : ~Pipe!AckFails(w, m)
    BY DEF Pipe!AckFails
  <1>. QED
    BY <1>1, <1>2, <1>3, <1>4 DEF Pipe!Next

\* The recovery pass of a process settles nothing that its own handlers hold.
THEOREM PipelineKeepsOwnWork == Pipe!PipelineConstants => (Pipe!Spec => Pipe!OwnWorkStaysPending)
  <1>. SUFFICES ASSUME Pipe!PipelineConstants PROVE Pipe!Spec => Pipe!OwnWorkStaysPending
    OBVIOUS
  <1>1. PQInv /\ [Pipe!Next]_(Pipe!vars) =>
            [\A w \in Workers : \A m \in inFlight[w] \cap (pending \ pending') :
                m \in acking[w] \/ \E v \in Workers \ {w} : retry[v] = m]_(Pipe!vars)
    <2>. SUFFICES ASSUME PQInv, [Pipe!Next]_(Pipe!vars), NEW w \in Workers, NEW m \in inFlight[w],
                         m \in pending \ pending', m \notin acking[w]
                  PROVE  \E v \in Workers \ {w} : retry[v] = m
      OBVIOUS
    <2>1. PICK v \in Workers : Pipe!AckRetry(v) \/ Pipe!AckReplyLost(v) \/ \E o \in Pipe!Msgs : Pipe!Ack(v, o)
      BY PQPending
    <2>2. CASE Pipe!AckRetry(v) \/ Pipe!AckReplyLost(v)
      BY <2>2 DEF Pipe!AckRetry, Pipe!AckReplyLost, PQInv, Apart
    <2>3. CASE \E o \in Pipe!Msgs : Pipe!Ack(v, o)
      <3>1. m \in acking[v]
        BY <2>3 DEF Pipe!Ack
      <3>. QED
        BY <3>1 DEF PQInv, Apart
    <2>. QED
      BY <2>1, <2>2, <2>3
  <1>. QED
    BY PQInit, PQNext, <1>1, PTL DEF Pipe!Spec, Pipe!OwnWorkStaysPending

-----------------------------------------------------------------------------
(* Order in a line.  Whatever stands behind an entry that was read was     *)
(* delivered after it or is a retry, and what a process has begun of a key *)
(* stood before those it has in flight.                                    *)

\* What was spoken last of a key is a place of a delivered message of that key.
Spoken ==
    \A w \in Workers, k \in Keys :
       /\ spoken[w][k] \in Nat
       /\ spoken[w][k] = 0 \/ \E n \in Pipe!Msgs : n <= cursor /\ KeyOf[n] = k /\ spoken[w][k] = Position[n]

InLineOrder ==
    \A w \in Workers, k \in Keys : \A i, j \in 1..Len(line[w][k]) :
       j < i /\ line[w][k][i] \in inFlight[w] => line[w][k][j] < line[w][k][i]

NotPassed(w, m) == Position[m] = 0 \/ spoken[w][KeyOf[m]] <= Position[m]

Foremost ==
    /\ \A w \in Workers : \A m \in inFlight[w] \ acking[w] : NotPassed(w, m)
    /\ \A w \in Workers : \A k \in busy[w] :
          Pipe!Holder(w, k) = retry[w] /\ stage[w] = "line" => NotPassed(w, retry[w])

OrderInv == Spoken /\ spoken \in [Workers -> [Keys -> Nat]] /\ InLineOrder /\ Foremost

\* The head of a line that is not empty.
LEMMA HeadOfLine ==
    ASSUME PQInv, NEW w \in Workers, NEW k \in Keys, line[w][k] # <<>>
    PROVE  /\ line[w][k] \in Seq(Pipe!Msgs) /\ 1 \in 1..Len(line[w][k])
           /\ Pipe!Holder(w, k) = line[w][k][1] /\ Pipe!Holder(w, k) \in Pipe!Msgs
           /\ KeyOf[Pipe!Holder(w, k)] = k /\ Waits(w, Pipe!Holder(w, k)) /\ Pipe!Holder(w, k) <= cursor
  <1>1. line[w][k] \in Seq(Pipe!Msgs) /\ Len(line[w][k]) \in Nat \ {0}
    BY EmptySeq DEF PQInv, PQTyped
  <1>2. /\ Pipe!Holder(w, k) \in Pipe!Msgs /\ Pipe!Holder(w, k) = line[w][k][1]
        /\ 1 \in 1..Len(line[w][k])
    BY <1>1, HeadTailProperties DEF Pipe!Holder
  <1>3. KeyOf[Pipe!Holder(w, k)] = k
    BY <1>2 DEF PQInv, KeyLines
  <1>4. Waits(w, Pipe!Holder(w, k))
    BY <1>2, <1>3 DEF PQInv, Tracked, Queued
  <1>5. Pipe!Holder(w, k) <= cursor
    BY <1>4 DEF Waits, PQInv, Delivered
  <1>. QED
    BY <1>1, <1>2, <1>3, <1>4, <1>5

\* Whatever leaves the lines alone and puts nothing in flight.
LEMMA OrderFrame ==
    ASSUME Pipe!PipelineConstants, PQInv, PQInv', OrderInv, UNCHANGED <<line, spoken>>, cursor <= cursor',
           \A w \in Workers :
              /\ inFlight'[w] \subseteq inFlight[w]
              /\ inFlight'[w] \ acking'[w] \subseteq inFlight[w] \ acking[w]
              /\ busy'[w] \subseteq busy[w]
              /\ stage'[w] = "line" => stage[w] = "line" /\ retry'[w] = retry[w]
    PROVE  OrderInv'
  <1>1. Spoken'
    <2>1. \A n \in Pipe!Msgs : n <= cursor => n <= cursor'
      BY PQBounds DEF PQInv, PQTyped
    <2>. QED
      BY <2>1 DEF OrderInv, Spoken
  <1>2. InLineOrder'
    BY DEF OrderInv, InLineOrder
  <1>3. \A w \in Workers : \A m : NotPassed(w, m)' <=> NotPassed(w, m)
    BY DEF NotPassed
  <1>4. \A w \in Workers : \A m \in inFlight'[w] \ acking'[w] : NotPassed(w, m)'
    BY <1>3 DEF OrderInv, Foremost
  <1>5. ASSUME NEW w \in Workers, NEW k \in busy'[w], (Pipe!Holder(w, k) = retry[w])', stage'[w] = "line"
        PROVE  NotPassed(w, retry[w])'
    <2>1. Pipe!Holder(w, k) = retry[w] /\ stage[w] = "line" /\ retry'[w] = retry[w] /\ k \in busy[w]
      BY <1>5 DEF Pipe!Holder
    <2>2. NotPassed(w, retry[w])
      BY <2>1 DEF OrderInv, Foremost
    <2>. QED
      BY <2>1, <2>2 DEF NotPassed
  <1>. QED
    BY <1>1, <1>2, <1>4, <1>5 DEF OrderInv, Foremost

LEMMA QuietOrder ==
    ASSUME Pipe!PipelineConstants, PQInv, PQInv', OrderInv,
           \/ UNCHANGED Pipe!vars \/ Pipe!Tick
           \/ \E w \in Workers :
                \/ Pipe!Leave(w) \/ Pipe!SkipRecovery(w) \/ Pipe!NoRead(w) \/ Pipe!Drained(w) \/ Pipe!EndRecovery(w)
                \/ Pipe!Sigterm(w) \/ Pipe!Recover(w) \/ Pipe!CountAttempts(w) \/ Pipe!Park(w) \/ Pipe!AckRetry(w)
                \/ Pipe!ReaderFails(w) \/ Pipe!ReplyLost(w)
                \/ \E m \in Pipe!Msgs : Pipe!Ack(w, m) \/ Pipe!AckFails(w, m)
    PROVE  OrderInv'
  <1>. USE DEF Pipe!redisVars, Pipe!readerVars, Pipe!lineVars, Pipe!recoverVars
  <1>0. cursor \in Nat /\ PQTyped
    BY PQBounds DEF PQInv, PQTyped
  <1>1. CASE UNCHANGED Pipe!vars \/ Pipe!Tick
    BY <1>0, <1>1, OrderFrame DEF Pipe!vars, Pipe!Tick
  <1>2. ASSUME NEW w \in Workers,
               Pipe!Leave(w) \/ Pipe!SkipRecovery(w) \/ Pipe!NoRead(w) \/ Pipe!Drained(w) \/ Pipe!EndRecovery(w)
               \/ Pipe!Sigterm(w) \/ Pipe!Recover(w)
        PROVE  OrderInv'
    BY <1>0, <1>2, OrderFrame
    DEF Pipe!Leave, Pipe!SkipRecovery, Pipe!NoRead, Pipe!Drained, Pipe!EndRecovery, Pipe!Sigterm, Pipe!Recover
  <1>3. ASSUME NEW w \in Workers,
               Pipe!CountAttempts(w) \/ Pipe!Park(w) \/ Pipe!AckRetry(w) \/ Pipe!ReaderFails(w) \/ Pipe!ReplyLost(w)
        PROVE  OrderInv'
    <2>1. UNCHANGED <<line, spoken, inFlight, acking, busy>>
      BY <1>3 DEF Pipe!CountAttempts, Pipe!Park, Pipe!AckRetry, Pipe!ReaderFails, Pipe!ReplyLost
    <2>2. cursor <= cursor'
      <3>1. cursor' = cursor \/ \E n \in 1..ReadCount : cursor' = cursor + n
        BY <1>3 DEF Pipe!CountAttempts, Pipe!Park, Pipe!AckRetry, Pipe!ReaderFails, Pipe!ReplyLost,
                    Pipe!ReadReplyLost, Pipe!ClaimReplyLost, Pipe!AckReplyLost
      <3>. QED
        BY <1>0, <3>1
    <2>3. \/ UNCHANGED <<stage, retry>>
          \/ \E x \in {"next", "park", "ack"} : stage' = [stage EXCEPT ![w] = x] /\ (retry' = retry \/ retry' = [retry EXCEPT ![w] = 0])
      BY <1>0, <1>3 DEF Pipe!CountAttempts, Pipe!Park, Pipe!AckRetry, Pipe!ReaderFails, Pipe!ReplyLost, PQTyped,
                  Pipe!ReadReplyLost, Pipe!ClaimReplyLost, Pipe!AckReplyLost
    <2>4. \A v \in Workers : stage'[v] = "line" => stage[v] = "line" /\ retry'[v] = retry[v]
      BY <1>0, <2>3 DEF PQTyped
    <2>. QED
      BY <2>1, <2>2, <2>4, OrderFrame
  <1>4. ASSUME NEW w \in Workers, NEW m \in Pipe!Msgs, Pipe!Ack(w, m) \/ Pipe!AckFails(w, m) PROVE OrderInv'
    <2>1. /\ UNCHANGED <<line, spoken, cursor, busy, stage, retry>>
          /\ inFlight' = [inFlight EXCEPT ![w] = @ \ {m}] /\ acking' = [acking EXCEPT ![w] = @ \ {m}]
      BY <1>4 DEF Pipe!Ack, Pipe!AckFails
    <2>2. \A v \in Workers : /\ inFlight'[v] \subseteq inFlight[v]
                             /\ inFlight'[v] \ acking'[v] \subseteq inFlight[v] \ acking[v]
      BY <1>0, <2>1 DEF PQTyped
    <2>. QED
      BY <1>0, <2>1, <2>2, OrderFrame
  <1>. QED
    BY <1>1, <1>2, <1>3, <1>4

\* New entries stand behind the others, in stream order.
LEMMA ReadOrder ==
    ASSUME Pipe!PipelineConstants, Pipe!InStreamOrder, PQInv, PQInv', OrderInv, NEW w \in Workers, Pipe!Read(w)
    PROVE  OrderInv'
  <1>1. PICK n \in 1..ReadCount :
          /\ cursor + n <= NumMsgs /\ cursor' = cursor + n
          /\ inFlight' = [inFlight EXCEPT ![w] = @ \cup (cursor + 1)..(cursor + n)]
          /\ Pipe!Join(w, (cursor + 1)..(cursor + n))
    BY DEF Pipe!Read
  <1>2. UNCHANGED <<busy, acking, retry, stage, spoken>>
    BY DEF Pipe!Read, Pipe!recoverVars
  <1>3. PQTyped /\ Delivered /\ cursor \in Nat /\ n \in Nat /\ KeyLines
    BY PQBounds DEF PQInv, PQTyped
  <1>. DEFINE S == (cursor + 1)..(cursor + n)
  <1>4. /\ \A m \in S : m \in Pipe!Msgs /\ cursor < m
        /\ inFlight'[w] = inFlight[w] \cup S /\ \A v \in Workers \ {w} : inFlight'[v] = inFlight[v]
    BY <1>1, <1>3 DEF Pipe!Msgs, PQTyped
  <1>5. PICK new \in [Keys -> Pipe!Lists(ReadCount)] :
          /\ \A k \in Keys : /\ Pipe!Ascending(new[k])
                             /\ {new[k][i] : i \in 1..Len(new[k])} = {m \in S : KeyOf[m] = k}
          /\ line' = [line EXCEPT ![w] = [k \in Keys |-> line[w][k] \o new[k]]]
    BY <1>1, <1>3 DEF Pipe!Join, PQTyped
  <1>. HIDE DEF S
  <1>6. \A m \in Pipe!Msgs : m \in Nat
    BY PQBounds
  <1>7. Spoken'
    <2>1. \A m \in Pipe!Msgs : m <= cursor => m <= cursor'
      BY <1>1, <1>3, <1>6
    <2>. QED
      BY <1>2, <2>1 DEF OrderInv, Spoken
  <1>8. \A v \in Workers : \A m : NotPassed(v, m)' <=> NotPassed(v, m)
    BY <1>2 DEF NotPassed
  <1>9. ASSUME NEW v \in Workers, NEW m \in inFlight'[v] \ acking'[v] PROVE NotPassed(v, m)
    <2>1. CASE m \in inFlight[v]
      BY <1>2, <1>9, <2>1 DEF OrderInv, Foremost
    <2>2. CASE m \notin inFlight[v]
      <3>1. v = w /\ m \in S /\ m \in Pipe!Msgs /\ cursor < m
        BY <1>4, <1>9, <2>2
      <3>2. KeyOf[m] \in Keys /\ Position[m] \in Nat
        BY <3>1
      <3>3. CASE spoken[v][KeyOf[m]] = 0
        BY <3>2, <3>3 DEF NotPassed
      <3>4. CASE spoken[v][KeyOf[m]] # 0
        <4>1. PICK o \in Pipe!Msgs : o <= cursor /\ KeyOf[o] = KeyOf[m] /\ spoken[v][KeyOf[m]] = Position[o]
          BY <3>2, <3>4 DEF OrderInv, Spoken
        <4>2. o < m
          BY <1>3, <1>6, <3>1, <4>1
        <4>3. Position[m] > 0 => Position[o] <= Position[m]
          BY <3>1, <4>1, <4>2 DEF Pipe!InStreamOrder
        <4>. QED
          BY <3>2, <4>1, <4>3 DEF NotPassed
      <3>. QED
        BY <3>3, <3>4
    <2>. QED
      BY <2>1, <2>2
  <1>10. ASSUME NEW k \in Keys
         PROVE  /\ line[w][k] \in Seq(Pipe!Msgs) /\ new[k] \in Seq(Pipe!Msgs)
                /\ line'[w][k] = line[w][k] \o new[k]
                /\ \A i \in 1..Len(new[k]) : new[k][i] \in S
                /\ \A i \in 1..Len(line[w][k]) : line[w][k][i] <= cursor /\ line[w][k][i] \in Pipe!Msgs
    <2>1. line[w][k] \in Seq(Pipe!Msgs) /\ new[k] \in Seq(Pipe!Msgs)
      <3>1. PICK c \in {x \in 0..NumMsgs : x <= ReadCount} : new[k] \in [1..c -> Pipe!Msgs]
        BY <1>5 DEF Pipe!Lists
      <3>2. c \in Nat
        BY PQBounds
      <3>. QED
        BY <1>3, <3>1, <3>2, SeqDef DEF PQTyped
    <2>2. line'[w][k] = line[w][k] \o new[k]
      BY <1>3, <1>5 DEF PQTyped
    <2>3. \A i \in 1..Len(new[k]) : new[k][i] \in S
      BY <1>5
    <2>4. ASSUME NEW i \in 1..Len(line[w][k]) PROVE line[w][k][i] <= cursor /\ line[w][k][i] \in Pipe!Msgs
      <3>1. line[w][k][i] \in Pipe!Msgs /\ KeyOf[line[w][k][i]] = k
        BY <1>3, <2>1, <2>4, ElementOfSeq DEF KeyLines
      <3>2. Waits(w, line[w][k][i])
        BY <3>1 DEF PQInv, Tracked, Queued
      <3>. QED
        BY <1>3, <3>1, <3>2 DEF Waits, Delivered
    <2>. QED
      BY <2>1, <2>2, <2>3, <2>4
  <1>11. InLineOrder'
    <2>1. SUFFICES ASSUME NEW v \in Workers, NEW k \in Keys,
                          NEW i \in 1..Len(line'[v][k]), NEW j \in 1..Len(line'[v][k]),
                          j < i, line'[v][k][i] \in inFlight'[v]
                   PROVE  line'[v][k][j] < line'[v][k][i]
      BY DEF InLineOrder
    <2>2. CASE v # w
      <3>1. line'[v][k] = line[v][k] /\ inFlight'[v] = inFlight[v]
        BY <1>3, <1>4, <1>5, <2>2 DEF PQTyped
      <3>. QED
        BY <2>1, <3>1 DEF OrderInv, InLineOrder
    <2>3. CASE v = w
      <3>. DEFINE s == line[w][k]
                  t == new[k]
      <3>1. s \in Seq(Pipe!Msgs) /\ t \in Seq(Pipe!Msgs) /\ line'[w][k] = s \o t
        BY <1>10
      <3>2. Len(s) \in Nat /\ Len(t) \in Nat
        BY <3>1, LenProperties
      <3>a. /\ \A x \in 1..Len(s) : s[x] <= cursor /\ s[x] \in Nat
            /\ \A x \in 1..Len(t) : t[x] \in S /\ cursor < t[x] /\ t[x] \in Nat
        BY <1>4, <1>6, <1>10
      <3>b. \A x, y \in 1..Len(t) : x < y => t[x] < t[y]
        BY <1>5 DEF Pipe!Ascending
      <3>c. \A x, y \in 1..Len(s) : y < x /\ s[x] \in inFlight[w] => s[y] < s[x]
        BY DEF OrderInv, InLineOrder
      <3>. HIDE DEF s, t
      <3>3. /\ Len(s \o t) = Len(s) + Len(t)
            /\ \A x \in 1..Len(s) + Len(t) : (s \o t)[x] = IF x <= Len(s) THEN s[x] ELSE t[x - Len(s)]
        BY <3>1, ConcatProperties
      <3>4. i \in 1..Len(s) + Len(t) /\ j \in 1..Len(s) + Len(t)
        BY <2>1, <2>3, <3>1, <3>3
      <3>5. CASE i <= Len(s)
        <4>1. i \in 1..Len(s) /\ j \in 1..Len(s) /\ j <= Len(s)
          BY <2>1, <3>2, <3>4, <3>5
        <4>2. (s \o t)[i] = s[i] /\ (s \o t)[j] = s[j]
          BY <3>3, <3>4, <3>5, <4>1
        <4>3. s[i] \in inFlight[w]
          <5>1. s[i] \in inFlight[w] \cup S
            BY <1>4, <2>1, <2>3, <3>1, <4>2
          <5>2. s[i] \notin S
            BY <1>3, <1>4, <3>a, <4>1
          <5>. QED
            BY <5>1, <5>2
        <4>. QED
          BY <2>1, <2>3, <3>1, <3>c, <4>1, <4>2, <4>3
      <3>6. CASE ~(i <= Len(s)) /\ j <= Len(s)
        <4>1. i - Len(s) \in 1..Len(t) /\ j \in 1..Len(s)
          BY <3>2, <3>4, <3>6
        <4>2. (s \o t)[i] = t[i - Len(s)] /\ (s \o t)[j] = s[j]
          BY <3>3, <3>4, <3>6
        <4>3. s[j] < t[i - Len(s)]
          BY <1>3, <3>a, <4>1
        <4>. QED
          BY <2>3, <3>1, <4>2, <4>3
      <3>7. CASE ~(i <= Len(s)) /\ ~(j <= Len(s))
        <4>1. i - Len(s) \in 1..Len(t) /\ j - Len(s) \in 1..Len(t) /\ j - Len(s) < i - Len(s)
          BY <2>1, <3>2, <3>4, <3>7
        <4>2. (s \o t)[i] = t[i - Len(s)] /\ (s \o t)[j] = t[j - Len(s)]
          BY <3>3, <3>4, <3>7
        <4>. QED
          BY <2>3, <3>1, <3>b, <4>1, <4>2
      <3>. QED
        BY <3>5, <3>6, <3>7
    <2>. QED
      BY <2>2, <2>3
  <1>12. ASSUME NEW v \in Workers, NEW k \in busy'[v], (Pipe!Holder(v, k) = retry[v])', stage'[v] = "line"
         PROVE  NotPassed(v, retry[v])'
    <2>1. k \in Keys /\ k \in busy[v] /\ line[v][k] # <<>>
      BY <1>2, <1>3 DEF PQTyped, KeyLines
    <2>2. Pipe!Holder(v, k)' = Pipe!Holder(v, k)
      <3>1. CASE v = w
        <4>1. line'[w][k] = line[w][k] \o new[k] /\ line[w][k] \in Seq(Pipe!Msgs) /\ new[k] \in Seq(Pipe!Msgs)
          BY <1>10, <2>1
        <4>2. line'[w][k] \in Seq(Pipe!Msgs) /\ line'[w][k] # <<>> /\ line'[w][k][1] = line[w][k][1]
          <5>1. Len(line[w][k]) \in Nat \ {0} /\ 1 \in 1..Len(line[w][k])
            BY <2>1, <3>1, <4>1, EmptySeq
          <5>. QED
            BY <2>1, <3>1, <4>1, <5>1, ConcatElements
        <4>3. Head(line[w][k]) = line[w][k][1] /\ Head(line'[w][k]) = line'[w][k][1]
          BY <2>1, <3>1, <4>1, <4>2, HeadTailProperties
        <4>. QED
          BY <3>1, <4>2, <4>3 DEF Pipe!Holder
      <3>2. CASE v # w
        BY <1>3, <1>5, <3>2 DEF PQTyped, Pipe!Holder
      <3>. QED
        BY <3>1, <3>2
    <2>3. NotPassed(v, retry[v])
      BY <1>2, <1>12, <2>1, <2>2 DEF OrderInv, Foremost
    <2>. QED
      BY <1>2, <2>3 DEF NotPassed
  <1>. QED
    BY <1>2, <1>7, <1>8, <1>9, <1>11, <1>12 DEF OrderInv, Foremost

\* A retry is behind all, and nothing that stands behind it was read.
LEMMA NextRetryOrder ==
    ASSUME Pipe!PipelineConstants, PQInv, PQInv', OrderInv, NEW w \in Workers, Pipe!NextRetry(w)
    PROVE  OrderInv'
  <1>1. UNCHANGED <<cursor, inFlight, busy, acking, spoken>> /\ PQTyped /\ KeyLines
    BY DEF Pipe!NextRetry, PQInv, Pipe!redisVars, Pipe!readerVars
  <1>2. CASE UNCHANGED <<retry, stage, line>>
    <2>1. cursor \in Nat
      BY <1>1, PQBounds DEF PQTyped
    <2>. QED
      BY <1>1, <1>2, <2>1, OrderFrame
  <1>3. ASSUME NEW m \in Pipe!Msgs, m \notin inFlight[w], stage[w] = "next", retry' = [retry EXCEPT ![w] = m],
               stage' = [stage EXCEPT ![w] = "line"], line' = [line EXCEPT ![w][KeyOf[m]] = Append(@, m)]
        PROVE  OrderInv'
    <2>. DEFINE h == KeyOf[m]
                s == line[w][h]
    <2>1. /\ s \in Seq(Pipe!Msgs) /\ h \in Keys /\ line'[w][h] = Append(s, m) /\ m # 0
          /\ \A v \in Workers, k \in Keys : v # w \/ k # h => line'[v][k] = line[v][k]
          /\ retry'[w] = m /\ \A v \in Workers \ {w} : retry'[v] = retry[v] /\ stage'[v] = stage[v]
      BY <1>1, <1>3, PQBounds DEF PQTyped
    <2>2. ~Queued(w, m)
      BY <1>3, <2>1 DEF PQInv, Tracked, Waits
    <2>. HIDE DEF s, h
    <2>3. Spoken'
      BY <1>1 DEF OrderInv, Spoken
    <2>4. Len(s) \in Nat /\ Len(Append(s, m)) = Len(s) + 1 /\ Append(s, m)[Len(s) + 1] = m
          /\ \A i \in 1..Len(s) : Append(s, m)[i] = s[i]
      BY <2>1, AppendProperties, LenProperties
    <2>5. InLineOrder'
      <3>1. SUFFICES ASSUME NEW v \in Workers, NEW k \in Keys,
                            NEW i \in 1..Len(line'[v][k]), NEW j \in 1..Len(line'[v][k]),
                            j < i, line'[v][k][i] \in inFlight'[v]
                     PROVE  line'[v][k][j] < line'[v][k][i]
        BY DEF InLineOrder
      <3>2. CASE v # w \/ k # h
        BY <1>1, <2>1, <3>1, <3>2 DEF OrderInv, InLineOrder
      <3>3. CASE v = w /\ k = h
        <4>0. line'[w][h][i] \in inFlight[w] /\ line'[w][h] = Append(s, m)
          BY <1>1, <2>1, <3>1, <3>3
        <4>1. i # Len(s) + 1
          BY <1>3, <2>4, <4>0
        <4>2. i \in 1..Len(s) /\ j \in 1..Len(s)
          BY <2>1, <2>4, <3>1, <3>3, <4>1
        <4>3. line'[w][h][i] = s[i] /\ line'[w][h][j] = s[j] /\ s[i] \in inFlight[w]
          BY <1>1, <2>1, <2>4, <3>1, <3>3, <4>2
        <4>. QED
          BY <3>1, <3>3, <4>2, <4>3, <2>1 DEF OrderInv, InLineOrder, s
      <3>. QED
        BY <3>2, <3>3
    <2>6. \A v \in Workers : \A o : NotPassed(v, o)' <=> NotPassed(v, o)
      BY <1>1 DEF NotPassed
    <2>7. ASSUME NEW v \in Workers, NEW k \in busy'[v], (Pipe!Holder(v, k) = retry[v])', stage'[v] = "line"
          PROVE  NotPassed(v, retry[v])'
      <3>1. k \in Keys /\ k \in busy[v] /\ line[v][k] # <<>>
        BY <1>1 DEF PQTyped, KeyLines
      <3>2. Pipe!Holder(v, k)' = Pipe!Holder(v, k)
        <4>1. CASE v # w \/ k # h
          BY <2>1, <3>1, <4>1 DEF Pipe!Holder
        <4>2. CASE v = w /\ k = h
          <5>1. s # <<>> /\ Len(s) \in Nat \ {0} /\ 1 \in 1..Len(s)
            BY <2>1, <3>1, <4>2, EmptySeq DEF s
          <5>2. Append(s, m) \in Seq(Pipe!Msgs) /\ Append(s, m) # <<>>
            BY <2>1, AppendProperties
          <5>3. Head(s) = s[1] /\ Head(Append(s, m)) = Append(s, m)[1]
            BY <2>1, <5>1, <5>2, HeadTailProperties
          <5>4. Head(Append(s, m)) = Head(s)
            BY <2>4, <5>1, <5>3
          <5>. QED
            BY <2>1, <4>2, <5>4 DEF Pipe!Holder, s
        <4>. QED
          BY <4>1, <4>2
      <3>3. CASE v = w
        <4>1. Pipe!Holder(w, k) = m
          BY <2>1, <2>7, <3>2, <3>3
        <4>2. Pipe!Holder(w, k) = line[w][k][1] /\ 1 \in 1..Len(line[w][k]) /\ KeyOf[Pipe!Holder(w, k)] = k
          BY <3>1, <3>3, HeadOfLine
        <4>. QED
          BY <2>2, <4>1, <4>2 DEF Queued
      <3>4. CASE v # w
        <4>1. retry'[v] = retry[v] /\ stage[v] = "line"
          BY <2>1, <2>7, <3>4
        <4>2. NotPassed(v, retry[v])
          BY <2>7, <3>1, <3>2, <4>1 DEF OrderInv, Foremost
        <4>. QED
          BY <1>1, <4>1, <4>2 DEF NotPassed
      <3>. QED
        BY <3>3, <3>4
    <2>. QED
      BY <1>1, <2>3, <2>5, <2>6, <2>7 DEF OrderInv, Foremost
  <1>4. Head(batch[w]) \in Pipe!Msgs
    BY <1>1, HeadTailProperties DEF Pipe!NextRetry, PQTyped
  <1>. QED
    BY <1>2, <1>3, <1>4 DEF Pipe!NextRetry

\* The lock's next holder compares.
LEMMA BeginOrder ==
    ASSUME Pipe!PipelineConstants, PQInv, PQInv', OrderInv, NEW w \in Workers, NEW k \in Keys, Pipe!Begin(w, k)
    PROVE  OrderInv'
  <1>1. /\ UNCHANGED <<cursor, inFlight, line, acking, retry, spoken>>
        /\ busy' = [busy EXCEPT ![w] = busy[w] \cup {k}] /\ line[w][k] # <<>>
        /\ stage' = IF Pipe!Holder(w, k) = retry[w] /\ Pipe!Superseded(w, retry[w])
                    THEN [stage EXCEPT ![w] = "late"] ELSE stage
    BY DEF Pipe!Begin, Pipe!redisVars, Pipe!readerVars
  <1>2. Spoken' /\ InLineOrder'
    BY <1>1 DEF OrderInv, Spoken, InLineOrder
  <1>3. \A v \in Workers : \A m : NotPassed(v, m)' <=> NotPassed(v, m)
    BY <1>1 DEF NotPassed
  <1>4. \A v \in Workers : \A m \in inFlight'[v] \ acking'[v] : NotPassed(v, m)'
    BY <1>1, <1>3 DEF OrderInv, Foremost
  <1>5. ASSUME NEW v \in Workers, NEW j \in busy'[v], (Pipe!Holder(v, j) = retry[v])', stage'[v] = "line"
        PROVE  NotPassed(v, retry[v])
    <2>1. Pipe!Holder(v, j) = retry[v] /\ stage[v] = "line"
      BY <1>1, <1>5 DEF Pipe!Holder, PQInv, PQTyped
    <2>2. CASE j \in busy[v]
      BY <2>1, <2>2 DEF OrderInv, Foremost
    <2>3. CASE j \notin busy[v]
      <3>1. v = w /\ j = k
        BY <1>1, <1>5, <2>3 DEF PQInv, PQTyped
      <3>2. ~Pipe!Superseded(w, retry[w])
        BY <1>1, <1>5, <2>1, <3>1 DEF PQInv, PQTyped
      <3>3. retry[w] \in Pipe!Msgs /\ KeyOf[retry[w]] = k
        BY <1>1, <2>1, <3>1, HeadOfLine
      <3>4. Position[retry[w]] \in Nat /\ spoken[w][k] \in Nat
        BY <3>3 DEF OrderInv, Spoken
      <3>. QED
        BY <3>1, <3>2, <3>3, <3>4 DEF Pipe!Superseded, NotPassed
    <2>. QED
      BY <2>2, <2>3
  <1>6. \A v \in Workers : retry'[v] = retry[v]
    BY <1>1
  <1>7. ASSUME NEW v \in Workers, NEW j \in busy'[v], (Pipe!Holder(v, j) = retry[v])', stage'[v] = "line"
        PROVE  NotPassed(v, retry[v])'
    BY <1>1, <1>5, <1>7 DEF NotPassed
  <1>. QED
    BY <1>1, <1>2, <1>4, <1>7 DEF OrderInv, Foremost

\* The foremost of a line is let go.
LEMMA FinishOrder ==
    ASSUME Pipe!PipelineConstants, PQInv, PQInv', OrderInv, NEW w \in Workers, NEW k \in Keys,
           Pipe!Succeed(w, k) \/ Pipe!ParkLate(w, k) \/ Pipe!Fail(w, k)
    PROVE  OrderInv'
  <1>1. /\ k \in busy[w] /\ Pipe!LetGo(w, k) /\ UNCHANGED <<cursor, retry, spoken>>
        /\ stage' = stage \/ stage' = [stage EXCEPT ![w] = "ack"] \/ stage' = [stage EXCEPT ![w] = "count"]
        /\ inFlight' = inFlight \/ inFlight' = [inFlight EXCEPT ![w] = @ \ {Pipe!Holder(w, k)}]
        /\ acking' = acking \/ acking' = [acking EXCEPT ![w] = @ \cup {Pipe!Holder(w, k)}]
    BY DEF Pipe!Succeed, Pipe!ParkLate, Pipe!Fail, Pipe!redisVars
  <1>2. PQTyped /\ line[w][k] # <<>>
    BY <1>1 DEF PQInv, KeyLines
  <1>3. /\ \A v \in Workers : /\ inFlight'[v] \subseteq inFlight[v] /\ acking[v] \subseteq acking'[v]
                              /\ stage'[v] = "line" => stage[v] = "line"
                              /\ busy'[v] \subseteq busy[v]
        /\ k \notin busy'[w]
        /\ line'[w][k] = Tail(line[w][k])
        /\ \A v \in Workers, j \in Keys : v # w \/ j # k => line'[v][j] = line[v][j]
    <2>1. /\ \A v \in Workers : inFlight'[v] \subseteq inFlight[v]
          /\ \A v \in Workers : acking[v] \subseteq acking'[v]
      <3>1. /\ inFlight \in [Workers -> SUBSET Pipe!Msgs]
            /\ inFlight' = inFlight \/ inFlight' = [inFlight EXCEPT ![w] = inFlight[w] \ {Pipe!Holder(w, k)}]
        BY <1>1, <1>2 DEF PQTyped
      <3>2. /\ acking \in [Workers -> SUBSET Pipe!Msgs]
            /\ acking' = acking \/ acking' = [acking EXCEPT ![w] = acking[w] \cup {Pipe!Holder(w, k)}]
        BY <1>1, <1>2 DEF PQTyped
      <3>3. \A v \in Workers : inFlight'[v] \subseteq inFlight[v]
        BY <3>1
      <3>4. \A v \in Workers : acking[v] \subseteq acking'[v]
        BY <3>2
      <3>. QED
        BY <3>3, <3>4
    <2>2. \A v \in Workers : stage'[v] = "line" => stage[v] = "line"
      BY <1>1, <1>2 DEF PQTyped
    <2>3. k \notin busy'[w] /\ \A v \in Workers : busy'[v] \subseteq busy[v]
      BY <1>1, <1>2 DEF PQTyped, Pipe!LetGo
    <2>4. /\ line'[w][k] = Tail(line[w][k])
          /\ \A v \in Workers, j \in Keys : v # w \/ j # k => line'[v][j] = line[v][j]
      BY <1>1, <1>2 DEF PQTyped, Pipe!LetGo
    <2>. QED
      BY <2>1, <2>2, <2>3, <2>4
  <1>4. Spoken'
    BY <1>1 DEF OrderInv, Spoken
  <1>5. \A v \in Workers : \A m : NotPassed(v, m)' <=> NotPassed(v, m)
    BY <1>1 DEF NotPassed
  <1>6. \A v \in Workers : \A m \in inFlight'[v] \ acking'[v] : NotPassed(v, m)'
    BY <1>3, <1>5 DEF OrderInv, Foremost
  <1>7. InLineOrder'
    <2>1. SUFFICES ASSUME NEW v \in Workers, NEW j \in Keys,
                          NEW x \in 1..Len(line'[v][j]), NEW y \in 1..Len(line'[v][j]),
                          y < x, line'[v][j][x] \in inFlight'[v]
                   PROVE  line'[v][j][y] < line'[v][j][x]
      BY DEF InLineOrder
    <2>2. CASE v # w \/ j # k
      BY <1>3, <2>1, <2>2 DEF OrderInv, InLineOrder
    <2>3. CASE v = w /\ j = k
      <3>. DEFINE s == line[w][k]
      <3>1. s \in Seq(Pipe!Msgs) /\ s # <<>> /\ line'[w][k] = Tail(s)
        BY <1>2, <1>3 DEF PQTyped
      <3>a. \A a, b \in 1..Len(s) : b < a /\ s[a] \in inFlight[w] => s[b] < s[a]
        BY DEF OrderInv, InLineOrder
      <3>. HIDE DEF s
      <3>2. /\ Len(s) \in Nat \ {0} /\ Len(Tail(s)) = Len(s) - 1
            /\ \A a \in 1..Len(Tail(s)) : Tail(s)[a] = s[a + 1]
        BY <3>1, HeadTailProperties, EmptySeq
      <3>3. x + 1 \in 1..Len(s) /\ y + 1 \in 1..Len(s) /\ y + 1 < x + 1
        BY <2>1, <2>3, <3>1, <3>2
      <3>4. line'[w][k][x] = s[x + 1] /\ line'[w][k][y] = s[y + 1]
        BY <2>1, <2>3, <3>1, <3>2
      <3>5. s[x + 1] \in inFlight[w]
        BY <1>3, <2>1, <2>3, <3>4
      <3>. QED
        BY <2>3, <3>a, <3>3, <3>4, <3>5
    <2>. QED
      BY <2>2, <2>3
  <1>8. ASSUME NEW v \in Workers, NEW j \in busy'[v], (Pipe!Holder(v, j) = retry[v])', stage'[v] = "line"
        PROVE  NotPassed(v, retry[v])'
    <2>1. j \in busy[v] /\ j \in Keys /\ (v # w \/ j # k) /\ stage[v] = "line" /\ retry'[v] = retry[v]
      BY <1>1, <1>2, <1>3, <1>8 DEF PQTyped
    <2>2. Pipe!Holder(v, j) = retry[v]
      BY <1>3, <1>8, <2>1 DEF Pipe!Holder
    <2>3. NotPassed(v, retry[v])
      BY <2>1, <2>2 DEF OrderInv, Foremost
    <2>. QED
      BY <1>1, <2>3 DEF NotPassed
  <1>. QED
    BY <1>1, <1>4, <1>6, <1>7, <1>8 DEF OrderInv, Foremost

\* What is begun at the head of a line is before all that was read behind it.
LEMMA SpeakOrder ==
    ASSUME Pipe!PipelineConstants, Pipe!InStreamOrder, PQInv, PQInv', OrderInv,
           NEW w \in Workers, NEW k \in Keys, Pipe!Speak(w, k)
    PROVE  OrderInv'
  <1>. DEFINE h == Pipe!Holder(w, k)
  <1>1. /\ k \in busy[w] /\ spoken' = [spoken EXCEPT ![w][k] = Position[h]]
        /\ UNCHANGED <<cursor, inFlight, line, busy, acking, retry, stage>>
    BY DEF Pipe!Speak, Pipe!redisVars, Pipe!readerVars, Pipe!lineVars, Pipe!recoverVars
  <1>2. line[w][k] # <<>> /\ PQTyped
    BY <1>1 DEF PQInv, KeyLines
  <1>3. /\ h \in Pipe!Msgs /\ KeyOf[h] = k /\ h <= cursor /\ h = line[w][k][1] /\ 1 \in 1..Len(line[w][k])
        /\ line[w][k] \in Seq(Pipe!Msgs)
    BY <1>2, HeadOfLine
  <1>4. Position[h] \in Nat
    BY <1>3
  <1>. HIDE DEF h
  <1>5. /\ spoken' \in [Workers -> [Keys -> Nat]] /\ spoken'[w][k] = Position[h]
        /\ \A v \in Workers, j \in Keys : v # w \/ j # k => spoken'[v][j] = spoken[v][j]
    BY <1>1, <1>4 DEF OrderInv
  <1>6. Spoken'
    <2>1. SUFFICES ASSUME NEW v \in Workers, NEW j \in Keys
                   PROVE  /\ spoken'[v][j] \in Nat
                          /\ spoken'[v][j] = 0 \/ \E n \in Pipe!Msgs : n <= cursor' /\ KeyOf[n] = j /\ spoken'[v][j] = Position[n]
      BY DEF Spoken
    <2>2. CASE v = w /\ j = k
      BY <1>1, <1>3, <1>4, <1>5, <2>2
    <2>3. CASE v # w \/ j # k
      BY <1>1, <1>5, <2>3 DEF OrderInv, Spoken
    <2>. QED
      BY <2>2, <2>3
  <1>7. InLineOrder'
    BY <1>1 DEF OrderInv, InLineOrder
  <1>8. ASSUME NEW v \in Workers, NEW m \in Pipe!Msgs, NotPassed(v, m), v # w \/ KeyOf[m] # k \/ m = h
        PROVE  NotPassed(v, m)'
    <2>1. KeyOf[m] \in Keys /\ Position[m] \in Nat
      OBVIOUS
    <2>2. CASE v # w \/ KeyOf[m] # k
      BY <1>5, <1>8, <2>1, <2>2 DEF NotPassed
    <2>3. CASE v = w /\ m = h
      BY <1>3, <1>4, <1>5, <2>3 DEF NotPassed
    <2>. QED
      BY <1>8, <2>2, <2>3
  <1>9. ASSUME NEW v \in Workers, NEW m \in inFlight'[v] \ acking'[v] PROVE NotPassed(v, m)'
    <2>1. m \in Pipe!Msgs /\ NotPassed(v, m) /\ m \in inFlight[v] \ acking[v]
      BY <1>1, <1>2, <1>9 DEF OrderInv, Foremost, PQTyped
    <2>2. CASE v # w \/ KeyOf[m] # k \/ m = h
      BY <1>8, <2>1, <2>2
    <2>3. CASE v = w /\ KeyOf[m] = k /\ m # h
      <3>1. Queued(w, m)
        BY <2>1, <2>3 DEF PQInv, Tracked, Waits
      <3>2. PICK i \in 1..Len(line[w][k]) : line[w][k][i] = m
        BY <2>3, <3>1 DEF Queued
      <3>3. 1 < i
        BY <1>3, <2>3, <3>2, LenProperties
      <3>4. h < m
        <4>1. \A i1, i2 \in 1..Len(line[w][k]) :
                 i2 < i1 /\ line[w][k][i1] \in inFlight[w] => line[w][k][i2] < line[w][k][i1]
          BY DEF OrderInv, InLineOrder
        <4>. QED
          BY <1>3, <2>1, <2>3, <3>2, <3>3, <4>1
      <3>5. Position[m] > 0 => Position[h] <= Position[m]
        BY <1>3, <2>1, <2>3, <3>4 DEF Pipe!InStreamOrder
      <3>6. Position[m] \in Nat
        BY <2>1
      <3>. QED
        BY <1>4, <1>5, <2>3, <3>5, <3>6 DEF NotPassed
    <2>. QED
      BY <2>2, <2>3
  <1>10. ASSUME NEW v \in Workers, NEW j \in busy'[v], (Pipe!Holder(v, j) = retry[v])', stage'[v] = "line"
         PROVE  NotPassed(v, retry[v])'
    <2>1. j \in busy[v] /\ j \in Keys /\ Pipe!Holder(v, j) = retry[v] /\ stage[v] = "line"
      BY <1>1, <1>2, <1>10 DEF Pipe!Holder, PQTyped
    <2>2. line[v][j] # <<>>
      BY <2>1 DEF PQInv, KeyLines
    <2>3. retry[v] \in Pipe!Msgs /\ KeyOf[retry[v]] = j
      BY <2>1, <2>2, HeadOfLine
    <2>4. NotPassed(v, retry[v])
      BY <2>1 DEF OrderInv, Foremost
    <2>5. v # w \/ KeyOf[retry[v]] # k \/ retry[v] = h
      BY <2>1, <2>3 DEF h
    <2>6. ASSUME NEW m \in Pipe!Msgs, m = retry[v] PROVE NotPassed(v, m)'
      BY <1>8, <2>4, <2>5, <2>6
    <2>. QED
      BY <1>1, <2>3, <2>6 DEF NotPassed
  <1>. QED
    BY <1>5, <1>6, <1>7, <1>9, <1>10 DEF OrderInv, Foremost

\* A new process has begun nothing, a dead one holds nothing.
LEMMA FreshOrder ==
    ASSUME Pipe!PipelineConstants, PQInv, PQInv', OrderInv, NEW w \in Workers, Pipe!Restart(w) \/ Pipe!Crash(w)
    PROVE  OrderInv'
  <1>1. PQTyped
    BY DEF PQInv
  <1>2. CASE Pipe!Restart(w)
    <2>1. /\ UNCHANGED <<cursor, inFlight, line, busy, acking, retry, stage>>
          /\ spoken' = [spoken EXCEPT ![w] = [k \in Keys |-> 0]]
      BY <1>2 DEF Pipe!Restart, Pipe!redisVars, Pipe!lineVars, Pipe!recoverVars
    <2>2. /\ spoken' \in [Workers -> [Keys -> Nat]]
          /\ \A v \in Workers, k \in Keys : spoken'[v][k] = 0 \/ spoken'[v][k] = spoken[v][k]
      BY <2>1 DEF OrderInv
    <2>3. Spoken'
      BY <2>1, <2>2 DEF OrderInv, Spoken
    <2>4. ASSUME NEW v \in Workers, NEW m \in Pipe!Msgs, NotPassed(v, m) PROVE NotPassed(v, m)'
      <3>1. KeyOf[m] \in Keys /\ Position[m] \in Nat
        OBVIOUS
      <3>. QED
        BY <2>2, <2>4, <3>1 DEF NotPassed
    <2>5. \A v \in Workers : \A m \in inFlight'[v] \ acking'[v] : NotPassed(v, m)'
      BY <1>1, <2>1, <2>4 DEF OrderInv, Foremost, PQTyped
    <2>6. ASSUME NEW v \in Workers, NEW j \in busy'[v], (Pipe!Holder(v, j) = retry[v])', stage'[v] = "line"
          PROVE  NotPassed(v, retry[v])'
      <3>1. j \in busy[v] /\ j \in Keys /\ Pipe!Holder(v, j) = retry[v] /\ stage[v] = "line"
        BY <1>1, <2>1, <2>6 DEF Pipe!Holder, PQTyped
      <3>2. line[v][j] # <<>>
        BY <3>1 DEF PQInv, KeyLines
      <3>3. PICK m \in Pipe!Msgs : m = retry[v]
        BY <3>1, <3>2, HeadOfLine
      <3>4. NotPassed(v, m)
        BY <3>1, <3>3 DEF OrderInv, Foremost
      <3>. QED
        BY <2>1, <2>4, <3>3, <3>4 DEF NotPassed
    <2>. QED
      BY <2>1, <2>2, <2>3, <2>5, <2>6 DEF OrderInv, InLineOrder, Foremost
  <1>3. CASE Pipe!Crash(w)
    <2>1. /\ inFlight' = [inFlight EXCEPT ![w] = {}] /\ acking' = [acking EXCEPT ![w] = {}]
          /\ line' = [line EXCEPT ![w] = [k \in Keys |-> <<>>]] /\ busy' = [busy EXCEPT ![w] = {}]
          /\ retry' = [retry EXCEPT ![w] = 0] /\ stage' = [stage EXCEPT ![w] = "next"]
          /\ UNCHANGED <<cursor, spoken>>
      BY <1>3 DEF Pipe!Crash, Pipe!redisVars
    <2>2. /\ inFlight'[w] = {} /\ busy'[w] = {} /\ \A k \in Keys : line'[w][k] = <<>>
          /\ \A v \in Workers \ {w} :
                /\ inFlight'[v] = inFlight[v] /\ acking'[v] = acking[v]
                /\ line'[v] = line[v] /\ busy'[v] = busy[v] /\ retry'[v] = retry[v] /\ stage'[v] = stage[v]
      BY <1>1, <2>1 DEF PQTyped
    <2>3. Spoken'
      BY <2>1 DEF OrderInv, Spoken
    <2>4. InLineOrder'
      BY <2>2 DEF OrderInv, InLineOrder
    <2>5. \A v \in Workers : \A m : NotPassed(v, m)' <=> NotPassed(v, m)
      BY <2>1 DEF NotPassed
    <2>6. \A v \in Workers : \A m \in inFlight'[v] \ acking'[v] : NotPassed(v, m)'
      BY <2>2, <2>5 DEF OrderInv, Foremost
    <2>7. ASSUME NEW v \in Workers, NEW j \in busy'[v], (Pipe!Holder(v, j) = retry[v])', stage'[v] = "line"
          PROVE  NotPassed(v, retry[v])'
      <3>1. v # w /\ j \in busy[v] /\ Pipe!Holder(v, j) = retry[v] /\ stage[v] = "line" /\ retry'[v] = retry[v]
        BY <2>2, <2>7 DEF Pipe!Holder
      <3>2. NotPassed(v, retry[v])
        BY <3>1 DEF OrderInv, Foremost
      <3>. QED
        BY <2>1, <3>1, <3>2 DEF NotPassed
    <2>. QED
      BY <2>1, <2>3, <2>4, <2>6, <2>7 DEF OrderInv, Foremost
  <1>. QED
    BY <1>2, <1>3

LEMMA InitOrder == ASSUME Pipe!PipelineConstants, Pipe!Init PROVE OrderInv
  <1>1. /\ spoken = [w \in Workers |-> [k \in Keys |-> 0]] /\ inFlight = [w \in Workers |-> {}]
        /\ busy = [w \in Workers |-> {}] /\ line = [w \in Workers |-> [k \in Keys |-> <<>>]]
    BY DEF Pipe!Init
  <1>2. 1..Len(<<>>) = {}
    OBVIOUS
  <1>. QED
    BY <1>1, <1>2 DEF OrderInv, Spoken, InLineOrder, Foremost

LEMMA StepOrder ==
    ASSUME Pipe!PipelineConstants, Pipe!InStreamOrder, PQInv, PQInv', OrderInv, [Pipe!Next]_(Pipe!vars)
    PROVE  OrderInv'
  <1>1. ASSUME NEW w \in Workers,
               Pipe!Reader(w) \/ Pipe!Recover(w) \/ Pipe!ReaderFails(w) \/ Pipe!ReplyLost(w) \/ Pipe!Crash(w) \/ Pipe!Sigterm(w)
        PROVE  OrderInv'
    BY <1>1, QuietOrder, ReadOrder, NextRetryOrder, FreshOrder DEF Pipe!Reader
  <1>2. ASSUME NEW w \in Workers, NEW k \in Keys, Pipe!Handler(w, k) PROVE OrderInv'
    BY <1>2, BeginOrder, SpeakOrder, FinishOrder DEF Pipe!Handler
  <1>. QED
    BY <1>1, <1>2, QuietOrder DEF Pipe!Next

\* "Guaranteed in-order playback": with a stream that brings a key's sentences in order, no
\* process dubs one, read or reclaimed, once a later one of its key was begun there.
THEOREM EverySentenceInOrder ==
    Pipe!PipelineConstants /\ Pipe!InStreamOrder => (Pipe!Spec => []Pipe!SaidInOrder)
  <1>. SUFFICES ASSUME Pipe!PipelineConstants, Pipe!InStreamOrder PROVE Pipe!Spec => []Pipe!SaidInOrder
    OBVIOUS
  <1>1. Pipe!Init => PQInv /\ OrderInv
    BY PQInit, InitOrder
  <1>2. PQInv /\ OrderInv /\ [Pipe!Next]_(Pipe!vars) => (PQInv /\ OrderInv)'
    BY PQNext, StepOrder
  <1>3. PQInv /\ OrderInv => Pipe!SaidInOrder
    <2>1. SUFFICES ASSUME PQInv, OrderInv, NEW w \in Workers, NEW k \in busy[w], ~Pipe!Late(w, k)
                   PROVE  Position[Pipe!Holder(w, k)] = 0 \/ spoken[w][k] <= Position[Pipe!Holder(w, k)]
      BY DEF Pipe!SaidInOrder
    <2>2. k \in Keys /\ line[w][k] # <<>>
      <3>1. k \in Keys
        BY <2>1 DEF PQInv, PQTyped
      <3>. QED
        BY <2>1, <3>1 DEF PQInv, KeyLines
    <2>3. /\ KeyOf[Pipe!Holder(w, k)] = k /\ Waits(w, Pipe!Holder(w, k))
      BY <2>1, <2>2, HeadOfLine
    <2>4. NotPassed(w, Pipe!Holder(w, k))
      BY <2>1, <2>3 DEF OrderInv, Foremost, Waits, Pipe!Late
    <2>. QED
      BY <2>3, <2>4 DEF NotPassed
  <1>. QED
    BY <1>1, <1>2, <1>3, PTL DEF Pipe!Spec
=============================================================================
