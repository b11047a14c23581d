---------------------------- MODULE VoiceClones ----------------------------
(***************************************************************************)
(* The cloned voice of one person in one meeting.  Somebody at a WarpTalk  *)
(* microphone is cloned from their own seat, again and again while longer  *)
(* or better samples come; somebody on the other side of a bridge is       *)
(* cloned once, from the stand-in's seat and under their own consent,      *)
(* which is looked for on every chunk, on every dub and by a watcher.  The *)
(* vendor's account keeps each voice until it is deleted: on request, or   *)
(* by a sweep that knows it by its name and age.                           *)
(***************************************************************************)
EXTENDS Integers, Sequences, FiniteSets

CONSTANTS
    Languages,   \* languages a person may be found to speak
    Ladder,      \* _clone_ladder: seconds at which somebody without a voice is cloned
    MinSeconds,  \* voice_clone_min_seconds, one of them: below it a voice is provisional
    Scores,      \* grades of a sample that passes the quality gate; the best is the highest possible
    Margin,      \* voice_clone_upgrade_margin
    Tolerance,   \* _LADDER_SCORE_TOLERANCE
    MaxUpgrades, \* voice_clone_max_upgrades
    MaxCalls,    \* bound: calls under way at once
    MaxVoices,   \* bound: voices made
    MaxChanges,  \* bound: changes of consent, of the switch and of the language
    MaxFaults    \* bound: failed calls and restarts

ASSUME Shapes ==
    /\ Ladder \in Seq(Nat \ {0}) /\ MinSeconds \in {Ladder[r] : r \in DOMAIN Ladder}
    /\ \A r, s \in DOMAIN Ladder : r < s => Ladder[r] < Ladder[s]
    /\ Scores \subseteq Nat \ {0}
    /\ {Margin, Tolerance, MaxUpgrades, MaxCalls, MaxVoices, MaxChanges, MaxFaults} \subseteq Nat

VARIABLES
    seat,     \* "own" or "far": the chunk's speaker is the person, or the stand-in
    carried,  \* score of the voice an earlier meeting left, or 0
    consent,  \* what the worker's routes, or the consent hash, say now
    allowed,  \* flags.voice_clone
    lang,     \* the language of the person's chunks
    over,     \* the room has ended
    mem,      \* the worker's memory of the person
    calls,    \* _clone_and_cache: the calls under way
    reader,   \* of each path: where its look at the consent stands
    key,      \* the Redis entry that names the person's voice
    account,  \* the vendor's account: each voice's name, the seconds it was made from, and the
              \* withdrawals before its sample was begun and before it was made
    requests, \* voice:delete_requests
    aged,     \* a day has passed
    asked,    \* voices whose deletion was asked for as withdrawn
    misjudged, \* those of them whose consent could not be read
    orphaned, \* voices a withdrawal took out of use and, its answer lost, asked nobody to delete
    leaves,   \* withdrawals so far
    changes, faults

outside == <<seat, carried, consent, allowed, lang, over, aged, leaves, changes>>
vars == <<outside, mem, calls, reader, key, account, requests, asked, misjudged, orphaned, faults>>

\* What notices that a far-side person withdrew.
Paths == {"capture", "dub", "watch"}
Voices == 1..MaxVoices
NoVoice == 0
Unmade == {v \in Voices : account[v].name = "none"}
NextVoice == CHOOSE v \in Unmade : TRUE
NoCall == [at |-> "none", voice |-> NoVoice, secs |-> 0, lang |-> "auto", score |-> 0,
           prev |-> 0, spent |-> FALSE, since |-> 0]
FreeCalls == {c \in DOMAIN calls : calls[c].at = "none"}
InFlight == \E c \in DOMAIN calls : calls[c].at # "none"
Start(call) == calls' = [calls EXCEPT ![CHOOSE c \in FreeCalls : TRUE] = call]
Idle == [at |-> "idle", voice |-> NoVoice]
Fresh == [heard |-> 0, since |-> 0, score |-> 0, rung |-> 0, used |-> 0,
          seen |-> FALSE, refused |-> FALSE, watched |-> FALSE]
Dropped(m) == [m EXCEPT !.heard = 0]
MaxSeconds == Ladder[Len(Ladder)]
BestScore == CHOOSE s \in Scores : \A t \in Scores : t <= s

Init ==
    /\ seat \in {"own", "far"} /\ carried \in (IF seat = "own" THEN Scores \cup {0} ELSE {0})
    /\ consent \in BOOLEAN /\ allowed = TRUE /\ lang \in Languages \cup {"auto"} /\ over = FALSE
    /\ mem = Fresh /\ calls = [c \in 1..MaxCalls |-> NoCall] /\ reader = [p \in Paths |-> Idle]
    /\ key = [voice |-> NoVoice, lang |-> "auto"]
    /\ account = [v \in Voices |-> [name |-> "none", secs |-> 0, since |-> 0, born |-> 0]]
    /\ requests = {} /\ asked = {} /\ misjudged = {} /\ orphaned = {}
    /\ aged = FALSE /\ leaves = 0 /\ changes = 0 /\ faults = 0

Memory == [heard : 0..MaxSeconds, since : Nat, score : Scores \cup {0}, rung : 0..Len(Ladder),
           used : 0..MaxUpgrades, seen : BOOLEAN, refused : BOOLEAN, watched : BOOLEAN]
Call == [at : {"none", "asked", "made", "agreed", "stored", "kept"}, voice : Voices \cup {NoVoice}, secs : Nat,
         lang : Languages \cup {"auto"}, score : Scores \cup {0}, prev : Scores \cup {0},
         spent : BOOLEAN, since : Nat]
Reader == [at : {"idle", "agreed", "free", "listed", "absent", "held", "removed"}, voice : Voices \cup {NoVoice}]

\* Every variable has its type.
TypeOK ==
    /\ seat \in {"own", "far"} /\ carried \in Scores \cup {0} /\ consent \in BOOLEAN /\ allowed \in BOOLEAN
    /\ lang \in Languages \cup {"auto"} /\ over \in BOOLEAN /\ aged \in BOOLEAN
    /\ mem \in Memory /\ calls \in [1..MaxCalls -> Call] /\ reader \in [Paths -> Reader]
    /\ key \in [voice : Voices \cup {NoVoice}, lang : Languages \cup {"auto"}]
    /\ account \in [Voices -> [name : {"none", "speaker", "profile", "gone"}, secs : Nat, since : Nat, born : Nat]]
    /\ requests \subseteq Voices /\ misjudged \subseteq asked /\ asked \subseteq Voices /\ orphaned \subseteq Voices
    /\ leaves \in Nat /\ changes \in 0..MaxChanges /\ faults \in 0..MaxFaults

Fault == faults < MaxFaults /\ faults' = faults + 1

-----------------------------------------------------------------------------
(* Outside: the person, the operator, the meeting and the clock.           *)

Change ==
    /\ changes < MaxChanges /\ changes' = changes + 1
    /\ \/ consent' = ~consent /\ leaves' = leaves + (IF consent THEN 1 ELSE 0) /\ UNCHANGED <<allowed, lang>>
       \/ allowed' = ~allowed /\ UNCHANGED <<consent, leaves, lang>>
       \/ ~over /\ \E l \in Languages \ {lang} : lang' = l /\ UNCHANGED <<consent, leaves, allowed>>
    /\ UNCHANGED <<seat, carried, over, aged, mem, calls, reader, key, account>>
    /\ UNCHANGED <<requests, asked, misjudged, orphaned, faults>>

\* A far-side person's audio, refusals and watch are forgotten with the room.
RoomEnds ==
    /\ ~over /\ over' = TRUE
    /\ mem' = IF seat = "far" THEN Fresh ELSE mem
    /\ UNCHANGED <<seat, carried, consent, allowed, lang, aged, leaves, changes>>
    /\ UNCHANGED <<calls, reader, key, account, requests, asked, misjudged, orphaned, faults>>

Withdrawing(p) == reader[p].at \in {"absent", "held", "removed"}

\* The entry lives for twelve hours and the sweep waits for twenty-four: no calls, withdrawal or
\* request of the meeting is still under way by then.
DayPasses ==
    /\ over /\ ~aged /\ aged' = TRUE /\ ~InFlight /\ requests = {} /\ \A p \in Paths : ~Withdrawing(p)
    /\ key' = [voice |-> NoVoice, lang |-> "auto"] /\ reader' = [p \in Paths |-> Idle]
    /\ UNCHANGED <<seat, carried, consent, allowed, lang, over, leaves, changes>>
    /\ UNCHANGED <<mem, calls, account, requests, asked, misjudged, orphaned, faults>>

-----------------------------------------------------------------------------
(* A chunk from the person's own seat.  What it reads, of consent, switch,  *)
(* voice and language, and what is done upon it are one step.               *)

HasVoice == key.voice # NoVoice \/ carried # 0
Stale == key.voice # NoVoice /\ lang # "auto" /\ key.lang \notin {"auto", lang}

\* The score an earlier meeting's voice had is the first to beat.
Adopted(m) == IF m.seen THEN m ELSE [m EXCEPT !.seen = TRUE, !.score = IF carried # 0 THEN carried ELSE @]
Placed(m) == IF ~HasVoice /\ m.score = 0 /\ m.rung = 0 /\ ~InFlight THEN [m EXCEPT !.rung = 1] ELSE m

Exhausted(m) == HasVoice /\ ~Stale /\ m.used >= MaxUpgrades
Elsewhere(m) == HasVoice /\ ~Stale /\ m.used < MaxUpgrades /\ m.score = 0
Unbeatable(m) == ~Stale /\ m.rung = 0 /\ m.score # 0 /\ m.score + Margin > BestScore

Heard(m) == [m EXCEPT !.heard = IF @ < MaxSeconds THEN @ + 1 ELSE @]
Threshold(m) == IF m.rung # 0 THEN Ladder[m.rung] ELSE MinSeconds
\* Mutant: the next rung does not wait for the one at the vendor.
DueMeanwhile(m) == m.heard >= Threshold(m) /\ lang # "auto"

Due(m) == m.heard >= Threshold(m) /\ ~InFlight /\ lang # "auto"
Worth(m, s) ==
    /\ s # 0
    /\ \/ m.score = 0 \/ Stale
       \/ m.rung # 0 /\ s + Tolerance >= m.score
       \/ m.rung = 0 /\ s >= m.score + Margin

LastRung(m) == m.rung \in {0, Len(Ladder)}
Begun(m, s) ==
    [m EXCEPT !.heard = IF LastRung(m) THEN 0 ELSE @, !.rung = IF LastRung(m) THEN 0 ELSE @ + 1,
              !.score = s, !.used = IF m.score # 0 /\ ~Stale /\ m.rung = 0 THEN @ + 1 ELSE @]
Asking(m, s) ==
    [NoCall EXCEPT !.at = "asked", !.secs = Threshold(m), !.lang = lang, !.score = s, !.prev = m.score,
                   !.spent = m.score # 0 /\ ~Stale /\ m.rung = 0, !.since = m.since]

Speaks == seat = "own" /\ ~over
Listened == Placed(Adopted(mem))
Resting(m) == Exhausted(m) \/ Elsewhere(m) \/ Unbeatable(m)

Refuse ==
    /\ Speaks /\ ~consent
    /\ mem' = [Fresh EXCEPT !.refused = mem.refused]
    /\ UNCHANGED <<outside, calls, reader, key, account, requests, asked, misjudged, orphaned, faults>>

SwitchedOff ==
    /\ Speaks /\ consent /\ ~allowed
    /\ mem' = [Dropped(mem) EXCEPT !.seen = FALSE]
    /\ UNCHANGED <<outside, calls, reader, key, account, requests, asked, misjudged, orphaned, faults>>

GiveUp ==
    /\ Speaks /\ consent /\ allowed /\ mem.refused
    /\ mem' = Dropped(mem)
    /\ UNCHANGED <<outside, calls, reader, key, account, requests, asked, misjudged, orphaned, faults>>

Listening == Speaks /\ consent /\ allowed /\ ~mem.refused

Rest ==
    /\ Listening /\ Resting(Listened)
    /\ mem' = IF Elsewhere(Listened) THEN Listened ELSE Dropped(Listened)
    /\ UNCHANGED <<outside, calls, reader, key, account, requests, asked, misjudged, orphaned, faults>>

Gather(s) ==
    /\ Listening /\ ~Resting(Listened)
    /\ LET m == Heard(Listened) IN ~(Due(m) /\ Worth(m, s)) /\ mem' = m
    /\ UNCHANGED <<outside, calls, reader, key, account, requests, asked, misjudged, orphaned, faults>>

\* The voice cannot be looked up: the chunk is lost.
LookFails ==
    /\ Listening /\ Fault /\ mem' = Adopted(mem)
    /\ UNCHANGED <<outside, calls, reader, key, account, requests, asked, misjudged, orphaned>>

StartClone(s) ==
    /\ Listening /\ ~Resting(Listened) /\ Unmade # {} /\ FreeCalls # {}
    /\ LET m == Heard(Listened) IN
        Due(m) /\ Worth(m, s) /\ mem' = Begun(m, s) /\ Start(Asking(m, s))
    /\ UNCHANGED <<outside, reader, key, account, requests, asked, misjudged, orphaned, faults>>

-----------------------------------------------------------------------------
(* The call: the vendor makes a voice, and the worker names it in Redis.   *)

\* Mutant: what the start of the call wrote down stays.
SettledNot(c, m, refusal) == [m EXCEPT !.refused = @ \/ refusal]

Settled(c, m, refusal) ==
    [m EXCEPT !.refused = @ \/ refusal,
              !.score = IF seat = "own" /\ @ = calls[c].score THEN calls[c].prev ELSE @,
              !.used = IF calls[c].spent /\ @ > 0 THEN @ - 1 ELSE @]
Settle(c, refusal) == mem' = Settled(c, mem, refusal) /\ calls' = [calls EXCEPT ![c] = NoCall]
Finish(c) == calls' = [calls EXCEPT ![c] = NoCall] /\ UNCHANGED mem
Then(c, step) == calls' = [calls EXCEPT ![c].at = step] /\ UNCHANGED mem
Created(c) ==
    /\ Unmade # {}
    /\ account' = [account EXCEPT ![NextVoice] = [name |-> "speaker", secs |-> calls[c].secs,
                                                   since |-> calls[c].since, born |-> leaves]]

MakeVoice(c) ==
    /\ calls[c].at = "asked" /\ Created(c)
    /\ calls' = [calls EXCEPT ![c].at = "made", ![c].voice = NextVoice]
    /\ UNCHANGED <<outside, mem, reader, key, requests, asked, misjudged, orphaned, faults>>

\* A refusal, for good or not, or a voice made whose answer is lost.
CallFails(c) ==
    /\ calls[c].at = "asked" /\ Fault
    /\ \/ \E refusal \in BOOLEAN : Settle(c, refusal) /\ UNCHANGED account
       \/ Settle(c, FALSE) /\ Created(c)
    /\ UNCHANGED <<outside, reader, key, requests, asked, misjudged, orphaned>>

Store(c) ==
    /\ seat = "own" /\ calls[c].at = "made" /\ Then(c, "stored")
    /\ key' = [key EXCEPT !.voice = calls[c].voice]
    /\ UNCHANGED <<outside, reader, account, requests, asked, misjudged, orphaned, faults>>

\* A provisional voice is not carried over.
NameLanguage(c) ==
    /\ calls[c].at = "stored" /\ key' = [key EXCEPT !.lang = calls[c].lang]
    /\ IF calls[c].secs >= MinSeconds THEN Then(c, "kept") ELSE Finish(c)
    /\ UNCHANGED <<outside, reader, account, requests, asked, misjudged, orphaned, faults>>

Promoted(c) == account' = [account EXCEPT ![calls[c].voice].name = "profile"]

Promote(c) ==
    /\ calls[c].at = "kept" /\ Promoted(c) /\ Finish(c)
    /\ UNCHANGED <<outside, reader, key, requests, asked, misjudged, orphaned, faults>>

StoreFails(c) ==
    /\ calls[c].at \in {"made", "agreed"} /\ Fault /\ Settle(c, FALSE)
    /\ UNCHANGED <<outside, reader, key, account, requests, asked, misjudged, orphaned>>

\* What fails after the voice was stored is no failure of the clone; a rename may have landed.
LaterFails(c) ==
    /\ calls[c].at \in {"stored", "kept"} /\ Fault /\ Finish(c)
    /\ \/ UNCHANGED account
       \/ calls[c].at = "kept" /\ Promoted(c)
    /\ UNCHANGED <<outside, reader, key, requests, asked, misjudged, orphaned>>

\* _request_voice_delete: never raises.
Request(v) ==
    \/ requests' = requests \cup {v} /\ UNCHANGED faults
    \/ Fault /\ UNCHANGED requests

\* Mutant: a voice is kept without asking for the consent again.
AgreeUnasked(c) ==
    /\ seat = "far" /\ calls[c].at = "made" /\ Then(c, "agreed")
    /\ UNCHANGED <<outside, reader, key, account, requests, asked, misjudged, orphaned, faults>>

\* _cache_far_clone asks for the consent again, and takes no answer for a no.
Agree(c) ==
    /\ seat = "far" /\ calls[c].at = "made" /\ consent /\ Then(c, "agreed")
    /\ UNCHANGED <<outside, reader, key, account, requests, asked, misjudged, orphaned, faults>>

Discard(c) ==
    /\ seat = "far" /\ calls[c].at = "made" /\ Finish(c) /\ asked' = asked \cup {calls[c].voice}
    /\ \/ ~consent /\ Request(calls[c].voice) /\ UNCHANGED misjudged
       \/ /\ Fault /\ requests' \in {requests, requests \cup {calls[c].voice}}
          /\ misjudged' = misjudged \cup {calls[c].voice}
    /\ UNCHANGED <<outside, reader, key, account, orphaned>>

StoreFar(c) ==
    /\ calls[c].at = "agreed" /\ calls' = [calls EXCEPT ![c] = NoCall]
    /\ key' = [key EXCEPT !.voice = calls[c].voice] /\ mem' = [mem EXCEPT !.watched = TRUE]
    /\ UNCHANGED <<outside, reader, account, requests, asked, misjudged, orphaned, faults>>

-----------------------------------------------------------------------------
(* A chunk or a dub of the far side, and the watcher.                      *)

Goes(p, step) == reader' = [reader EXCEPT ![p].at = step]
Leaves(p) == reader' = [reader EXCEPT ![p] = Idle]

\* Mutant: consent that cannot be read is consent withdrawn.
AnswerNo(yes, no, unread) ==
    \/ consent /\ yes /\ UNCHANGED faults
    \/ ~consent /\ no /\ UNCHANGED faults
    \/ Fault /\ no

\* What the consent hash answers; a read that fails is neither a yes nor a no.
Answer(yes, no, unread) ==
    \/ consent /\ yes /\ UNCHANGED faults
    \/ ~consent /\ no /\ UNCHANGED faults
    \/ Fault /\ unread

\* The chunk that begins a sample was spoken before the consent is read.
CaptureAsk ==
    /\ seat = "far" /\ ~over /\ reader["capture"].at = "idle"
    /\ LET here == [mem EXCEPT !.watched = TRUE, !.since = IF mem.heard = 0 THEN leaves ELSE @] IN
        Answer(mem' = here /\ Goes("capture", "agreed"), mem' = Dropped(here) /\ Goes("capture", "absent"),
               mem' = Dropped(here) /\ UNCHANGED reader)
    /\ UNCHANGED <<outside, calls, key, account, requests, asked, misjudged, orphaned>>

CaptureGate ==
    /\ reader["capture"].at = "agreed"
    /\ IF ~allowed \/ mem.refused \/ (InFlight /\ ~over) THEN mem' = Dropped(mem) /\ Leaves("capture")
       ELSE Goes("capture", "free") /\ UNCHANGED mem
    /\ UNCHANGED <<outside, calls, key, account, requests, asked, misjudged, orphaned, faults>>

FarDue(m) == m.heard >= MinSeconds /\ lang # "auto"

\* No sample is heard to its end between two reads of one withdrawal.
CaptureTake(s) ==
    /\ reader["capture"].at = "free" /\ Leaves("capture")
    /\ LET m == Heard(mem) IN
        \/ key.voice # NoVoice /\ mem' = Dropped(mem) /\ UNCHANGED calls
        \/ key.voice = NoVoice /\ ~(FarDue(m) /\ s # 0) /\ mem' = m /\ UNCHANGED calls
        \/ /\ key.voice = NoVoice /\ FarDue(m) /\ s # 0
           /\ Unmade # {} /\ FreeCalls # {} /\ \A p \in Paths : ~Withdrawing(p)
           /\ mem' = Dropped(m)
           /\ Start([NoCall EXCEPT !.at = "asked", !.secs = MinSeconds, !.since = m.since])
    /\ UNCHANGED <<outside, key, account, requests, asked, misjudged, orphaned, faults>>

DubLook ==
    /\ seat = "far" /\ ~over /\ reader["dub"].at = "idle" /\ allowed /\ key.voice # NoVoice
    /\ reader' = [reader EXCEPT !["dub"] = [at |-> "listed", voice |-> key.voice]]
    /\ mem' = [mem EXCEPT !.watched = TRUE]
    /\ UNCHANGED <<outside, calls, key, account, requests, asked, misjudged, orphaned, faults>>

\* Mutant: only rooms whose audio is being gathered are looked at.
WatchGathering ==
    /\ mem.watched /\ reader["watch"].at = "idle" /\ mem.heard # 0
    /\ reader' = [reader EXCEPT !["watch"] = [at |-> "listed", voice |-> key.voice]]
    /\ UNCHANGED <<outside, mem, calls, key, account, requests, asked, misjudged, orphaned, faults>>

WatchLook ==
    /\ mem.watched /\ reader["watch"].at = "idle" /\ (key.voice # NoVoice \/ mem.heard # 0)
    /\ reader' = [reader EXCEPT !["watch"] = [at |-> "listed", voice |-> key.voice]]
    /\ UNCHANGED <<outside, mem, calls, key, account, requests, asked, misjudged, orphaned, faults>>

Compare(p) ==
    /\ reader[p].at = "listed"
    /\ Answer(UNCHANGED mem /\ Leaves(p),
              mem' = Dropped(mem) /\ IF reader[p].voice = NoVoice THEN Leaves(p) ELSE Goes(p, "absent"),
              UNCHANGED mem /\ Leaves(p))
    /\ UNCHANGED <<outside, calls, key, account, requests, asked, misjudged, orphaned>>

(* _withdraw_far_clone: the pointer is read, removed, and then asked about. *)
Find(p) ==
    /\ reader[p].at = "absent"
    /\ IF key.voice = NoVoice THEN Leaves(p)
       ELSE reader' = [reader EXCEPT ![p] = [at |-> "held", voice |-> key.voice]]
    /\ UNCHANGED <<outside, mem, calls, key, account, requests, asked, misjudged, orphaned, faults>>

Remove(p) ==
    /\ reader[p].at = "held" /\ key' = [key EXCEPT !.voice = NoVoice]
    /\ IF key.voice = NoVoice THEN Leaves(p) ELSE Goes(p, "removed")
    /\ UNCHANGED <<outside, mem, calls, account, requests, asked, misjudged, orphaned, faults>>

\* Both calls may fail, and the second after it removed the pointer.
WithdrawFails(p) ==
    /\ reader[p].at \in {"absent", "held"} /\ Fault /\ Leaves(p)
    /\ \/ UNCHANGED <<key, orphaned>>
       \/ /\ reader[p].at = "held" /\ key' = [key EXCEPT !.voice = NoVoice]
          /\ orphaned' = orphaned \cup ({key.voice} \ {NoVoice})
    /\ UNCHANGED <<outside, mem, calls, account, requests, asked, misjudged>>

AskDelete(p) ==
    /\ reader[p].at = "removed" /\ Leaves(p)
    /\ Request(reader[p].voice) /\ asked' = asked \cup {reader[p].voice}
    /\ UNCHANGED <<outside, mem, calls, key, account, misjudged, orphaned>>

-----------------------------------------------------------------------------
(* The account, and a worker that is restarted.                            *)

Gone(v) == account' = [account EXCEPT ![v].name = "gone"]

\* A request is not repeated: a voice that will not go is left to the sweep.
DeleteVoice(v) ==
    /\ v \in requests /\ requests' = requests \ {v}
    /\ \/ Gone(v) /\ UNCHANGED faults
       \/ Fault /\ UNCHANGED account
    /\ UNCHANGED <<outside, mem, calls, reader, key, asked, misjudged, orphaned>>

Sweep(v) ==
    /\ aged /\ account[v].name = "speaker"
    /\ \/ Gone(v) /\ UNCHANGED faults
       \/ Fault /\ UNCHANGED account
    /\ UNCHANGED <<outside, mem, calls, reader, key, requests, asked, misjudged, orphaned>>

Crash ==
    /\ Fault /\ mem' = Fresh /\ calls' = [c \in DOMAIN calls |-> NoCall] /\ reader' = [p \in Paths |-> Idle]
    /\ \/ UNCHANGED account
       \/ \E c \in DOMAIN calls : calls[c].at = "asked" /\ Created(c)
    /\ UNCHANGED <<outside, key, requests, asked, misjudged, orphaned>>

-----------------------------------------------------------------------------
OwnNext ==
    \/ Refuse \/ SwitchedOff \/ GiveUp \/ Rest \/ LookFails
    \/ \E s \in Scores \cup {0} : Gather(s) \/ StartClone(s)
CallNext(c) == MakeVoice(c) \/ Store(c) \/ NameLanguage(c) \/ Promote(c) \/ Agree(c) \/ Discard(c) \/ StoreFar(c)
CallBreaks(c) == CallFails(c) \/ StoreFails(c) \/ LaterFails(c)
CaptureNext == CaptureAsk \/ CaptureGate \/ \E s \in Scores \cup {0} : CaptureTake(s)
Reads(p) == Compare(p) \/ Find(p) \/ Remove(p) \/ WithdrawFails(p) \/ AskDelete(p)
Keeps(v) == DeleteVoice(v) \/ Sweep(v)

Next ==
    \/ Change \/ RoomEnds \/ DayPasses \/ OwnNext \/ \E c \in DOMAIN calls : CallNext(c) \/ CallBreaks(c)
    \/ CaptureNext \/ DubLook \/ WatchLook \/ \E p \in Paths : Reads(p)
    \/ \E v \in Voices : Keeps(v)
    \/ Crash

Spec == Init /\ [][Next]_vars

\* The worker's tasks go on; nobody has to speak, to consent or to leave, and no day to pass.
FairSpec ==
    /\ Spec /\ WF_vars(WatchLook) /\ \A c \in 1..MaxCalls : WF_vars(CallNext(c))
    /\ WF_vars(CaptureGate) /\ \A p \in Paths : WF_vars(Reads(p))

-----------------------------------------------------------------------------
\* While no clone is being made, a speaker the worker takes for cloned has a voice: what it
\* wrote down when it began a clone that failed is taken back (worker.py:343).
BeliefIsTrue == seat = "own" /\ ~InFlight /\ mem.score # 0 /\ ~aged => HasVoice

\* A voice made from a full sample is never replaced by a provisional one, whatever order the
\* vendor answers in and whatever is withdrawn and granted again meanwhile (worker.py:3251).
ProvisionalNeverReturns ==
    [][seat = "own" /\ key.voice # NoVoice /\ key'.voice \notin {NoVoice, key.voice}
         /\ account[key.voice].secs >= MinSeconds
       => account[key'.voice].secs >= MinSeconds]_vars

\* Whose voice the worker asks to destroy for a withdrawal did withdraw, after its sample was
\* begun, but for a voice just made whose consent could not be read (worker.py:3887).
OnlyTheWithdrawn == \A v \in asked \ misjudged : account[v].since < leaves

\* The same of every voice: "a Redis blip is not a person withdrawing".
BlipIsNotWithdrawal == \A v \in asked : account[v].since < leaves

\* A far-side voice is in use without its person's consent only if they withdrew after it was
\* made: one that arrives after its consent left never becomes reachable (worker.py:3919).
ArrivedWithConsent ==
    seat = "far" /\ key.voice # NoVoice /\ ~consent => account[key.voice].born < leaves

\* The voice in use of a far-side person who withdrew, and need never speak again, is asked to
\* be destroyed while the meeting goes on, unless a restart forgot the room (worker.py:4069) or
\* the answer to the removal of its pointer was lost (worker.py:4037).
WithdrawnIsForgotten ==
    \A v \in Voices :
        (seat = "far" /\ key.voice = v /\ ~consent /\ mem.watched /\ ~over)
            ~> (v \in asked \cup orphaned \/ consent \/ over \/ ~mem.watched)
=============================================================================
