---------------------------- MODULE Settlement ----------------------------
(***************************************************************************)
(* Billing after the fact: the billing worker reads the results of live    *)
(* translation, of translation backfill and of dubbing, each through a     *)
(* group of its own, and settles one charge per piece of work through the  *)
(* database function settle_usage_charge.  Results come several times: a   *)
(* chunk of audio is published sentence by sentence, a redelivery repeats  *)
(* a message, a retry repeats a dub in another voice, two replicas race a  *)
(* reclaimed entry.  What is told apart by the idempotency key, and by     *)
(* nothing else, is told apart in the account.                             *)
(*                                                                         *)
(* The workspace of the rooms is one; its plan may lapse, be renewed and   *)
(* be topped up.  The check that lets a stopped room run again is in       *)
(* CreditSuspension.                                                       *)
(***************************************************************************)
EXTENDS Integers, FiniteSets

CONSTANTS
    Replicas,       \* instances of the billing worker
    Rooms,
    Messages,       \* the results that may be published
    Says,           \* what each of them says, see Fields and WellFormed
    Batches,        \* which of them are: sets of messages, one per behaviour
    Rate,           \* credits per 10 seconds, the unit price of the rate card
    MaxAttempts,    \* max_delivery_attempts
    MaxDeliveries,  \* bound: deliveries counted, and taken from a live handler
    MaxPlans,       \* bound: subscriptions the workspace ever has
    MaxCredits,     \* bound: what a plan is worth, topped up or new
    MaxFaults,      \* bound: crashes and failed calls
    MaxTurns        \* bound: lapses, renewals, top-ups, expired caches and projections

Streams == {"live", "backfill", "dub"}
None == "none"

\* What a message says.  speech is what it came from, which the worker does not
\* see: the stretch of audio, or the sentence that was dubbed.  seconds is how
\* long that is, which a chunk and a dub carry, 0 if nobody knows; span is what
\* the timing of the segment says, 0 if it has none.
Fields == {"stream", "room", "lang", "content", "speaker", "chunk", "early",
           "segment", "part", "span", "voice", "speech", "seconds"}

Work(m) == <<Says[m].stream, Says[m].speech, Says[m].lang>>

ASSUME WellFormed ==
    /\ Batches \subseteq SUBSET Messages
    /\ DOMAIN Says = Messages
    /\ \A m \in Messages :
          /\ DOMAIN Says[m] = Fields /\ Says[m].stream \in Streams /\ Says[m].room \in Rooms
          /\ Says[m].seconds \in Nat /\ Says[m].span \in Nat /\ Says[m].early \in BOOLEAN

\* The sentences of one chunk name it and the parts of one segment name the
\* segment, all of them from one version of the producers.
ASSUME WorkIsNamed == \A m, n \in Messages : Work(m) = Work(n) =>
    /\ Says[m].room = Says[n].room /\ Says[m].chunk = Says[n].chunk
    /\ Says[m].stream = "dub" => Says[m].part = Says[n].part
    /\ Says[m].stream = "backfill" => Says[m].segment = Says[n].segment
    /\ Says[m].chunk = None /\ ~Says[m].early /\ ~Says[n].early =>
          /\ Says[m].segment = Says[n].segment
          /\ Says[m].segment = None => Says[m].part = Says[n].part

\* And no two pieces of work share a name: a chunk is numbered within its room,
\* a segment is a GUID, which a part whose segment cannot be read is not.
ASSUME NamesAreUnique ==
    \A m, n \in Messages : Says[m].stream = Says[n].stream /\ Says[m].speech # Says[n].speech =>
        /\ Says[m].part # Says[n].part
        /\ Says[m].room = Says[n].room /\ Says[m].chunk = Says[n].chunk => Says[m].chunk = None
        /\ Says[m].stream # "dub" /\ Says[m].segment = Says[n].segment => Says[m].segment = None
        /\ Says[m].segment # Says[n].part

\* A stretch of audio has one length.  Each sentence of a chunk carries it, and
\* the timing of a segment says it; what is dubbed is as long as each voice says it.
ASSUME SpeechIsTimed == \A m \in Messages : Says[m].stream # "dub" =>
    /\ \A n \in Messages : Work(m) = Work(n) => Says[m].seconds = Says[n].seconds
    /\ Says[m].stream = "backfill" \/ (Says[m].chunk = None /\ ~Says[m].early)
          => Says[m].span = Says[m].seconds

ASSUME Bounds ==
    /\ {MaxAttempts, MaxDeliveries, MaxPlans, MaxCredits, MaxFaults, MaxTurns, Rate} \subseteq Nat
    /\ 1 <= MaxAttempts /\ MaxAttempts <= MaxDeliveries /\ 1 <= MaxPlans

VARIABLES
    state,      \* of each published message in its group: "new", "pending" or "settled"
    deliveries, \* how often each was handed out, as the pending list counts
    parked,     \* messages written to the dead-letter stream
    job,        \* what each loop of each replica is doing
    cached,     \* _subscription_cache: the plan a replica remembers for a room
    recalled,   \* _workspace_subscription_cache: the one it uses for backfills
    known,      \* rooms whose projection MeetingService keeps in Redis
    plan,       \* the active subscription of the workspace, 0 if it has none
    plans,      \* the newest subscription there has been
    credits,    \* what is left of the active one
    ledger,     \* the charges written
    unbilled,   \* messages counted as not billed
    uncounted,  \* history: those whose count failed, which is swallowed
    mark,       \* of each room: "runs", "stopped", or "missed" when marking it failed
    faults,
    turns

Published == DOMAIN state
queue == <<state, deliveries, parked>>
memory == <<cached, recalled>>
account == <<plan, plans, credits>>
counts == <<unbilled, uncounted>>
vars == <<queue, job, memory, known, account, ledger, counts, mark, faults, turns>>

Idle == [at |-> "idle"]
\* again: the message was reclaimed, so that a failure of it is counted
At(step, m, p, again) == [at |-> step, msg |-> m, plan |-> p, again |-> again]
Loop == Replicas \X Streams

Init ==
    /\ \E batch \in Batches :
          /\ state = [m \in batch |-> "new"]
          /\ deliveries = [m \in batch |-> 0]
    /\ parked = {}
    /\ job = [l \in Loop |-> Idle]
    /\ cached = [r \in Replicas |-> [c \in Rooms |-> 0]]
    /\ recalled = [r \in Replicas |-> 0]
    /\ known = Rooms
    /\ plan \in 0..1 /\ plans = 1 /\ credits = plan * MaxCredits
    /\ ledger = {} /\ unbilled = {} /\ uncounted = {}
    /\ mark = [c \in Rooms |-> "runs"]
    /\ faults = 0 /\ turns = 0

(***************************************************************************)
(* The terms of a charge.                                                  *)
(***************************************************************************)
Backfill(m) == Says[m].stream = "backfill"
ChunkBilled(m) == Says[m].stream = "live" /\ Says[m].chunk # None

\* Mutant: an early sentence of a producer that names no chunk is charged.
SkippedNotEarly(m) ==
    \/ Says[m].content # "speech"
    \/ Says[m].stream # "backfill" /\ Says[m].speaker = "system"
    \/ Says[m].stream = "backfill" /\ Says[m].segment = None

\* Nothing to charge for: no text or no new audio, a sentence whose chunk the
\* completed segment pays for, a redone line, or nobody the charge could name.
Skipped(m) ==
    \/ Says[m].content # "speech"
    \/ Says[m].stream = "live" /\ Says[m].early /\ ~ChunkBilled(m)
    \/ Says[m].stream # "backfill" /\ Says[m].speaker = "system"
    \/ Says[m].stream = "backfill" /\ Says[m].segment = None

TranslationSeconds(m) == IF Says[m].span > 0 THEN Says[m].span ELSE 1

Seconds(m) == IF ChunkBilled(m) \/ Says[m].stream = "dub" THEN Says[m].seconds ELSE TranslationSeconds(m)

ChargeType(m) ==
    CASE Says[m].stream # "dub" -> "TRANSLATION"
      [] Says[m].voice = "cloned" -> "AUDIO_DUBBING_VOICE_CLONE"
      [] OTHER -> "AUDIO_DUBBING_STANDARD"

Reference(m) == Says[m].segment
BillingSegment(m) == IF Says[m].segment = None THEN Says[m].part ELSE Says[m].segment

\* Mutant: the key of a dub names the voice it was rendered in.
KeyByVoice(m) ==
    CASE Says[m].stream = "dub" -> <<ChargeType(m), Says[m].part, Says[m].lang>>
      [] Says[m].stream = "backfill" -> <<"TRANSLATION", "backfill", Says[m].segment, Says[m].lang>>
      [] ChunkBilled(m) -> <<"TRANSLATION", "chunk", Says[m].room, Says[m].chunk, Says[m].lang>>
      [] OTHER -> <<"TRANSLATION", BillingSegment(m), Says[m].lang>>

\* Mutant: the key of a chunk does not name its room.
KeyAnyRoom(m) ==
    CASE Says[m].stream = "dub" -> <<"AUDIO_DUBBING", Says[m].part, Says[m].lang>>
      [] Says[m].stream = "backfill" -> <<"TRANSLATION", "backfill", Says[m].segment, Says[m].lang>>
      [] ChunkBilled(m) -> <<"TRANSLATION", "chunk", Says[m].chunk, Says[m].lang>>
      [] OTHER -> <<"TRANSLATION", BillingSegment(m), Says[m].lang>>

Key(m) ==
    CASE Says[m].stream = "dub" -> <<"AUDIO_DUBBING", Says[m].part, Says[m].lang>>
      [] Says[m].stream = "backfill" -> <<"TRANSLATION", "backfill", Says[m].segment, Says[m].lang>>
      [] ChunkBilled(m) -> <<"TRANSLATION", "chunk", Says[m].room, Says[m].chunk, Says[m].lang>>
      [] OTHER -> <<"TRANSLATION", BillingSegment(m), Says[m].lang>>

Credits(seconds) == LET ceil == (seconds * Rate + 9) \div 10
                    IN  IF ceil > 1 THEN ceil ELSE 1

Charged(key) == \E e \in ledger : e.key = key

\* The function's own probe also compares what the charge is for.
Probed(m) == \E e \in ledger : /\ e.key = Key(m) /\ e.type = ChargeType(m)
                               /\ e.ref = Reference(m) /\ Reference(m) # None

(***************************************************************************)
(* The loop of one group: one message at a time, reclaimed ones first.     *)
(***************************************************************************)
Free(l) == job[l] = Idle
Now(l, step) == job[l].at = step
Message(l) == job[l].msg
Go(l, step) == job' = [job EXCEPT ![l].at = step]
Turn == turns < MaxTurns /\ turns' = turns + 1
Fault == faults < MaxFaults /\ faults' = faults + 1

Read(l, m) ==
    /\ Free(l) /\ Says[m].stream = l[2] /\ state[m] = "new"
    /\ state' = [state EXCEPT ![m] = "pending"]
    /\ deliveries' = [deliveries EXCEPT ![m] = 1]
    /\ job' = [job EXCEPT ![l] = At("handle", m, 0, FALSE)]
    /\ UNCHANGED <<parked, memory, known, account, ledger, counts, mark, faults, turns>>

Held(m) == \E l \in Loop : ~Free(l) /\ Message(l) = m

\* reclaim_stale: an entry is idle because its reader is gone, failed it, or is slow.
Reclaim(l, m) ==
    /\ Free(l) /\ Says[m].stream = l[2] /\ state[m] = "pending"
    /\ Held(m) => deliveries[m] < MaxDeliveries
    /\ deliveries' = [deliveries EXCEPT ![m] = IF @ < MaxDeliveries THEN @ + 1 ELSE @]
    /\ job' = [job EXCEPT ![l] = At("handle", m, 0, TRUE)]
    /\ UNCHANGED <<state, parked, memory, known, account, ledger, counts, mark, faults, turns>>

\* The three handlers return early: nothing is charged and the entry is acknowledged.
Skip(l) ==
    /\ Now(l, "handle") /\ Skipped(Message(l))
    /\ Go(l, "ack")
    /\ UNCHANGED <<queue, memory, known, account, ledger, counts, mark, faults, turns>>

\* A handler raised: the entry stays pending; only a reclaimed one is counted.
Fail(l) ==
    job' = [job EXCEPT ![l] = IF @.again THEN [@ EXCEPT !.at = "failed"] ELSE Idle]

CachedPlan(l, m) == IF Backfill(m) THEN recalled[l[1]] ELSE cached[l[1]][Says[m].room]

Remember(l, m, p) ==
    IF Backfill(m)
    THEN recalled' = [recalled EXCEPT ![l[1]] = p] /\ UNCHANGED cached
    ELSE cached' = [cached EXCEPT ![l[1]][Says[m].room] = p] /\ UNCHANGED recalled

\* _resolve_subscription and _resolve_workspace_subscription
Resolve(l) == LET m == Message(l) IN
    /\ Now(l, "handle") /\ ~Skipped(m)
    /\ \/ /\ CachedPlan(l, m) # 0
          /\ job' = [job EXCEPT ![l] = At("charge", m, CachedPlan(l, m), @.again)]
          /\ UNCHANGED memory
       \/ /\ CachedPlan(l, m) = 0 /\ plan # 0
          /\ ~Backfill(m) => Says[m].room \in known
          /\ Remember(l, m, plan)
          /\ job' = [job EXCEPT ![l] = At("charge", m, plan, @.again)]
    /\ UNCHANGED <<queue, known, account, ledger, counts, mark, faults, turns>>

Unresolved(l) == LET m == Message(l) IN
    /\ Now(l, "handle") /\ ~Skipped(m) /\ CachedPlan(l, m) = 0

\* The room's projection is gone: the handler raises, on every delivery.
NoProjection(l) ==
    /\ Unresolved(l) /\ ~Backfill(Message(l)) /\ Says[Message(l)].room \notin known
    /\ Fail(l)
    /\ UNCHANGED <<queue, memory, known, account, ledger, counts, mark, faults, turns>>

\* _count_unbilled, in Redis and best effort: a count that fails is only logged.
Count(m) ==
    \/ unbilled' = unbilled \cup {m} /\ UNCHANGED <<uncounted, faults>>
    \/ uncounted' = uncounted \cup {m} /\ Fault /\ UNCHANGED unbilled

\* Nobody to bill.  Not cached, counted, and the room is stopped as if refused.
NoSubscription(l) == LET m == Message(l) IN
    /\ Unresolved(l) /\ plan = 0 /\ ~Backfill(m) /\ Says[m].room \in known
    /\ Count(m)
    /\ Go(l, "mark")
    /\ UNCHANGED <<queue, memory, known, account, ledger, mark, turns>>

\* A backfill runs after the meeting: it is counted, and there is no room to stop.
NobodyToBill(l) == LET m == Message(l) IN
    /\ Unresolved(l) /\ plan = 0 /\ Backfill(m)
    /\ Count(m)
    /\ Go(l, "ack")
    /\ UNCHANGED <<queue, memory, known, account, ledger, mark, turns>>

(***************************************************************************)
(* settle_usage_charge, in one transaction under the subscription's row    *)
(* lock: replay, refusal, or a new row unless its key is already there.    *)
(***************************************************************************)
Price(m) == Credits(Seconds(m))

Refused(m, p) == ~Probed(m) /\ (p # plan \/ Price(m) > credits)

Settle(m, p) ==
    IF Probed(m) \/ Refused(m, p) \/ Charged(Key(m))
    THEN UNCHANGED <<ledger, credits>>
    ELSE /\ ledger' = ledger \cup {[key |-> Key(m), type |-> ChargeType(m),
                ref |-> Reference(m), work |-> Work(m), seconds |-> Seconds(m), plan |-> p]}
         /\ credits' = credits - Price(m)

\* record_usage_and_charge: a replay, or the unique index saying the same, is success.
Charge(l) == LET m == Message(l)  p == job[l].plan IN
    /\ Now(l, "charge")
    /\ Settle(m, p)
    /\ Go(l, IF Refused(m, p) THEN IF p # plan THEN "expired" ELSE "refused" ELSE "ack")
    /\ UNCHANGED <<queue, memory, known, plan, plans, counts, mark, faults, turns>>

\* The call fails, before the transaction commits or once it has.
ChargeFails(l) == LET m == Message(l)  p == job[l].plan IN
    /\ Now(l, "charge") /\ Fault
    /\ Settle(m, p) \/ UNCHANGED <<ledger, credits>>
    /\ Fail(l)
    /\ UNCHANGED <<queue, memory, known, plan, plans, counts, mark, turns>>

\* _note_settlement of a refusal: count it and forget a plan that has ended.
Note(l) == LET m == Message(l) IN
    /\ Now(l, "refused") \/ Now(l, "expired")
    /\ ~Backfill(m)
    /\ Count(m)
    /\ IF Now(l, "expired") THEN cached' = [cached EXCEPT ![l[1]][Says[m].room] = 0]
                            ELSE UNCHANGED cached
    /\ Go(l, "mark")
    /\ UNCHANGED <<queue, recalled, known, account, ledger, mark, turns>>

\* A refused backfill is only counted, and keeps the plan it recalls.
NoteBackfill(l) == LET m == Message(l) IN
    /\ Now(l, "refused") \/ Now(l, "expired")
    /\ Backfill(m)
    /\ Count(m)
    /\ Go(l, "ack")
    /\ UNCHANGED <<queue, memory, known, account, ledger, mark, turns>>

\* _suspend_room
Mark(l) ==
    /\ Now(l, "mark")
    /\ mark' = [mark EXCEPT ![Says[Message(l)].room] = "stopped"]
    /\ Go(l, "ack")
    /\ UNCHANGED <<queue, memory, known, account, ledger, counts, faults, turns>>

\* It failed: swallowed, and the next refusal tries again.
MarkFails(l) ==
    /\ Now(l, "mark") /\ Fault
    /\ mark' = [mark EXCEPT ![Says[Message(l)].room] = IF @ = "runs" THEN "missed" ELSE @]
    /\ Go(l, "ack")
    /\ UNCHANGED <<queue, memory, known, account, ledger, counts, turns>>

Ack(l) ==
    /\ Now(l, "ack")
    /\ state' = [state EXCEPT ![Message(l)] = "settled"]
    /\ job' = [job EXCEPT ![l] = Idle]
    /\ UNCHANGED <<deliveries, parked, memory, known, account, ledger, counts, mark, faults, turns>>

\* The acknowledgement failed, outside every handler: the loop logs it and goes on.
AckFails(l) ==
    /\ Now(l, "ack") /\ Fault
    /\ job' = [job EXCEPT ![l] = Idle]
    /\ UNCHANGED <<queue, memory, known, account, ledger, counts, mark, turns>>

\* A reclaimed message failed: park it when it has been delivered often enough.
Park(l) == LET m == Message(l) IN
    /\ Now(l, "failed")
    /\ IF deliveries[m] >= MaxAttempts
       THEN parked' = parked \cup {m} /\ Go(l, "ack")
       ELSE job' = [job EXCEPT ![l] = Idle] /\ UNCHANGED parked
    /\ UNCHANGED <<state, deliveries, memory, known, account, ledger, counts, mark, faults, turns>>

(***************************************************************************)
(* What happens around the worker.                                         *)
(***************************************************************************)
\* A replica dies with whatever its loops were doing and starts again, empty.
Crash(r) ==
    /\ Fault
    /\ \E l \in Loop : l[1] = r /\ ~Free(l)
    /\ job' = [l \in Loop |-> IF l[1] = r THEN Idle ELSE job[l]]
    /\ cached' = [cached EXCEPT ![r] = [c \in Rooms |-> 0]]
    /\ recalled' = [recalled EXCEPT ![r] = 0]
    /\ UNCHANGED <<queue, known, account, ledger, counts, mark, turns>>

\* subscription_cache_ttl_seconds pass for everything a replica remembers.
CacheExpires(r) ==
    /\ recalled[r] # 0 \/ \E c \in Rooms : cached[r][c] # 0
    /\ cached' = [cached EXCEPT ![r] = [c \in Rooms |-> 0]]
    /\ recalled' = [recalled EXCEPT ![r] = 0]
    /\ Turn
    /\ UNCHANGED <<queue, job, known, account, ledger, counts, mark, faults>>

\* The projection of a room leaves Redis (24 h, or the LRU).
Forgotten(c) ==
    /\ c \in known
    /\ known' = known \ {c}
    /\ Turn
    /\ UNCHANGED <<queue, job, memory, account, ledger, counts, mark, faults>>

Lapse ==
    /\ plan # 0
    /\ plan' = 0 /\ credits' = 0
    /\ Turn
    /\ UNCHANGED <<queue, job, memory, known, plans, ledger, counts, mark, faults>>

\* A renewal is a new subscription row, which makes an old one inactive.
Renew ==
    /\ plans < MaxPlans
    /\ plan' = plans + 1 /\ plans' = plans + 1 /\ credits' = MaxCredits
    /\ Turn
    /\ UNCHANGED <<queue, job, memory, known, ledger, counts, mark, faults>>

TopUp ==
    /\ plan # 0 /\ credits < MaxCredits
    /\ credits' = MaxCredits
    /\ Turn
    /\ UNCHANGED <<queue, job, memory, known, plan, plans, ledger, counts, mark, faults>>

Working(l) ==
    \/ \E m \in Published : Read(l, m) \/ Reclaim(l, m)
    \/ Skip(l) \/ Resolve(l) \/ NoProjection(l) \/ NoSubscription(l)
    \/ NobodyToBill(l) \/ Charge(l) \/ Note(l) \/ NoteBackfill(l) \/ Mark(l) \/ Ack(l) \/ Park(l)

Trouble(l) == ChargeFails(l) \/ MarkFails(l) \/ AckFails(l)

World == Lapse \/ Renew \/ TopUp \/ \E c \in Rooms : Forgotten(c)

Next ==
    \/ \E l \in Loop : Working(l) \/ Trouble(l)
    \/ \E r \in Replicas : Crash(r) \/ CacheExpires(r)
    \/ World

Spec == Init /\ [][Next]_vars

-----------------------------------------------------------------------------
(***************************************************************************)
(* Properties.                                                             *)
(***************************************************************************)
Steps == {"handle", "charge", "refused", "expired", "mark", "ack", "failed"}
Jobs == [at : Steps, msg : Published, plan : 0..MaxPlans, again : BOOLEAN]

\* Every variable has its type.
TypeOK ==
    /\ Published \in Batches
    /\ state \in [Published -> {"new", "pending", "settled"}]
    /\ deliveries \in [Published -> 0..MaxDeliveries]
    /\ parked \subseteq Published /\ unbilled \subseteq Published /\ uncounted \subseteq Published
    /\ \A l \in Loop : job[l] = Idle \/ job[l] \in Jobs
    /\ DOMAIN job = Loop
    /\ cached \in [Replicas -> [Rooms -> 0..MaxPlans]]
    /\ recalled \in [Replicas -> 0..MaxPlans]
    /\ known \subseteq Rooms
    /\ plan \in 0..MaxPlans /\ plans \in 0..MaxPlans /\ credits \in 0..MaxCredits
    /\ mark \in [Rooms -> {"runs", "stopped", "missed"}]
    /\ faults \in 0..MaxFaults /\ turns \in 0..MaxTurns

\* A piece of work is charged at most once, whatever published it again: the
\* sentences of a chunk, a redelivery, a second replica, a dub in another voice.
ChargedOnce == \A d, e \in ledger : d.work = e.work => d = e

\* Whichever message of a stretch of audio is first pays for the seconds of all
\* of it: the chunk, not the sentence, and never the one-second price of no
\* timing.  A dub costs what the voice it is settled in took to say it.
ChargedInFull == \A e \in ledger :
    /\ \A m \in Published : Work(m) = e.work /\ Says[m].stream # "dub" /\ Says[m].seconds > 0
          => e.seconds = Says[m].seconds
    /\ e.work[1] = "dub" => \E m \in Published :
          Work(m) = e.work /\ ChargeType(m) = e.type /\ Says[m].seconds = e.seconds

Paid(m) == \E e \in ledger : e.work = Work(m)

\* The platform's own work, and what carries nothing to charge.
Exempt(m) == Says[m].content # "speech" \/ Says[m].speaker = "system" \/ (Says[m].early /\ Says[m].chunk = None)
             \/ (Says[m].stream = "backfill" /\ Says[m].segment = None)

turnedDown == unbilled \cup uncounted

\* The account could not pay, and that is on record: counted, unless the count
\* failed, and the room is stopped, unless marking it failed.  A backfill has no
\* room, so one whose count failed leaves no trace.
Unpaid(m) == m \in turnedDown /\ (~Backfill(m) => mark[Says[m].room] # "runs")

Owed(m) == Exempt(m) \/ Paid(m) \/ m \in parked \/ Unpaid(m)

\* An entry leaves its group only when the work is paid for, the entry is parked
\* for somebody to look at, or the account could not pay.  Then the entry was
\* counted and the room of a live result or a dub is stopped; what may go wrong
\* without keeping the entry is the count, which is best effort, and the mark.
NothingForFree == \A m \in Published : state[m] = "settled" => Owed(m)
=============================================================================
