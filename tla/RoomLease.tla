----------------------------- MODULE RoomLease -----------------------------
(***************************************************************************)
(* Which replica of the LiveKit ingress worker holds the bot of a room.     *)
(* Every replica hears every event of the room; the one that sets the key   *)
(* livekit:ingress:room-owner:{room} dials, the others remember the room.   *)
(* A sweep renews the lease, leaves an empty room, takes back a room whose  *)
(* connection was lost and retries the rooms it remembers.  Handlers, sweep *)
(* and idle release of one process share a lock per room; the end of the    *)
(* meeting is handled without it.                                           *)
(*                                                                         *)
(* One room.  One unit of time is the interval of the sweep, and a dial     *)
(* ends within it.  All bots use one LiveKit identity: a dial evicts        *)
(* whoever holds it.                                                        *)
(***************************************************************************)
EXTENDS Naturals, FiniteSets

CONSTANTS
    Replicas,
    Lease,      \* _ROOM_LEASE_TTL_S, in sweep intervals
    Grace,      \* _IDLE_ROOM_GRACE_S
    MaxBackoff, \* the longest wait after a failed dial
    MaxEvents,  \* bound: humans joining
    MaxFaults,  \* bound: failed calls and dials, lost connections, restarts
    MaxMissed,  \* bound: messages a replica misses
    Nobody

ASSUME LeaseConstants ==
    /\ Nobody \notin Replicas
    /\ Lease \in Nat \ {0} /\ Grace \in Nat \ {0}
    /\ MaxBackoff \in Nat /\ MaxEvents \in Nat /\ MaxFaults \in Nat /\ MaxMissed \in Nat

VARIABLES
    owner, lease,   \* the Redis key and its TTL
    bot,            \* whose connection has the identity in LiveKit
    humans, ended,  \* people in the room; room_status is terminal
    up,             \* the process runs
    held,           \* the room is in self.rooms
    deferred,       \* it is in _deferred_rooms
    knowsEnd,       \* _route_states has the terminal status
    backoff,        \* time until a dial is allowed again
    alone,          \* time since _room_last_occupied
    work, by,       \* what the holder of the room lock does, and which task it is
    event,          \* an event of the room: being looked at, or waiting for the lock
    sweep,          \* where the sweep is
    idle,           \* an idle release waits for the lock
    ending,         \* the terminal status is on its way
    unclaiming, leaving,    \* tasks _cleanup_room started
    cleaned,        \* history: it has handled the end of the meeting
    lost,           \* history: a connection was lost
    late,           \* history: its last renewal failed
    starved,        \* history: two renewals in a row failed somewhere
    blind,          \* history: a restart could not read which rooms are live
    events, faults, misses

redisVars == <<owner, lease>>
roomVars  == <<humans, ended>>
stateVars == <<up, held, deferred, knowsEnd, backoff, alone>>
lockVars  == <<work, by>>
taskVars  == <<event, sweep, idle>>
endVars   == <<ending, unclaiming, leaving, cleaned>>
counts    == <<lost, late, starved, blind, events, faults, misses>>
vars == <<redisVars, bot, roomVars, stateVars, lockVars, taskVars, endVars, counts>>

None == [p \in Replicas |-> FALSE]
Set(f, p, v) == [f EXCEPT ![p] = v]

Init ==
    /\ owner = Nobody /\ lease = 0 /\ bot = Nobody
    /\ humans = FALSE /\ ended = FALSE
    /\ up = [p \in Replicas |-> TRUE]
    /\ held = None /\ deferred = None /\ knowsEnd = None
    /\ backoff = [p \in Replicas |-> 0] /\ alone = [p \in Replicas |-> 0]
    /\ work = [p \in Replicas |-> "free"] /\ by = [p \in Replicas |-> "none"]
    /\ event = [p \in Replicas |-> "none"]
    /\ sweep = [p \in Replicas |-> "asleep"]
    /\ idle = None
    /\ ending = None /\ unclaiming = None /\ leaving = None /\ cleaned = None
    /\ lost = FALSE /\ late = None /\ starved = FALSE /\ blind = FALSE
    /\ events = 0 /\ faults = 0 /\ misses = 0

Connected(p) == bot = p
OneFault == faults < MaxFaults /\ faults' = faults + 1
Fault == OneFault /\ UNCHANGED <<lost, late, starved, blind, events, misses>>

-----------------------------------------------------------------------------
(* The meeting.                                                             *)

\* Pub/sub reaches the replicas that run, but for those that miss it.
Reach(missed) ==
    /\ missed \subseteq {p \in Replicas : up[p]}
    /\ missed # Replicas
    /\ misses' = misses + Cardinality(missed)
    /\ misses' <= MaxMissed

HumansJoin(missed) ==
    /\ ~ended /\ events < MaxEvents
    /\ humans' = TRUE
    /\ events' = events + 1 /\ blind' = FALSE /\ UNCHANGED <<lost, late, starved, faults>>
    /\ Reach(missed)
    /\ event' = [p \in Replicas |-> IF up[p] /\ p \notin missed /\ event[p] = "none"
                                    THEN "heard" ELSE event[p]]
    /\ UNCHANGED <<redisVars, bot, ended, stateVars, lockVars, sweep, idle, endVars>>

HumansLeave ==
    /\ humans /\ humans' = FALSE
    /\ UNCHANGED <<redisVars, bot, ended, stateVars, lockVars, taskVars, endVars, counts>>

MeetingEnds(missed) ==
    /\ ~ended /\ ended' = TRUE
    /\ UNCHANGED <<lost, late, starved, blind, events, faults>>
    /\ Reach(missed)
    /\ ending' = [p \in Replicas |-> up[p] /\ p \notin missed]
    /\ UNCHANGED <<redisVars, bot, humans, stateVars, lockVars, taskVars, unclaiming, leaving,
                   cleaned>>

\* LiveKit drops the bot.
ConnectionLost ==
    /\ bot # Nobody /\ OneFault
    /\ bot' = Nobody /\ lost' = TRUE
    /\ UNCHANGED <<redisVars, roomVars, stateVars, lockVars, taskVars, endVars, late, starved,
                   blind, events, misses>>

-----------------------------------------------------------------------------
(* The lock of the room: an event, the sweep or an idle release holds it.   *)

Locked(p, task, what) ==
    /\ work[p] = "free"
    /\ work' = Set(work, p, what) /\ by' = Set(by, p, task)

Unlocked(p) ==
    /\ work' = Set(work, p, "free") /\ by' = Set(by, p, "none")

\* The sweep goes on when the work it did under the lock is over.
SweepOn(p) ==
    sweep' = IF by[p] # "sweep" THEN sweep
             ELSE Set(sweep, p, IF sweep[p] = "yield" THEN "probe" ELSE "asleep")

\* _hydrate_room_status
Hydrate(p) ==
    /\ event[p] = "heard"
    /\ event' = Set(event, p, "waiting")
    /\ \/ knowsEnd' = Set(knowsEnd, p, ended) /\ UNCHANGED counts
       \/ UNCHANGED knowsEnd /\ Fault
    /\ UNCHANGED <<redisVars, bot, roomVars, up, held, deferred, backoff, alone, lockVars, sweep,
                   idle, endVars>>

HandleEvent(p) ==
    /\ event[p] = "waiting"
    /\ Locked(p, "event", "claim")
    /\ event' = Set(event, p, "none")
    /\ UNCHANGED <<redisVars, bot, roomVars, stateVars, sweep, idle, endVars, counts>>

\* Mutant: a room that could not be joined is not put back in the queue.
RetryNever(p, queue) == deferred' = queue

\* _retry_connect_later, from _connect_room
RetryLater(p, queue) == deferred' = IF knowsEnd[p] THEN queue ELSE Set(queue, p, TRUE)

\* The claim is ours: reuse the connection, or dial unless a backoff runs.
Claimed(p) ==
    /\ late' = Set(late, p, FALSE)
    /\ IF held[p] /\ Connected(p)
       THEN /\ deferred' = Set(deferred, p, FALSE)
            /\ Unlocked(p) /\ SweepOn(p) /\ UNCHANGED held
       ELSE /\ held' = Set(held, p, FALSE)
            /\ IF backoff[p] > 0
               THEN /\ RetryLater(p, Set(deferred, p, FALSE))
                    /\ Unlocked(p) /\ SweepOn(p)
               ELSE /\ deferred' = Set(deferred, p, FALSE)
                    /\ work' = Set(work, p, "dial")
                    /\ UNCHANGED <<by, sweep>>

\* Somebody else's room: an event has it remembered.
Denied(p) ==
    /\ deferred' = IF by[p] = "event" THEN Set(deferred, p, TRUE) ELSE deferred
    /\ Unlocked(p) /\ SweepOn(p)
    /\ UNCHANGED <<held, late>>

claimRest == <<lost, starved, blind, events, faults, misses>>

\* Mutant: SET without NX.
ClaimAnyway(p) ==
    /\ work[p] = "claim"
    /\ owner' = p /\ lease' = Lease
    /\ Claimed(p)
    /\ UNCHANGED <<bot, roomVars, up, knowsEnd, backoff, alone, event, idle, endVars, claimRest>>

\* _claim_room_ownership: SET NX EX, then the compare-and-extend.
Claim(p) ==
    /\ work[p] = "claim"
    /\ IF owner = Nobody
       THEN owner' = p /\ lease' = Lease /\ Claimed(p)
       ELSE /\ work' = Set(work, p, "extend")
            /\ UNCHANGED <<redisVars, held, deferred, late, by, sweep>>
    /\ UNCHANGED <<bot, roomVars, up, knowsEnd, backoff, alone, event, idle, endVars, claimRest>>

Extend(p) ==
    /\ work[p] = "extend"
    /\ IF owner = p
       THEN lease' = Lease /\ Claimed(p)
       ELSE UNCHANGED lease /\ Denied(p)
    /\ UNCHANGED <<owner, bot, roomVars, up, knowsEnd, backoff, alone, event, idle, endVars,
                   claimRest>>

\* Redis does not answer, the call done or not: fails closed.
ClaimFails(p) ==
    /\ work[p] \in {"claim", "extend"}
    /\ Fault
    /\ \/ UNCHANGED redisVars
       \/ work[p] = "claim" /\ owner = Nobody /\ owner' = p /\ lease' = Lease
       \/ work[p] = "extend" /\ owner = p /\ lease' = Lease /\ UNCHANGED owner
    /\ Denied(p)
    /\ UNCHANGED <<bot, roomVars, up, knowsEnd, backoff, alone, event, idle,
                   endVars>>

\* join_room succeeds, evicting whoever has the identity: our own old connection too.
Dial(p) ==
    /\ work[p] = "dial"
    /\ bot' = p
    /\ held' = Set(held, p, TRUE)
    /\ backoff' = Set(backoff, p, 0) /\ alone' = Set(alone, p, 0)
    /\ leaving' = Set(leaving, p, FALSE)
    /\ Unlocked(p) /\ SweepOn(p)
    /\ UNCHANGED <<redisVars, roomVars, up, deferred, knowsEnd, event, idle, ending,
                   unclaiming, cleaned, counts>>

DialFails(p) ==
    /\ work[p] = "dial"
    /\ Fault
    /\ \E wait \in 0..MaxBackoff : backoff' = Set(backoff, p, wait)
    /\ RetryLater(p, deferred)
    /\ Unlocked(p) /\ SweepOn(p)
    /\ UNCHANGED <<redisVars, bot, roomVars, up, held, knowsEnd, alone, event, idle, endVars>>

-----------------------------------------------------------------------------
(* The sweep.                                                               *)

\* Mutant: the sweep forgets the lease.
RenewNothing(p) ==
    /\ sweep[p] = "due" /\ held[p]
    /\ sweep' = Set(sweep, p, "probe")
    /\ UNCHANGED <<redisVars, bot, roomVars, stateVars, lockVars, event, idle, endVars, counts>>

\* _renew_room_ownership: a lease that is no longer ours is not fought for.
Renew(p) ==
    /\ sweep[p] = "due" /\ held[p]
    /\ IF owner = p
       THEN /\ lease' = Lease /\ late' = Set(late, p, FALSE)
            /\ sweep' = Set(sweep, p, "probe")
            /\ UNCHANGED deferred
       ELSE /\ deferred' = Set(deferred, p, TRUE)
            /\ sweep' = Set(sweep, p, "yield")
            /\ UNCHANGED <<lease, late>>
    /\ UNCHANGED <<owner, bot, roomVars, up, held, knowsEnd, backoff, alone, lockVars, event,
                   idle, endVars, claimRest>>

RenewFails(p) ==
    /\ sweep[p] = "due" /\ held[p]
    /\ OneFault
    /\ late' = Set(late, p, TRUE) /\ starved' = (starved \/ late[p])
    /\ sweep' = Set(sweep, p, "probe")
    /\ UNCHANGED <<redisVars, bot, roomVars, stateVars, lockVars, event, idle, endVars, lost, blind,
                   events, misses>>

\* _yield_room
Yield(p) ==
    /\ sweep[p] = "yield"
    /\ Locked(p, "sweep", IF held[p] THEN "leave" ELSE "left")
    /\ held' = Set(held, p, FALSE) /\ alone' = Set(alone, p, 0)
    /\ UNCHANGED <<redisVars, bot, roomVars, up, deferred, knowsEnd, backoff, taskVars, endVars,
                   counts>>

\* The sweep looks at a room: a lost connection is queued, an occupied room stamped,
\* a room empty for too long released by a task of its own, a remembered room retried.
Look(p, occupied) ==
    LET gone == held[p] /\ ~Connected(p)
        full == held[p] /\ Connected(p) /\ occupied IN
      /\ sweep' = Set(sweep, p, CASE gone -> "release"
                                  [] ~held[p] /\ deferred[p] -> "lock"
                                  [] OTHER -> "asleep")
      /\ held' = Set(held, p, held[p] /\ ~gone)
      /\ deferred' = Set(deferred, p, gone \/ (deferred[p] /\ ~held[p]))
      /\ alone' = IF gone \/ full THEN Set(alone, p, 0) ELSE alone
      /\ idle' = Set(idle, p, idle[p] \/ (held[p] /\ ~gone /\ ~full /\ alone[p] >= Grace))

\* Mutant: a room is occupied whenever the bot is connected.
ProbeBots(p) ==
    /\ sweep[p] = "probe" \/ (sweep[p] = "due" /\ ~held[p])
    /\ Look(p, TRUE)
    /\ UNCHANGED <<redisVars, bot, roomVars, up, knowsEnd, backoff, lockVars, event, endVars,
                   counts>>

\* _sweep_idle_rooms, and _claim_deferred_rooms if no connection was lost.
Probe(p) ==
    /\ sweep[p] = "probe" \/ (sweep[p] = "due" /\ ~held[p])
    /\ Look(p, humans)
    /\ UNCHANGED <<redisVars, bot, roomVars, up, knowsEnd, backoff, lockVars, event, endVars,
                   counts>>

\* _release_room_ownership: delete_if_value.
Release(p) == IF owner = p THEN owner' = Nobody /\ lease' = 0 ELSE UNCHANGED redisVars

\* The claim of a lost room is given up, outside the room's lock.
ReleaseLost(p) ==
    /\ sweep[p] = "release"
    /\ sweep' = Set(sweep, p, "queue")
    /\ (Release(p) /\ UNCHANGED counts) \/ (UNCHANGED redisVars /\ Fault)
    /\ UNCHANGED <<bot, roomVars, stateVars, lockVars, event, idle, endVars>>

\* _claim_deferred_rooms
Retry(p) ==
    /\ sweep[p] = "queue"
    /\ sweep' = Set(sweep, p, IF deferred[p] /\ ~held[p] THEN "lock" ELSE "asleep")
    /\ deferred' = IF held[p] THEN Set(deferred, p, FALSE) ELSE deferred
    /\ UNCHANGED <<redisVars, bot, roomVars, up, held, knowsEnd, backoff, alone, lockVars, event,
                   idle, endVars, counts>>

Reclaim(p) ==
    /\ sweep[p] = "lock"
    /\ IF held[p]
       THEN /\ work[p] = "free"
            /\ sweep' = Set(sweep, p, "asleep") /\ UNCHANGED lockVars
       ELSE Locked(p, "sweep", "claim") /\ UNCHANGED sweep
    /\ UNCHANGED <<redisVars, bot, roomVars, stateVars, event, idle, endVars, counts>>

\* _release_idle_room, looking again under the lock.
ReleaseIdle(p) ==
    /\ idle[p] /\ work[p] = "free"
    /\ idle' = Set(idle, p, FALSE)
    /\ IF held[p] /\ ~(Connected(p) /\ humans)
       THEN /\ held' = Set(held, p, FALSE) /\ deferred' = Set(deferred, p, FALSE)
            /\ Locked(p, "idle", "unclaim")
       ELSE UNCHANGED <<held, deferred, lockVars>>
    /\ alone' = IF held[p] THEN Set(alone, p, 0) ELSE alone
    /\ UNCHANGED <<redisVars, bot, roomVars, up, knowsEnd, backoff, event, sweep, endVars,
                   counts>>

ReleaseClaim(p) ==
    /\ work[p] = "unclaim"
    /\ work' = Set(work, p, "leave")
    /\ (Release(p) /\ UNCHANGED counts) \/ (UNCHANGED redisVars /\ Fault)
    /\ UNCHANGED <<bot, roomVars, stateVars, by, taskVars, endVars>>

\* The connection that was let go is closed, if it is not already.
Leave(p) ==
    /\ work[p] \in {"leave", "left"}
    /\ bot' = IF work[p] = "leave" /\ Connected(p) THEN Nobody ELSE bot
    /\ Unlocked(p) /\ SweepOn(p)
    /\ UNCHANGED <<redisVars, roomVars, stateVars, event, idle, endVars, counts>>

-----------------------------------------------------------------------------
(* The end of the meeting, without the lock.                                *)

\* _cleanup_room: BaseWorker's forgets the status it was called for.
Cleanup(p) ==
    /\ ending[p]
    /\ ending' = Set(ending, p, FALSE)
    /\ held' = Set(held, p, FALSE) /\ deferred' = Set(deferred, p, FALSE)
    /\ knowsEnd' = Set(knowsEnd, p, FALSE)
    /\ backoff' = Set(backoff, p, 0) /\ alone' = Set(alone, p, 0)
    /\ unclaiming' = Set(unclaiming, p, TRUE)
    /\ leaving' = Set(leaving, p, held[p] \/ leaving[p])
    /\ cleaned' = Set(cleaned, p, TRUE)
    /\ UNCHANGED <<redisVars, bot, roomVars, up, lockVars, taskVars, counts>>

Unclaim(p) ==
    /\ unclaiming[p]
    /\ unclaiming' = Set(unclaiming, p, FALSE)
    /\ (Release(p) /\ UNCHANGED counts) \/ (UNCHANGED redisVars /\ Fault)
    /\ UNCHANGED <<bot, roomVars, stateVars, lockVars, taskVars, ending, leaving, cleaned>>

Disconnect(p) ==
    /\ leaving[p]
    /\ leaving' = Set(leaving, p, FALSE)
    /\ bot' = IF Connected(p) THEN Nobody ELSE bot
    /\ UNCHANGED <<redisVars, roomVars, stateVars, lockVars, taskVars, ending, unclaiming,
                   cleaned, counts>>

-----------------------------------------------------------------------------
(* Processes and time.                                                      *)

Gone(p) ==
    /\ up' = Set(up, p, FALSE)
    /\ bot' = IF Connected(p) THEN Nobody ELSE bot
    /\ held' = Set(held, p, FALSE) /\ deferred' = Set(deferred, p, FALSE)
    /\ knowsEnd' = Set(knowsEnd, p, FALSE)
    /\ backoff' = Set(backoff, p, 0) /\ alone' = Set(alone, p, 0)
    /\ Unlocked(p)
    /\ event' = Set(event, p, "none") /\ sweep' = Set(sweep, p, "asleep")
    /\ idle' = Set(idle, p, FALSE)
    /\ ending' = Set(ending, p, FALSE)
    /\ unclaiming' = Set(unclaiming, p, FALSE) /\ leaving' = Set(leaving, p, FALSE)
    /\ cleaned' = Set(cleaned, p, FALSE)
    /\ UNCHANGED roomVars

Crash(p) == up[p] /\ Fault /\ Gone(p) /\ UNCHANGED redisVars

\* _cleanup: the claim of a held room is given up on the way out.
Shutdown(p) ==
    /\ up[p] /\ Fault /\ Gone(p)
    /\ IF held[p] THEN Release(p) ELSE UNCHANGED redisVars

\* _rediscover_active_rooms: a live room is remembered and claimed at once.  "Never
\* fatal": without the keys or the room's status the process starts knowing nothing.
Restart(p) ==
    /\ ~up[p]
    /\ up' = Set(up, p, TRUE)
    /\ \/ /\ deferred' = Set(deferred, p, ~ended)
          /\ sweep' = Set(sweep, p, IF ended THEN "asleep" ELSE "lock")
          /\ UNCHANGED blind
       \/ blind' = TRUE /\ UNCHANGED <<deferred, sweep>>
    /\ UNCHANGED <<redisVars, bot, roomVars, held, knowsEnd, backoff, alone, lockVars, event,
                   idle, endVars, lost, late, starved, events, faults, misses>>

\* Nothing that can run is left.
Settled(p) ==
    /\ up[p] /\ work[p] = "free" /\ event[p] = "none" /\ sweep[p] = "asleep"
    /\ ~idle[p] /\ ~ending[p] /\ ~unclaiming[p] /\ ~leaving[p]

Tick ==
    /\ \A p \in Replicas : Settled(p)
    /\ lease' = IF lease = 0 THEN 0 ELSE lease - 1
    /\ owner' = IF lease <= 1 THEN Nobody ELSE owner
    /\ backoff' = [p \in Replicas |-> IF backoff[p] = 0 THEN 0 ELSE backoff[p] - 1]
    /\ alone' = [p \in Replicas |-> IF held[p] /\ alone[p] < Grace THEN alone[p] + 1
                                    ELSE alone[p]]
    /\ sweep' = [p \in Replicas |-> "due"]
    /\ UNCHANGED <<bot, roomVars, up, held, deferred, knowsEnd, lockVars, event, idle, endVars,
                   counts>>

-----------------------------------------------------------------------------
Step(p) ==
    \/ Hydrate(p) \/ HandleEvent(p) \/ Claim(p) \/ Extend(p) \/ Dial(p)
    \/ Renew(p) \/ Yield(p) \/ Probe(p) \/ ReleaseLost(p)
    \/ Retry(p) \/ Reclaim(p) \/ ReleaseIdle(p) \/ ReleaseClaim(p) \/ Leave(p)
    \/ Cleanup(p) \/ Unclaim(p) \/ Disconnect(p) \/ Restart(p)

Next ==
    \/ \E missed \in SUBSET Replicas : HumansJoin(missed) \/ MeetingEnds(missed)
    \/ HumansLeave \/ ConnectionLost \/ Tick
    \/ \E p \in Replicas :
          \/ Step(p) \/ ClaimFails(p) \/ DialFails(p) \/ RenewFails(p)
          \/ Crash(p) \/ Shutdown(p)

Spec == Init /\ [][Next]_vars

\* Whatever can run does, and time passes: a Tick waits for all of it.
Fairness == WF_vars((\E p \in Replicas : Step(p)) \/ Tick)

FairSpec == Spec /\ Fairness

-----------------------------------------------------------------------------
\* Every variable keeps its type, and the lock has a holder exactly while work is done.
TypeOK ==
    /\ owner \in Replicas \cup {Nobody} /\ lease \in 0..Lease
    /\ (owner = Nobody) = (lease = 0)
    /\ bot \in Replicas \cup {Nobody}
    /\ humans \in BOOLEAN /\ ended \in BOOLEAN
    /\ \A f \in {up, held, deferred, knowsEnd, idle, ending, unclaiming, leaving, cleaned,
                late} :
          f \in [Replicas -> BOOLEAN]
    /\ backoff \in [Replicas -> 0..MaxBackoff] /\ alone \in [Replicas -> 0..Grace]
    /\ work \in [Replicas -> {"free", "claim", "extend", "dial", "unclaim", "leave", "left"}]
    /\ by \in [Replicas -> {"none", "event", "sweep", "idle"}]
    /\ \A p \in Replicas : (work[p] = "free") = (by[p] = "none")
    /\ event \in [Replicas -> {"none", "heard", "waiting"}]
    /\ sweep \in [Replicas -> {"asleep", "due", "yield", "probe", "release", "queue", "lock"}]

\* "Exactly one ingress bot per room": while the meeting runs, a dial takes the
\* identity from no replica that still holds the room, and neither a restart nor one
\* missed renewal hands the room away, nor many that are not in a row.  Not so once a
\* connection was lost: the sweep gives that claim up outside the lock, after an event may
\* have dialled on it.
NoEviction ==
    [][~ended /\ ~lost /\ ~starved =>
          \A p, q \in Replicas : Connected(q) /\ held[q] /\ Connected(p)' => p = q]_vars

\* A meeting with people in it is heard again after any one failure; a replica that could
\* not read the rooms when it started waits for an event, as it says.
MeetingIsHeard == <>[](humans /\ ~ended /\ ~blind) => <>[](bot # Nobody)

\* A room nobody is in is left by every bot.
EmptyRoomIsLeft == <>[]~humans => <>[](bot = Nobody)

\* "The room is over for everyone, so no replica should keep chasing it": whatever was
\* under way when the meeting ended, a replica that has handled the end does not have
\* the room in its queue.
EndedRoomNotQueued ==
    \A p \in Replicas : cleaned[p] /\ event[p] = "none" /\ work[p] = "free" => ~deferred[p]
=============================================================================
