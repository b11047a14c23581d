---------------------------- MODULE WorkerQueue ----------------------------
(***************************************************************************)
(* One Redis stream read through one consumer group by several replicas of *)
(* a BaseWorker running the default, one-at-a-time loop:                   *)
(* shared/base_worker.py (_consume_loop, _recover_stale_messages,          *)
(* _process_and_log_errors, _dead_letter) over shared/redis_client.py      *)
(* (consume, reclaim_stale, pending_delivery_count).                       *)
(*                                                                         *)
(* Messages are numbered in stream order.  Redis keeps, per message, an    *)
(* entry of the group's pending list: who holds it, how long ago it was    *)
(* last delivered (idle) and how often (times).  Time is discrete: Tick    *)
(* advances it, and idle stops counting at the reclaim threshold.          *)
(***************************************************************************)
EXTENDS Naturals, Sequences, FiniteSets

CONSTANTS
    Workers,        \* the consumers of the group (one per process)
    NumMsgs,        \* how many messages the stream ever carries
    Timeout,        \* processing_timeout_seconds
    Margin,         \* reclaim_margin_seconds
    IdleFloor,      \* the 60 s floor of _reclaim_min_idle_ms
    ReclaimCount,   \* how many entries one XAUTOCLAIM may take (count=10)
    MaxAttempts,    \* max_delivery_attempts
    Lag,            \* time a worker may spend between its steps while it holds entries
    MaxFaults,      \* bound: crashes, shutdowns and failed Redis calls together
    Nobody

ASSUME QueueConstants ==
    /\ Nobody \notin Workers
    /\ NumMsgs \in Nat
    /\ Timeout \in Nat /\ Margin \in Nat /\ IdleFloor \in Nat
    /\ ReclaimCount \in Nat \ {0}
    /\ MaxAttempts \in Nat \ {0}
    /\ Lag \in Nat /\ MaxFaults \in Nat

Msgs == 1..NumMsgs

\* Mutant: the flat threshold the code used to have, blind to the timeout.
FlatMinIdle == IdleFloor

\* An entry idle for this long counts as abandoned.
MinIdle == IF IdleFloor > Timeout + Margin THEN IdleFloor ELSE Timeout + Margin

VARIABLES
    published,  \* entries 1..published are in the stream
    cursor,     \* the group's last-delivered id
    pending,    \* ids in the group's pending list
    owner,      \* the consumer each id was last delivered to
    idle,       \* time since that delivery, counted up to MinIdle
    times,      \* its delivery count (times_delivered)
    pc,         \* where each worker stands
    cur,        \* the message a worker has in hand
    reclaimed,  \* whether it came from XAUTOCLAIM rather than XREADGROUP
    batch,      \* the reclaimed entries a worker has yet to take up
    elapsed,    \* time since the worker's last delivery
    started,    \* attempts it began since that delivery
    stopping,   \* _shutdown_event
    done,       \* ids whose process() returned at least once
    parked,     \* ids written to the dead-letter stream
    attempts,   \* attempts at each id that came to an end
    faults

redisVars  == <<published, cursor, pending, owner, idle, times>>
workerVars == <<pc, cur, reclaimed, batch, elapsed, started, stopping>>
resultVars == <<done, parked, attempts>>
vars == <<redisVars, workerVars, resultVars, faults>>

Phases == {"down", "top", "drain", "poll", "run", "count", "park", "ack"}

Init ==
    /\ published = 0 /\ cursor = 0
    /\ pending = {}
    /\ owner = [m \in Msgs |-> Nobody]
    /\ idle  = [m \in Msgs |-> 0]
    /\ times = [m \in Msgs |-> 0]
    /\ pc        = [w \in Workers |-> "top"]
    /\ cur       = [w \in Workers |-> 0]
    /\ reclaimed = [w \in Workers |-> FALSE]
    /\ batch     = [w \in Workers |-> <<>>]
    /\ elapsed   = [w \in Workers |-> 0]
    /\ started   = [w \in Workers |-> 0]
    /\ stopping  = [w \in Workers |-> FALSE]
    /\ done = {} /\ parked = {}
    /\ attempts = [m \in Msgs |-> 0]
    /\ faults = 0

-----------------------------------------------------------------------------
\* Another stage appends the next entry.
Publish ==
    /\ published < NumMsgs
    /\ published' = published + 1
    /\ UNCHANGED <<cursor, pending, owner, idle, times, workerVars, resultVars, faults>>

\* The worker lets go of whatever it held and stands at phase p.
Release(w, p) ==
    /\ pc' = [pc EXCEPT ![w] = p]
    /\ cur' = [cur EXCEPT ![w] = 0]
    /\ reclaimed' = [reclaimed EXCEPT ![w] = FALSE]
    /\ batch' = [batch EXCEPT ![w] = <<>>]
    /\ elapsed' = [elapsed EXCEPT ![w] = 0]
    /\ started' = [started EXCEPT ![w] = 0]

-----------------------------------------------------------------------------
(* The loop's first call: XAUTOCLAIM from 0-0, the lowest abandoned ids first. *)

Abandoned == {m \in pending : idle[m] >= MinIdle}

\* Mutant: the claim starts from the group's last id instead of 0-0.
IsClaimFromCursor(s) == s = <<>>

\* s lists, in stream order, what one XAUTOCLAIM returns.
IsClaim(s) ==
    /\ \A i \in 1..Len(s) : s[i] \in Abandoned
    /\ \A i, j \in 1..Len(s) : i < j => s[i] < s[j]
    /\ Len(s) <= ReclaimCount
    /\ \A m \in Abandoned :
          (\A i \in 1..Len(s) : s[i] # m) =>
              /\ Len(s) = ReclaimCount
              /\ \A i \in 1..Len(s) : s[i] < m

Claims == UNION {[1..n -> Msgs] : n \in {k \in 0..NumMsgs : k <= ReclaimCount}}

Elements(s) == {s[i] : i \in 1..Len(s)}

\* What Redis records when it hands the ids of S to w.
Assign(w, S) ==
    /\ owner' = [m \in Msgs |-> IF m \in S THEN w ELSE owner[m]]
    /\ idle'  = [m \in Msgs |-> IF m \in S THEN 0 ELSE idle[m]]
    /\ times' = [m \in Msgs |-> IF m \in S THEN times[m] + 1 ELSE times[m]]

Reclaim(w) ==
    /\ pc[w] = "top" /\ ~stopping[w]
    /\ \E s \in Claims :
          /\ IsClaim(s)
          /\ Assign(w, Elements(s))
          /\ batch' = [batch EXCEPT ![w] = s]
    /\ pc' = [pc EXCEPT ![w] = "drain"]
    /\ elapsed' = [elapsed EXCEPT ![w] = 0]
    /\ started' = [started EXCEPT ![w] = 0]
    /\ UNCHANGED <<published, cursor, pending, cur, reclaimed, stopping, resultVars, faults>>

\* The for loop over the reclaimed entries: take up the next one ...
TakeReclaimed(w) ==
    /\ pc[w] = "drain" /\ batch[w] # <<>>
    /\ pc' = [pc EXCEPT ![w] = "run"]
    /\ cur' = [cur EXCEPT ![w] = Head(batch[w])]
    /\ batch' = [batch EXCEPT ![w] = Tail(batch[w])]
    /\ reclaimed' = [reclaimed EXCEPT ![w] = TRUE]
    /\ started' = [started EXCEPT ![w] = @ + 1]
    /\ UNCHANGED <<redisVars, elapsed, stopping, resultVars, faults>>

\* ... or, when none is left, go on to consume().
EndDrain(w) ==
    /\ pc[w] = "drain" /\ batch[w] = <<>>
    /\ Release(w, "poll")
    /\ UNCHANGED <<redisVars, stopping, resultVars, faults>>

-----------------------------------------------------------------------------
(* consume(): XREADGROUP ">" with count=1.                                  *)

ReadNext(w) ==
    /\ cursor' = cursor + 1
    /\ pending' = pending \cup {cursor + 1}
    /\ Assign(w, {cursor + 1})

\* The next entry is delivered.  A worker told to stop breaks out of its loop
\* without processing it, and leaves it pending.
Deliver(w) ==
    /\ pc[w] = "poll" /\ cursor < published
    /\ ReadNext(w)
    /\ IF stopping[w]
       THEN Release(w, "down")
       ELSE /\ pc' = [pc EXCEPT ![w] = "run"]
            /\ cur' = [cur EXCEPT ![w] = cursor + 1]
            /\ elapsed' = [elapsed EXCEPT ![w] = 0]
            /\ started' = [started EXCEPT ![w] = 1]
            /\ UNCHANGED <<reclaimed, batch>>
    /\ UNCHANGED <<published, stopping, resultVars, faults>>

\* The block timeout: nothing to read, back to the top of the loop.
PollEmpty(w) ==
    /\ pc[w] = "poll" /\ cursor = published
    /\ Release(w, "top")
    /\ UNCHANGED <<redisVars, stopping, resultVars, faults>>

-----------------------------------------------------------------------------
(* process() under wait_for, and what follows it.                           *)

Succeed(w) ==
    /\ pc[w] = "run"
    /\ done' = done \cup {cur[w]}
    /\ attempts' = [attempts EXCEPT ![cur[w]] = @ + 1]
    /\ pc' = [pc EXCEPT ![w] = "ack"]
    /\ UNCHANGED <<redisVars, cur, reclaimed, batch, elapsed, started, stopping,
                   parked, faults>>

\* Mutant: the entry is acknowledged in a finally, whether or not it was handled.
FailAndAck(w) ==
    /\ pc[w] = "run"
    /\ attempts' = [attempts EXCEPT ![cur[w]] = @ + 1]
    /\ pending' = pending \ {cur[w]}
    /\ Release(w, "top")
    /\ UNCHANGED <<published, cursor, owner, idle, times, stopping, done, parked, faults>>

\* process() raises, or is cancelled at the timeout.  A freshly read message
\* leaves through the generator, unacknowledged, and the loop starts again.
Fail(w) ==
    /\ pc[w] = "run"
    /\ attempts' = [attempts EXCEPT ![cur[w]] = @ + 1]
    /\ IF reclaimed[w]
       THEN /\ pc' = [pc EXCEPT ![w] = "count"]
            /\ UNCHANGED <<cur, reclaimed, batch, elapsed, started>>
       ELSE Release(w, "top")
    /\ UNCHANGED <<redisVars, stopping, done, parked, faults>>

\* Mutants: the delivery limit read with > instead of >=, a message parked at its
\* first failed retry, and a spent message acknowledged without being parked.
GoOnAfterFailure(w, p) ==
    /\ pc[w] = "count"
    /\ pc' = [pc EXCEPT ![w] = p]
    /\ UNCHANGED <<redisVars, cur, reclaimed, batch, elapsed, started, stopping,
                   resultVars, faults>>
ParkAtOnce(w)       == GoOnAfterFailure(w, "park")
AckInsteadOfPark(w) == GoOnAfterFailure(w, IF times[cur[w]] >= MaxAttempts THEN "ack" ELSE "drain")

\* pending_delivery_count: an entry no longer pending counts as 0.
DeliveryCount(m) == IF m \in pending THEN times[m] ELSE 0

\* After a failed retry: park the message once its deliveries are spent,
\* otherwise leave it pending and go on with the batch.
CountAttempts(w) ==
    /\ pc[w] = "count"
    /\ pc' = [pc EXCEPT ![w] =
                 IF DeliveryCount(cur[w]) >= MaxAttempts THEN "park" ELSE "drain"]
    /\ UNCHANGED <<redisVars, cur, reclaimed, batch, elapsed, started, stopping,
                   resultVars, faults>>

\* _dead_letter publishes first; the acknowledgement is a later call.
Park(w) ==
    /\ pc[w] = "park"
    /\ parked' = parked \cup {cur[w]}
    /\ pc' = [pc EXCEPT ![w] = "ack"]
    /\ UNCHANGED <<redisVars, cur, reclaimed, batch, elapsed, started, stopping,
                   done, attempts, faults>>

\* XACK removes the entry whoever it is assigned to by now.
Ack(w) ==
    /\ pc[w] = "ack"
    /\ pending' = pending \ {cur[w]}
    /\ IF reclaimed[w]
       THEN /\ pc' = [pc EXCEPT ![w] = "drain"]
            /\ UNCHANGED <<cur, reclaimed, batch, elapsed, started>>
       ELSE Release(w, "poll")
    /\ UNCHANGED <<published, cursor, owner, idle, times, stopping, resultVars, faults>>

-----------------------------------------------------------------------------
(* Faults and time.                                                         *)

\* A Redis call of the loop fails for good: the exception reaches
\* _consume_loop, which drops what it held and starts over.
RedisFails(w) ==
    /\ pc[w] \in {"top", "poll", "count", "park", "ack"}
    /\ faults < MaxFaults
    /\ faults' = faults + 1
    /\ Release(w, "top")
    /\ UNCHANGED <<redisVars, stopping, resultVars>>

\* Redis executed a command but its reply was lost (a socket timeout).  A read or
\* a claim counts as a delivery and _retry issues it again; an acknowledgement is
\* not retried: the exception sends the loop back to its top.
ReadReplyLost(w) ==
    /\ pc[w] = "poll" /\ cursor < published
    /\ ReadNext(w)
    /\ UNCHANGED <<published, workerVars, resultVars>>

ClaimReplyLost(w) ==
    /\ pc[w] = "top" /\ ~stopping[w] /\ Abandoned # {}
    /\ \E s \in Claims : IsClaim(s) /\ Assign(w, Elements(s))
    /\ UNCHANGED <<published, cursor, pending, workerVars, resultVars>>

AckReplyLost(w) ==
    /\ pc[w] = "ack"
    /\ pending' = pending \ {cur[w]}
    /\ Release(w, "top")
    /\ UNCHANGED <<published, cursor, owner, idle, times, stopping, resultVars>>

ReplyLost(w) ==
    /\ faults < MaxFaults
    /\ faults' = faults + 1
    /\ ReadReplyLost(w) \/ ClaimReplyLost(w) \/ AckReplyLost(w)

\* SIGKILL, an OOM kill, a lost node.
Crash(w) ==
    /\ pc[w] # "down"
    /\ faults < MaxFaults
    /\ faults' = faults + 1
    /\ Release(w, "down")
    /\ stopping' = [stopping EXCEPT ![w] = FALSE]
    /\ UNCHANGED <<redisVars, resultVars>>

\* SIGTERM only sets the event; the loop looks at it between messages.
Sigterm(w) ==
    /\ pc[w] # "down" /\ ~stopping[w]
    /\ faults < MaxFaults
    /\ faults' = faults + 1
    /\ stopping' = [stopping EXCEPT ![w] = TRUE]
    /\ UNCHANGED <<redisVars, pc, cur, reclaimed, batch, elapsed, started, resultVars>>

Exit(w) ==
    /\ pc[w] = "top" /\ stopping[w]
    /\ Release(w, "down")
    /\ UNCHANGED <<redisVars, stopping, resultVars, faults>>

Restart(w) ==
    /\ pc[w] = "down"
    /\ pc' = [pc EXCEPT ![w] = "top"]
    /\ stopping' = [stopping EXCEPT ![w] = FALSE]
    /\ UNCHANGED <<redisVars, cur, reclaimed, batch, elapsed, started, resultVars, faults>>

\* The entries a worker was handed and has not finished with.
Hand(w) == Elements(batch[w]) \cup
           IF pc[w] \in {"run", "count", "park", "ack"} THEN {cur[w]} ELSE {}

\* wait_for cancels every attempt at Timeout, so a worker that began k attempts
\* since its last delivery is done with them by k * Timeout, plus the lag of its
\* own steps.
OnTime(w) == Hand(w) # {} => elapsed[w] < started[w] * Timeout + Lag

Tick ==
    /\ \A w \in Workers : OnTime(w)
    /\ idle' = [m \in Msgs |-> IF m \in pending /\ idle[m] < MinIdle
                               THEN idle[m] + 1 ELSE idle[m]]
    /\ elapsed' = [w \in Workers |-> IF Hand(w) # {} THEN elapsed[w] + 1 ELSE elapsed[w]]
    /\ UNCHANGED <<published, cursor, pending, owner, times, pc, cur, reclaimed, batch,
                   started, stopping, resultVars, faults>>

-----------------------------------------------------------------------------
Step(w) ==
    \/ Reclaim(w) \/ TakeReclaimed(w) \/ EndDrain(w)
    \/ Deliver(w) \/ PollEmpty(w)
    \/ Succeed(w) \/ Fail(w) \/ CountAttempts(w) \/ Park(w) \/ Ack(w)
    \/ Exit(w) \/ Restart(w)

Next ==
    \/ Publish
    \/ Tick
    \/ \E w \in Workers : Step(w) \/ RedisFails(w) \/ ReplyLost(w) \/ Crash(w) \/ Sigterm(w)

Spec == Init /\ [][Next]_vars

\* A process that is up keeps running its loop, an orchestrator restarts one
\* that is down (restart: unless-stopped), and time passes.
Fairness == /\ \A w \in Workers : WF_vars(Step(w))
            /\ WF_vars(Tick)

FairSpec == Spec /\ Fairness

-----------------------------------------------------------------------------
(* What the queue promises.                                                 *)

\* Worker w has been handed m and the attempt at it has not ended.
Untried(w, m) == m \in Elements(batch[w]) \/ (pc[w] = "run" /\ cur[w] = m)

\* Every variable keeps its type.
TypeOK ==
    /\ published \in 0..NumMsgs /\ cursor \in 0..published
    /\ pending \in SUBSET (1..cursor)
    /\ owner \in [Msgs -> Workers \cup {Nobody}]
    /\ idle \in [Msgs -> 0..MinIdle]
    /\ times \in [Msgs -> Nat]
    /\ pc \in [Workers -> Phases]
    /\ cur \in [Workers -> 0..cursor]
    /\ reclaimed \in [Workers -> BOOLEAN]
    /\ batch \in [Workers -> Seq(1..cursor)]
    /\ elapsed \in [Workers -> Nat]
    /\ started \in [Workers -> Nat]
    /\ stopping \in [Workers -> BOOLEAN]
    /\ done \in SUBSET (1..cursor) /\ parked \in SUBSET (1..cursor)
    /\ attempts \in [Msgs -> Nat]
    /\ faults \in Nat

\* A delivered message is still pending unless some attempt at it succeeded or
\* it was written to the dead-letter stream: no crash, lost reply, failed call
\* or shutdown between two steps of the loop makes one disappear.
NothingLost == \A m \in 1..cursor : m \in pending \cup done \cup parked

\* A message is taken from the replica that runs it only when that one is at the tail of
\* a claim, with an attempt at another entry behind it: _reclaim_min_idle_ms outlasts
\* the first attempt after a delivery ("certainly not being processed by anyone"), so a
\* message just read is its reader's alone.  The later entries of a claim are not safe.
OnlyTailsAreTakenOver ==
    \A w \in Workers :
        pc[w] = "run" /\ owner[cur[w]] # w => reclaimed[w] /\ started[w] > 1

\* No two replicas run process() on one message at the same time, as _reclaim_min_idle_ms
\* has it, and none takes up an entry that was acknowledged.  Both are violated: the
\* later entries of a claim wait for the earlier ones beyond the threshold.
OneRunner ==
    \A v, w \in Workers :
        pc[v] = "run" /\ pc[w] = "run" /\ cur[v] = cur[w] => v = w
NoRunAfterSettled ==
    [][\A w \in Workers : pc[w] = "drain" /\ pc'[w] = "run" => cur'[w] \in pending]_vars

\* The deliveries for which a message was parked are attempts that came to an end, attempts
\* that replicas still have before them, and deliveries a fault used up: the dead-letter
\* limit counts Redis's deliveries, and no message is parked for more than befell it.
ParkedAfterAttempts ==
    \A m \in parked :
        attempts[m] + Cardinality({w \in Workers : Untried(w, m)}) + faults >= MaxAttempts

\* The queue seen from outside implements the abstract work queue: its settled
\* messages are those delivered and no longer pending.
Promise == INSTANCE AtLeastOnce WITH
    sent <- published, held <- [w \in Workers |-> Hand(w)],
    handled <- done, parked <- parked, settled <- (1..cursor) \ pending
ImplementsAtLeastOnce == Promise!Spec

\* Every published message is in the end acknowledged, handled or parked.
EventuallySettled ==
    \A m \in Msgs : (m <= published) ~> (m <= cursor /\ m \notin pending)
=============================================================================
