-------------------------- MODULE PipelinedQueue --------------------------
(***************************************************************************)
(* The consumer group read by workers that go on reading while earlier     *)
(* messages run: RedisStreamClient.consume_pipelined driven by TTSWorker's *)
(* _consume_loop, with a FIFO lock per key (a meeting, speaker and target  *)
(* language), the reclaim pass between reads (_recover_stale_messages) and *)
(* the parking of a late retry (_process_reclaimed_in_order).              *)
(*                                                                         *)
(* One unit of time is long against Redis calls and short against a dub:   *)
(* Tick waits until no worker has an immediate step to take.               *)
(***************************************************************************)
EXTENDS Naturals, Sequences, FiniteSets

CONSTANTS
    Workers,
    NumMsgs,        \* entries in the stream
    Keys, KeyOf,    \* the key of each message
    Position,       \* its place in the speaker's timeline (start_ms, chunk_index),
                    \* 0 when it carries no start_ms
    TurnLength,     \* positions of one turn are between two multiples of it
    MaxInFlight,    \* _MAX_IN_FLIGHT
    ReadCount,      \* count=8
    ReclaimCount,   \* count=10
    Timeout,        \* processing_timeout_seconds
    MinIdle,        \* _reclaim_min_idle_ms
    MaxAttempts,    \* max_delivery_attempts
    MaxFaults,      \* bound: crashes, shutdowns and failed Redis calls together
    Nobody

Msgs == 1..NumMsgs

ASSUME PipelineConstants ==
    /\ NumMsgs \in Nat /\ Nobody \notin Workers
    /\ KeyOf \in [Msgs -> Keys] /\ Position \in [Msgs -> Nat]
    /\ TurnLength \in Nat \ {0}
    /\ MaxInFlight \in Nat \ {0} /\ ReadCount \in Nat \ {0}
    /\ ReclaimCount \in Nat \ {0} /\ MaxAttempts \in Nat \ {0}
    /\ Timeout \in Nat \ {0} /\ MinIdle \in Nat /\ Timeout < MinIdle
    /\ MaxFaults \in Nat

VARIABLES
    cursor, pending, owner, idle,
    times,      \* delivery counts, up to MaxAttempts
    mode,       \* where the reading side stands
    stopping,   \* _shutdown_event
    inFlight,   \* _in_flight_ids: dispatched here and not finished
    line,       \* per key, the messages that hold or wait for its lock, in order
    busy,       \* keys whose lock holder has begun to process
    ran,        \* for how long
    acking,     \* handlers that returned, XACK still to come
    batch,      \* reclaimed entries the recovery pass has yet to look at
    retry,      \* the reclaimed message it is handling, 0 for none
    stage,      \* and how far that is
    spoken,     \* _dub_position_by_key: the furthest sentence begun per key
    done, parked, faults

redisVars   == <<cursor, pending, owner, idle, times>>
readerVars  == <<mode, stopping>>
lineVars    == <<line, busy, ran>>
recoverVars == <<batch, retry, stage>>
vars == <<redisVars, readerVars, inFlight, lineVars, acking, recoverVars, spoken,
          done, parked, faults>>

Modes  == {"down", "top", "read", "recover", "drain"}
Stages == {"next", "line", "late", "count", "park", "ack"}

Init ==
    /\ cursor = 0 /\ pending = {}
    /\ owner = [m \in Msgs |-> Nobody]
    /\ idle  = [m \in Msgs |-> 0]
    /\ times = [m \in Msgs |-> 0]
    /\ mode     = [w \in Workers |-> "top"]
    /\ stopping = [w \in Workers |-> FALSE]
    /\ inFlight = [w \in Workers |-> {}]
    /\ line     = [w \in Workers |-> [k \in Keys |-> <<>>]]
    /\ busy     = [w \in Workers |-> {}]
    /\ ran      = [w \in Workers |-> [k \in Keys |-> 0]]
    /\ acking   = [w \in Workers |-> {}]
    /\ batch    = [w \in Workers |-> <<>>]
    /\ retry    = [w \in Workers |-> 0]
    /\ stage    = [w \in Workers |-> "next"]
    /\ spoken   = [w \in Workers |-> [k \in Keys |-> 0]]
    /\ done = {} /\ parked = {} /\ faults = 0

-----------------------------------------------------------------------------
(* The reading side.                                                        *)

Assign(w, S) ==
    /\ owner' = [m \in Msgs |-> IF m \in S THEN w ELSE owner[m]]
    /\ idle'  = [m \in Msgs |-> IF m \in S THEN 0 ELSE idle[m]]
    /\ times' = [m \in Msgs |-> IF m \in S /\ times[m] < MaxAttempts
                                THEN times[m] + 1 ELSE times[m]]

Capacity(w) == MaxInFlight - Cardinality(inFlight[w])

\* The top of the while loop: leave it when told to stop, otherwise recover when
\* that is due, or go straight on to the read.
Leave(w) ==
    /\ mode[w] = "top" /\ stopping[w]
    /\ mode' = [mode EXCEPT ![w] = "drain"]
    /\ UNCHANGED <<redisVars, stopping, inFlight, lineVars, acking, recoverVars, spoken,
                   done, parked, faults>>

Abandoned == {m \in pending : idle[m] >= MinIdle}

\* A list of entries in stream order.
Lists(count) == UNION {[1..n -> Msgs] : n \in {k \in 0..NumMsgs : k <= count}}
Ascending(s) == \A i, j \in 1..Len(s) : i < j => s[i] < s[j]

\* What XAUTOCLAIM returns: the abandoned entries from the lowest id, at most
\* ReclaimCount of them, in stream order.
IsClaim(s) ==
    /\ \A i \in 1..Len(s) : s[i] \in Abandoned
    /\ Ascending(s)
    /\ \A m \in Abandoned : (\A i \in 1..Len(s) : s[i] # m) =>
           /\ Len(s) = ReclaimCount
           /\ \A i \in 1..Len(s) : s[i] < m

Recover(w) ==
    /\ mode[w] = "top" /\ ~stopping[w]
    /\ \E s \in Lists(ReclaimCount) :
          /\ IsClaim(s)
          /\ Assign(w, {s[i] : i \in 1..Len(s)})
          /\ batch' = [batch EXCEPT ![w] = s]
    /\ mode' = [mode EXCEPT ![w] = "recover"]
    /\ UNCHANGED <<cursor, pending, stopping, inFlight, lineVars, acking, retry, stage,
                   spoken, done, parked, faults>>

SkipRecovery(w) ==
    /\ mode[w] = "top" /\ ~stopping[w]
    /\ mode' = [mode EXCEPT ![w] = "read"]
    /\ UNCHANGED <<redisVars, stopping, inFlight, lineVars, acking, recoverVars, spoken,
                   done, parked, faults>>

\* The entries of S join the lines of their keys in stream order.
Join(w, S) ==
    \E new \in [Keys -> Lists(ReadCount)] :
       /\ \A k \in Keys : /\ Ascending(new[k])
                          /\ {new[k][i] : i \in 1..Len(new[k])} = {m \in S : KeyOf[m] = k}
       /\ line' = [line EXCEPT ![w] = [k \in Keys |-> @[k] \o new[k]]]

\* A read takes what is there, up to the count and the room left; every entry is
\* dispatched, even when the worker was told to stop while it waited.
Read(w) ==
    /\ mode[w] = "read"
    /\ \E n \in 1..ReadCount :
          /\ n <= Capacity(w) /\ cursor + n <= NumMsgs
          /\ cursor' = cursor + n
          /\ pending' = pending \cup (cursor + 1)..(cursor + n)
          /\ Assign(w, (cursor + 1)..(cursor + n))
          /\ inFlight' = [inFlight EXCEPT ![w] = @ \cup (cursor + 1)..(cursor + n)]
          /\ Join(w, (cursor + 1)..(cursor + n))
    /\ mode' = [mode EXCEPT ![w] = "top"]
    /\ UNCHANGED <<stopping, busy, ran, acking, recoverVars, spoken, done, parked, faults>>

\* Nothing to read within the block time, or no room: round again.
NoRead(w) ==
    /\ mode[w] = "read"
    /\ mode' = [mode EXCEPT ![w] = "top"]
    /\ UNCHANGED <<redisVars, stopping, inFlight, lineVars, acking, recoverVars, spoken,
                   done, parked, faults>>

\* The finally: wait for what is in flight, then end or start the loop anew.
Drained(w) ==
    /\ mode[w] = "drain" /\ inFlight[w] = {}
    /\ mode' = [mode EXCEPT ![w] = IF stopping[w] THEN "down" ELSE "top"]
    /\ UNCHANGED <<redisVars, stopping, inFlight, lineVars, acking, recoverVars, spoken,
                   done, parked, faults>>

-----------------------------------------------------------------------------
(* The recovery pass, awaited by the reading side.                          *)

\* Mutant: no look at the messages this process already has in flight.
NextRetryBlind(w) ==
    /\ mode[w] = "recover" /\ stage[w] = "next" /\ batch[w] # <<>>
    /\ batch' = [batch EXCEPT ![w] = Tail(@)]
    /\ LET m == Head(batch[w]) IN
          /\ retry' = [retry EXCEPT ![w] = m]
          /\ stage' = [stage EXCEPT ![w] = "line"]
          /\ line' = [line EXCEPT ![w][KeyOf[m]] = Append(@, m)]
    /\ UNCHANGED <<redisVars, readerVars, inFlight, busy, ran, acking, spoken,
                   done, parked, faults>>

\* A reclaimed entry this process has in flight is passed over; any other joins
\* its key's line like a new message.
NextRetry(w) ==
    /\ mode[w] = "recover" /\ stage[w] = "next" /\ batch[w] # <<>>
    /\ batch' = [batch EXCEPT ![w] = Tail(@)]
    /\ LET m == Head(batch[w]) IN
          IF m \in inFlight[w]
          THEN UNCHANGED <<retry, stage, line>>
          ELSE /\ retry' = [retry EXCEPT ![w] = m]
               /\ stage' = [stage EXCEPT ![w] = "line"]
               /\ line' = [line EXCEPT ![w][KeyOf[m]] = Append(@, m)]
    /\ UNCHANGED <<redisVars, readerVars, inFlight, busy, ran, acking, spoken,
                   done, parked, faults>>

EndRecovery(w) ==
    /\ mode[w] = "recover" /\ stage[w] = "next" /\ batch[w] = <<>>
    /\ mode' = [mode EXCEPT ![w] = "read"]
    /\ UNCHANGED <<redisVars, stopping, inFlight, lineVars, acking, recoverVars, spoken,
                   done, parked, faults>>

\* After a failed retry: park it once its deliveries are spent, else leave it.
CountAttempts(w) ==
    /\ stage[w] = "count"
    /\ LET spent == retry[w] \in pending /\ times[retry[w]] >= MaxAttempts IN
          /\ stage' = [stage EXCEPT ![w] = IF spent THEN "park" ELSE "next"]
          /\ retry' = [retry EXCEPT ![w] = IF spent THEN @ ELSE 0]
    /\ UNCHANGED <<redisVars, readerVars, inFlight, lineVars, acking, batch, spoken,
                   done, parked, faults>>

Park(w) ==
    /\ stage[w] = "park"
    /\ parked' = parked \cup {retry[w]}
    /\ stage' = [stage EXCEPT ![w] = "ack"]
    /\ UNCHANGED <<redisVars, readerVars, inFlight, lineVars, acking, batch, retry, spoken,
                   done, faults>>

AckRetry(w) ==
    /\ stage[w] = "ack"
    /\ pending' = pending \ {retry[w]}
    /\ retry' = [retry EXCEPT ![w] = 0]
    /\ stage' = [stage EXCEPT ![w] = "next"]
    /\ UNCHANGED <<cursor, owner, idle, times, readerVars, inFlight, lineVars, acking, batch,
                   spoken, done, parked, faults>>

-----------------------------------------------------------------------------
(* The handlers, one at a time per key.                                     *)

Holder(w, k) == Head(line[w][k])

\* Mutant: only the turn is compared, which all the sentences of a turn share.
SupersededByTurn(w, m) ==
    Position[m] > 0 /\ spoken[w][KeyOf[m]] \div TurnLength > Position[m] \div TurnLength

\* _newer_dub_already_started
Superseded(w, m) == Position[m] > 0 /\ spoken[w][KeyOf[m]] > Position[m]

\* The lock's next holder begins.  A retry the speaker has been dubbed past is
\* not spoken any more.
Begin(w, k) ==
    /\ line[w][k] # <<>> /\ k \notin busy[w]
    /\ busy' = [busy EXCEPT ![w] = @ \cup {k}]
    /\ stage' = IF Holder(w, k) = retry[w] /\ Superseded(w, retry[w])
                THEN [stage EXCEPT ![w] = "late"] ELSE stage
    /\ UNCHANGED <<redisVars, readerVars, inFlight, line, ran, acking, batch, retry, spoken,
                   done, parked, faults>>

LetGo(w, k) ==
    /\ line' = [line EXCEPT ![w][k] = Tail(@)]
    /\ busy' = [busy EXCEPT ![w] = @ \ {k}]
    /\ ran' = [ran EXCEPT ![w][k] = 0]

Late(w, k) == stage[w] = "late" /\ Holder(w, k) = retry[w]

\* The sentence is dubbed (it may also be skipped): remember the furthest one.
Speak(w, k) ==
    /\ k \in busy[w] /\ ~Late(w, k)
    /\ Position[Holder(w, k)] > spoken[w][k]
    /\ spoken' = [spoken EXCEPT ![w][k] = Position[Holder(w, k)]]
    /\ UNCHANGED <<redisVars, readerVars, inFlight, lineVars, acking, recoverVars, done, parked,
                   faults>>

\* The handler returns: a read message is acknowledged by its own task, a
\* reclaimed one by the recovery pass.
Succeed(w, k) ==
    /\ k \in busy[w] /\ ~Late(w, k)
    /\ LetGo(w, k)
    /\ LET m == Holder(w, k) IN
          /\ done' = done \cup {m}
          /\ IF m = retry[w]
             THEN /\ stage' = [stage EXCEPT ![w] = "ack"]
                  /\ UNCHANGED acking
             ELSE /\ acking' = [acking EXCEPT ![w] = @ \cup {m}]
                  /\ UNCHANGED stage
    /\ UNCHANGED <<redisVars, readerVars, inFlight, batch, retry, spoken, parked, faults>>

\* A late retry is parked as superseded and then acknowledged.
ParkLate(w, k) ==
    /\ k \in busy[w] /\ Late(w, k)
    /\ LetGo(w, k)
    /\ parked' = parked \cup {retry[w]}
    /\ stage' = [stage EXCEPT ![w] = "ack"]
    /\ UNCHANGED <<redisVars, readerVars, inFlight, acking, batch, retry, spoken, done, faults>>

\* Mutant: a failed message is never taken off the in-flight ids.
FailStillInFlight(w, k) ==
    /\ k \in busy[w]
    /\ LetGo(w, k)
    /\ stage' = IF Holder(w, k) = retry[w] THEN [stage EXCEPT ![w] = "count"] ELSE stage
    /\ UNCHANGED <<redisVars, readerVars, inFlight, acking, batch, retry, spoken, done, parked,
                   faults>>

\* It raises, or is cancelled at the timeout: the message stays pending.
Fail(w, k) ==
    /\ k \in busy[w]
    /\ LetGo(w, k)
    /\ LET m == Holder(w, k) IN
          IF m = retry[w]
          THEN /\ stage' = [stage EXCEPT ![w] = "count"]
               /\ UNCHANGED inFlight
          ELSE /\ inFlight' = [inFlight EXCEPT ![w] = @ \ {m}]
               /\ UNCHANGED stage
    /\ UNCHANGED <<redisVars, readerVars, acking, batch, retry, spoken, done, parked, faults>>

\* XACK, and the task's done callback.
Ack(w, m) ==
    /\ m \in acking[w]
    /\ pending' = pending \ {m}
    /\ acking' = [acking EXCEPT ![w] = @ \ {m}]
    /\ inFlight' = [inFlight EXCEPT ![w] = @ \ {m}]
    /\ UNCHANGED <<cursor, owner, idle, times, readerVars, lineVars, recoverVars, spoken,
                   done, parked, faults>>

-----------------------------------------------------------------------------
(* Faults and time.                                                         *)

Fault == faults < MaxFaults /\ faults' = faults + 1

\* XACK fails: logged, and the message left pending.
AckFails(w, m) ==
    /\ Fault
    /\ m \in acking[w]
    /\ acking' = [acking EXCEPT ![w] = @ \ {m}]
    /\ inFlight' = [inFlight EXCEPT ![w] = @ \ {m}]
    /\ UNCHANGED <<redisVars, readerVars, lineVars, recoverVars, spoken, done, parked>>

\* A call of the reading side fails: it drains and the outer loop starts over.
ReaderFails(w) ==
    /\ Fault
    /\ \/ mode[w] \in {"top", "read"}
       \/ mode[w] = "recover" /\ stage[w] \in {"count", "park", "ack"}
    /\ mode' = [mode EXCEPT ![w] = "drain"]
    /\ batch' = [batch EXCEPT ![w] = <<>>]
    /\ retry' = [retry EXCEPT ![w] = 0]
    /\ stage' = [stage EXCEPT ![w] = "next"]
    /\ UNCHANGED <<redisVars, stopping, inFlight, lineVars, acking, spoken, done, parked>>

\* Redis acted and the reply was lost (a socket timeout).  _retry issues a read or a
\* claim again: the entries Redis had handed out are pending here, and nothing was
\* dispatched for them.
ReadReplyLost(w) ==
    /\ mode[w] = "read"
    /\ \E n \in 1..ReadCount :
          /\ n <= Capacity(w) /\ cursor + n <= NumMsgs
          /\ cursor' = cursor + n
          /\ pending' = pending \cup (cursor + 1)..(cursor + n)
          /\ Assign(w, (cursor + 1)..(cursor + n))
    /\ UNCHANGED <<mode, batch, retry, stage>>

ClaimReplyLost(w) ==
    /\ mode[w] = "top" /\ ~stopping[w]
    /\ \E s \in Lists(ReclaimCount) :
          s # <<>> /\ IsClaim(s) /\ Assign(w, {s[i] : i \in 1..Len(s)})
    /\ UNCHANGED <<cursor, pending, mode, batch, retry, stage>>

\* The recovery pass does not repeat its XACK: the reading side drains.
AckReplyLost(w) ==
    /\ stage[w] = "ack"
    /\ pending' = pending \ {retry[w]}
    /\ mode' = [mode EXCEPT ![w] = "drain"]
    /\ batch' = [batch EXCEPT ![w] = <<>>]
    /\ retry' = [retry EXCEPT ![w] = 0]
    /\ stage' = [stage EXCEPT ![w] = "next"]
    /\ UNCHANGED <<cursor, owner, idle, times>>

ReplyLost(w) ==
    /\ Fault
    /\ ReadReplyLost(w) \/ ClaimReplyLost(w) \/ AckReplyLost(w)
    /\ UNCHANGED <<stopping, inFlight, lineVars, acking, spoken, done, parked>>

\* SIGKILL, an OOM kill, a lost node.
Crash(w) ==
    /\ Fault
    /\ mode[w] # "down"
    /\ mode' = [mode EXCEPT ![w] = "down"]
    /\ stopping' = [stopping EXCEPT ![w] = FALSE]
    /\ inFlight' = [inFlight EXCEPT ![w] = {}]
    /\ acking' = [acking EXCEPT ![w] = {}]
    /\ line' = [line EXCEPT ![w] = [k \in Keys |-> <<>>]]
    /\ busy' = [busy EXCEPT ![w] = {}]
    /\ ran' = [ran EXCEPT ![w] = [k \in Keys |-> 0]]
    /\ batch' = [batch EXCEPT ![w] = <<>>]
    /\ retry' = [retry EXCEPT ![w] = 0]
    /\ stage' = [stage EXCEPT ![w] = "next"]
    /\ UNCHANGED <<redisVars, spoken, done, parked>>

Sigterm(w) ==
    /\ Fault
    /\ mode[w] # "down" /\ ~stopping[w]
    /\ stopping' = [stopping EXCEPT ![w] = TRUE]
    /\ UNCHANGED <<redisVars, mode, inFlight, lineVars, acking, recoverVars, spoken, done, parked>>

\* A new process remembers nothing it spoke.
Restart(w) ==
    /\ mode[w] = "down"
    /\ mode' = [mode EXCEPT ![w] = "top"]
    /\ stopping' = [stopping EXCEPT ![w] = FALSE]
    /\ spoken' = [spoken EXCEPT ![w] = [k \in Keys |-> 0]]
    /\ UNCHANGED <<redisVars, inFlight, lineVars, acking, recoverVars, done, parked, faults>>

\* A step that takes no time is due.
Hurried(w) ==
    \/ acking[w] # {}
    \/ \E k \in Keys : line[w][k] # <<>> /\ (k \notin busy[w] \/ Late(w, k))
    \/ mode[w] = "recover" /\ stage[w] # "line"
    \/ mode[w] = "drain" /\ inFlight[w] = {}

Tick ==
    /\ \A w \in Workers : ~Hurried(w) /\ \A k \in busy[w] : ran[w][k] < Timeout
    /\ idle' = [m \in Msgs |-> IF m \in pending /\ idle[m] < MinIdle THEN idle[m] + 1 ELSE idle[m]]
    /\ ran' = [w \in Workers |-> [k \in Keys |-> IF k \in busy[w] THEN ran[w][k] + 1
                                                 ELSE ran[w][k]]]
    /\ UNCHANGED <<cursor, pending, owner, times, readerVars, inFlight, line, busy, acking,
                   recoverVars, spoken, done, parked, faults>>

-----------------------------------------------------------------------------
Reader(w) ==
    \/ Leave(w) \/ SkipRecovery(w) \/ Read(w) \/ NoRead(w) \/ Drained(w)
    \/ NextRetry(w) \/ EndRecovery(w) \/ CountAttempts(w) \/ Park(w) \/ AckRetry(w)
    \/ Restart(w)

Handler(w, k) == Begin(w, k) \/ Speak(w, k) \/ Succeed(w, k) \/ ParkLate(w, k) \/ Fail(w, k)

Next ==
    \/ Tick
    \/ \E w \in Workers :
          \/ Reader(w) \/ Recover(w) \/ ReaderFails(w) \/ ReplyLost(w)
          \/ Crash(w) \/ Sigterm(w)
          \/ \E k \in Keys : Handler(w, k)
          \/ \E m \in Msgs : Ack(w, m) \/ AckFails(w, m)

Spec == Init /\ [][Next]_vars

\* The event loop runs every task that can run, the clock makes the recovery pass
\* due again and again and reads find what is there.  Two passes are at least
\* between_reads_interval_s apart, so time passes between them (SF of Tick).
Fairness ==
    /\ SF_vars(Tick)
    /\ \A w \in Workers :
          /\ WF_vars(Reader(w)) /\ SF_vars(Recover(w)) /\ SF_vars(Read(w))
          /\ \A k \in Keys : WF_vars(Handler(w, k))
          /\ \A m \in Msgs : WF_vars(Ack(w, m))

FairSpec == Spec /\ Fairness

-----------------------------------------------------------------------------
\* Every variable keeps its type; the reading side and the handlers agree on what
\* is in flight.
TypeOK ==
    /\ cursor \in 0..NumMsgs /\ pending \subseteq 1..cursor
    /\ owner \in [Msgs -> Workers \cup {Nobody}]
    /\ idle \in [Msgs -> 0..MinIdle] /\ times \in [Msgs -> 0..MaxAttempts]
    /\ mode \in [Workers -> Modes] /\ stopping \in [Workers -> BOOLEAN]
    /\ inFlight \in [Workers -> SUBSET (1..cursor)]
    /\ \A w \in Workers : Cardinality(inFlight[w]) <= MaxInFlight
    /\ \A w \in Workers, k \in Keys : \A i \in 1..Len(line[w][k]) : line[w][k][i] \in 1..cursor
    /\ busy \in [Workers -> SUBSET Keys] /\ ran \in [Workers -> [Keys -> 0..Timeout]]
    /\ \A w \in Workers : acking[w] \subseteq inFlight[w]
    /\ retry \in [Workers -> 0..cursor] /\ stage \in [Workers -> Stages]
    /\ done \subseteq 1..cursor /\ parked \subseteq 1..cursor

\* A delivered message is pending, handled or parked, whatever runs beside it.
NothingLost == \A m \in 1..cursor : m \in pending \cup done \cup parked

\* A key's sentences come down the stream in the order of their positions.
InStreamOrder ==
    \A m, n \in Msgs :
        KeyOf[m] = KeyOf[n] /\ m < n /\ Position[n] > 0 => Position[m] <= Position[n]

\* "guaranteed in-order playback": whatever failed, came again through the recovery
\* pass or joined the key's line meanwhile, no sentence is being dubbed, read or
\* reclaimed, after a later one of its key was begun in this process.
SaidInOrder ==
    \A w \in Workers : \A k \in busy[w] :
        LET m == Holder(w, k) IN
            Position[m] = 0 \/ Late(w, k) \/ spoken[w][k] <= Position[m]

\* While a process is queueing or running a message, its own reclaim pass does not
\* settle it under the handler's feet: only a process that reclaimed it may.
OwnWorkStaysPending ==
    [][\A w \in Workers : \A m \in inFlight[w] \cap (pending \ pending') :
          m \in acking[w] \/ \E v \in Workers \ {w} : retry[v] = m]_vars

\* A message that was acknowledged is not run again.
NoRunAfterSettled ==
    [][\A w \in Workers, k \in Keys : k \in busy'[w] \ busy[w] => Holder(w, k) \in pending]_vars

\* Every message is in the end acknowledged.
EventuallySettled == <>[](cursor = NumMsgs /\ pending = {})
=============================================================================
