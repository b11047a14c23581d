------------------------ MODULE RedisStreamProofs ------------------------
(***************************************************************************)
(* The two uses of a Redis stream.  For any number of replicas, messages   *)
(* and faults of WorkerQueue: whatever the timing, the types hold, nothing *)
(* is lost, the queue implements AtLeastOnce, and what is parked had the   *)
(* deliveries; when the reclaim threshold outlasts one attempt (MarginOK), *)
(* an entry changes hands under its runner only at the tail of a claim.    *)
(*   What holds of the bounding of the stream it reads (StreamTrim, an     *)
(* instance, from the line below that declares its parameters) follows: a  *)
(* trim removes nothing that a group judged alive still needs, and dead    *)
(* groups hold nothing.                                                    *)
(***************************************************************************)
EXTENDS WorkerQueue, SequenceTheorems, FiniteSetTheorems, TLAPS

Busy == {"run", "count", "park", "ack"}

\* What a worker has in hand is a delivered message, and by the time it is
\* acknowledged it was handled or parked.
InHand ==
    \A w \in Workers :
        /\ pc[w] \in Busy => cur[w] \in 1..cursor
        /\ pc[w] = "ack" => cur[w] \in done \cup parked

SafeInv == TypeOK /\ InHand /\ NothingLost

\* The part of TypeOK that speaks of what a worker holds.
WorkersTyped ==
    /\ pc \in [Workers -> Phases]
    /\ cur \in [Workers -> 0..cursor]
    /\ reclaimed \in [Workers -> BOOLEAN]
    /\ batch \in [Workers -> Seq(1..cursor)]
    /\ elapsed \in [Workers -> Nat]
    /\ started \in [Workers -> Nat]

-----------------------------------------------------------------------------
LEMMA MinIdleType == MinIdle \in Nat
  BY QueueConstants, SMT DEF MinIdle

\* Releasing a worker keeps the types.
LEMMA ReleaseType ==
    ASSUME TypeOK, NEW w \in Workers, NEW p \in Phases, Release(w, p)
    PROVE  /\ pc' \in [Workers -> Phases]
           /\ cur' \in [Workers -> 0..cursor]
           /\ reclaimed' \in [Workers -> BOOLEAN]
           /\ batch' \in [Workers -> Seq(1..cursor)]
           /\ elapsed' \in [Workers -> Nat]
           /\ started' \in [Workers -> Nat]
           /\ \A v \in Workers \ {w} :
                 pc'[v] = pc[v] /\ cur'[v] = cur[v] /\ batch'[v] = batch[v]
           /\ pc'[w] = p
  BY SMT DEF TypeOK, Release

\* So does a delivery.
LEMMA AssignType ==
    ASSUME TypeOK, NEW w \in Workers, NEW S \in SUBSET Msgs, Assign(w, S)
    PROVE  /\ owner' \in [Msgs -> Workers \cup {Nobody}]
           /\ idle' \in [Msgs -> 0..MinIdle]
           /\ times' \in [Msgs -> Nat]
  BY MinIdleType, SMT DEF TypeOK, Assign

\* A claim lists delivered messages that look abandoned.
LEMMA ClaimElements ==
    ASSUME TypeOK, NEW s \in Claims, IsClaim(s)
    PROVE  /\ s \in Seq(1..cursor)
           /\ Elements(s) \in SUBSET Abandoned
           /\ Elements(s) \in SUBSET Msgs
           /\ Len(s) <= ReclaimCount
  <1>1. PICK n \in 0..NumMsgs : s \in [1..n -> Msgs]
    BY DEF Claims
  <1>2. s \in Seq(Msgs) /\ Len(s) = n
    BY <1>1, QueueConstants, SMT
  <1>3. \A i \in 1..Len(s) : s[i] \in Abandoned
    BY DEF IsClaim
  <1>4. Abandoned \subseteq 1..cursor /\ Abandoned \subseteq Msgs
    <2>1. pending \subseteq 1..cursor /\ cursor \in 0..NumMsgs
      BY QueueConstants, SMT DEF TypeOK
    <2>2. Abandoned \subseteq pending
      BY Zenon DEF Abandoned
    <2>3. 1..cursor \subseteq Msgs
      BY <2>1, QueueConstants, SMT DEF Msgs
    <2>4. QED
      BY <2>1, <2>2, <2>3, Zenon
  <1>5. s \in Seq(1..cursor)
    <2>1. \A i \in 1..n : s[i] \in 1..cursor
      BY <1>2, <1>3, <1>4, Zenon
    <2>2. s \in [1..n -> 1..cursor]
      BY <1>1, <2>1, Zenon
    <2>3. n \in Nat
      BY QueueConstants, SMT
    <2>4. QED
      BY <2>2, <2>3, SeqDef, Zenon
  <1>6. QED
    BY <1>2, <1>3, <1>4, <1>5, SMT DEF Elements, IsClaim

-----------------------------------------------------------------------------
LEMMA SafeInit == Init => SafeInv
  <1> SUFFICES ASSUME Init PROVE SafeInv
    OBVIOUS
  <1>1. TypeOK
    BY MinIdleType, QueueConstants, SMT DEF Init, TypeOK, Phases
  <1>2. InHand /\ NothingLost
    BY SMT DEF Init, InHand, NothingLost, Busy
  <1>3. QED
    BY <1>1, <1>2 DEF SafeInv

\* Each action keeps the invariant.
LEMMA PublishSafe == ASSUME SafeInv, Publish PROVE SafeInv'
  <1> USE DEF SafeInv
  <1>1. TypeOK'
    BY QueueConstants, SMT DEF Publish, TypeOK, redisVars, workerVars, resultVars
  <1>2. InHand'
    BY SMT DEF Publish, InHand, TypeOK, Busy, redisVars, workerVars, resultVars
  <1>3. NothingLost'
    BY SMT DEF Publish, NothingLost, InHand, TypeOK, Busy, redisVars, workerVars, resultVars
  <1>4. QED
    BY <1>1, <1>2, <1>3

LEMMA TickSafe == ASSUME SafeInv, Tick PROVE SafeInv'
  <1> USE DEF SafeInv
  <1>1. TypeOK'
    BY MinIdleType, SMT DEF Tick, TypeOK, redisVars, workerVars, resultVars
  <1>2. InHand'
    BY SMT DEF Tick, InHand, TypeOK, Busy, redisVars, workerVars, resultVars
  <1>3. NothingLost'
    BY SMT DEF Tick, NothingLost, InHand, TypeOK, Busy, redisVars, workerVars, resultVars
  <1>4. QED
    BY <1>1, <1>2, <1>3

LEMMA TakeReclaimedSafe == ASSUME SafeInv, NEW w \in Workers, TakeReclaimed(w) PROVE SafeInv'
  <1> USE DEF SafeInv
  <1>1. TypeOK'
    BY SMT DEF TakeReclaimed, TypeOK, redisVars, workerVars, resultVars, Phases
  <1>2. InHand'
    BY SMT DEF TakeReclaimed, InHand, TypeOK, Busy, redisVars, workerVars, resultVars
  <1>3. NothingLost'
    BY SMT DEF TakeReclaimed, NothingLost, InHand, TypeOK, Busy, redisVars, workerVars, resultVars
  <1>4. QED
    BY <1>1, <1>2, <1>3

LEMMA EndDrainSafe == ASSUME SafeInv, NEW w \in Workers, EndDrain(w) PROVE SafeInv'
  <1> USE DEF SafeInv
  <1>1. TypeOK'
    BY SMT DEF EndDrain, TypeOK, redisVars, workerVars, resultVars, Release, Phases
  <1>2. InHand'
    BY SMT DEF EndDrain, InHand, TypeOK, Busy, redisVars, workerVars, resultVars, Release
  <1>3. NothingLost'
    BY SMT DEF EndDrain, NothingLost, InHand, TypeOK, Busy, redisVars, workerVars, resultVars
  <1>4. QED
    BY <1>1, <1>2, <1>3

LEMMA PollEmptySafe == ASSUME SafeInv, NEW w \in Workers, PollEmpty(w) PROVE SafeInv'
  <1> USE DEF SafeInv
  <1>1. TypeOK'
    BY SMT DEF PollEmpty, TypeOK, redisVars, workerVars, resultVars, Release, Phases
  <1>2. InHand'
    BY SMT DEF PollEmpty, InHand, TypeOK, Busy, redisVars, workerVars, resultVars, Release
  <1>3. NothingLost'
    BY SMT DEF PollEmpty, NothingLost, InHand, TypeOK, Busy, redisVars, workerVars, resultVars
  <1>4. QED
    BY <1>1, <1>2, <1>3

LEMMA ExitSafe == ASSUME SafeInv, NEW w \in Workers, Exit(w) PROVE SafeInv'
  <1> USE DEF SafeInv
  <1>1. TypeOK'
    BY SMT DEF Exit, TypeOK, redisVars, workerVars, resultVars, Release, Phases
  <1>2. InHand'
    BY SMT DEF Exit, InHand, TypeOK, Busy, redisVars, workerVars, resultVars, Release
  <1>3. NothingLost'
    BY SMT DEF Exit, NothingLost, InHand, TypeOK, Busy, redisVars, workerVars, resultVars
  <1>4. QED
    BY <1>1, <1>2, <1>3

LEMMA RestartSafe == ASSUME SafeInv, NEW w \in Workers, Restart(w) PROVE SafeInv'
  <1> USE DEF SafeInv
  <1>1. TypeOK'
    <2>1. pc' \in [Workers -> Phases]
      BY "top" \in Phases, Zenon DEF Restart, TypeOK, Phases
    <2>2. QED
      BY <2>1, SMT DEF Restart, TypeOK, redisVars, workerVars, resultVars
  <1>2. InHand'
    BY SMT DEF Restart, InHand, TypeOK, Busy, redisVars, workerVars, resultVars
  <1>3. NothingLost'
    BY SMT DEF Restart, NothingLost, InHand, TypeOK, Busy, redisVars, workerVars, resultVars
  <1>4. QED
    BY <1>1, <1>2, <1>3

LEMMA SucceedSafe == ASSUME SafeInv, NEW w \in Workers, Succeed(w) PROVE SafeInv'
  <1> USE DEF SafeInv
  <1>1. TypeOK'
    <2>1. cur[w] \in 1..cursor
      BY DEF Succeed, InHand, Busy
    <2>2. "ack" \in Phases
      BY DEF Phases
    <2>3. done' \in SUBSET (1..cursor)
      BY <2>1, Zenon DEF Succeed, TypeOK
    <2>4. pc' \in [Workers -> Phases]
      BY <2>2, SMT DEF Succeed, TypeOK
    <2>5. attempts' \in [Msgs -> Nat]
      <3>1. attempts \in [Msgs -> Nat] /\ attempts' = [attempts EXCEPT ![cur[w]] = @ + 1]
        BY DEF Succeed, TypeOK
      <3>2. cur[w] \in Msgs
        <4>1. cursor \in 0..published /\ published \in 0..NumMsgs
          BY DEF TypeOK
        <4>2. QED
          BY <2>1, <4>1, QueueConstants, SMT DEF Msgs
      <3>3. attempts[cur[w]] + 1 \in Nat
        BY <3>1, <3>2, SMT
      <3>4. QED
        BY <3>1, <3>3, Zenon
    <2>6. QED
      BY <2>3, <2>4, <2>5, Zenon DEF Succeed, TypeOK, redisVars, workerVars, resultVars
  <1>2. InHand'
    BY SMT DEF Succeed, InHand, TypeOK, Busy, redisVars, workerVars, resultVars
  <1>3. NothingLost'
    BY SMT DEF Succeed, NothingLost, InHand, TypeOK, Busy, redisVars, workerVars, resultVars
  <1>4. QED
    BY <1>1, <1>2, <1>3

LEMMA CountAttemptsSafe == ASSUME SafeInv, NEW w \in Workers, CountAttempts(w) PROVE SafeInv'
  <1> USE DEF SafeInv
  <1>1. TypeOK'
    BY SMT DEF CountAttempts, TypeOK, redisVars, workerVars, resultVars, Phases
  <1>2. InHand'
    BY SMT DEF CountAttempts, InHand, TypeOK, Busy, redisVars, workerVars, resultVars
  <1>3. NothingLost'
    BY SMT DEF CountAttempts, NothingLost, InHand, TypeOK, Busy, redisVars, workerVars, resultVars
  <1>4. QED
    BY <1>1, <1>2, <1>3

LEMMA ParkSafe == ASSUME SafeInv, NEW w \in Workers, Park(w) PROVE SafeInv'
  <1> USE DEF SafeInv
  <1>1. TypeOK'
    <2>1. cur[w] \in 1..cursor
      BY DEF Park, InHand, Busy
    <2>2. "ack" \in Phases
      BY DEF Phases
    <2>3. parked' \in SUBSET (1..cursor)
      BY <2>1, Zenon DEF Park, TypeOK
    <2>4. pc' \in [Workers -> Phases]
      BY <2>2, SMT DEF Park, TypeOK
    <2>5. QED
      BY <2>3, <2>4, Zenon DEF Park, TypeOK, redisVars, workerVars, resultVars
  <1>2. InHand'
    BY SMT DEF Park, InHand, TypeOK, Busy, redisVars, workerVars, resultVars
  <1>3. NothingLost'
    BY SMT DEF Park, NothingLost, InHand, TypeOK, Busy, redisVars, workerVars, resultVars
  <1>4. QED
    BY <1>1, <1>2, <1>3

LEMMA FailSafe == ASSUME SafeInv, NEW w \in Workers, Fail(w) PROVE SafeInv'
  <1> USE DEF SafeInv
  <1>1. TypeOK'
    <2>1. "count" \in Phases /\ "top" \in Phases
      BY DEF Phases
    <2>2. attempts' \in [Msgs -> Nat]
      <3>1. attempts \in [Msgs -> Nat] /\ attempts' = [attempts EXCEPT ![cur[w]] = @ + 1]
        BY DEF Fail, TypeOK
      <3>2. cur[w] \in 1..cursor /\ cursor \in 0..published /\ published \in 0..NumMsgs
        BY DEF Fail, InHand, Busy, TypeOK
      <3>3. cur[w] \in Msgs
        BY <3>2, QueueConstants, SMT DEF Msgs
      <3>4. attempts[cur[w]] + 1 \in Nat
        BY <3>1, <3>3, SMT
      <3>5. QED
        BY <3>1, <3>4, Zenon
    <2>3. WorkersTyped'
      <3>1. CASE reclaimed[w]
        <4>1. pc' \in [Workers -> Phases]
          <5>1. pc \in [Workers -> Phases] /\ pc' = [pc EXCEPT ![w] = "count"]
            BY <3>1 DEF Fail, TypeOK
          <5>2. QED
            BY <2>1, <5>1, SMT
        <4>2. QED
          BY <3>1, <4>1, Zenon DEF Fail, TypeOK, WorkersTyped, redisVars, workerVars, resultVars
      <3>2. CASE ~reclaimed[w]
        <4>1. Release(w, "top")
          BY <3>2 DEF Fail
        <4>2. cursor' = cursor
          BY DEF Fail, redisVars
        <4>3. QED
          BY <2>1, <4>1, <4>2, ReleaseType, Zenon DEF WorkersTyped
      <3>3. QED
        BY <3>1, <3>2
    <2>4. QED
      BY <2>2, <2>3, Zenon DEF Fail, TypeOK, WorkersTyped, redisVars, workerVars, resultVars
  <1>2. InHand'
    BY SMT DEF Fail, InHand, TypeOK, Busy, redisVars, workerVars, resultVars, Release
  <1>3. NothingLost'
    BY SMT DEF Fail, NothingLost, InHand, TypeOK, Busy, redisVars, workerVars, resultVars
  <1>4. QED
    BY <1>1, <1>2, <1>3

LEMMA AckSafe == ASSUME SafeInv, NEW w \in Workers, Ack(w) PROVE SafeInv'
  <1> USE DEF SafeInv
  <1>1. TypeOK'
    <2>1. "drain" \in Phases /\ "poll" \in Phases
      BY DEF Phases
    <2>2. pending' \in SUBSET (1..cursor)
      BY Zenon DEF Ack, TypeOK
    <2>3. WorkersTyped'
      <3>1. CASE reclaimed[w]
        <4>1. pc' \in [Workers -> Phases]
          <5>1. pc \in [Workers -> Phases] /\ pc' = [pc EXCEPT ![w] = "drain"]
            BY <3>1 DEF Ack, TypeOK
          <5>2. QED
            BY <2>1, <5>1, SMT
        <4>2. QED
          BY <3>1, <4>1, Zenon DEF Ack, TypeOK, WorkersTyped, redisVars, workerVars, resultVars
      <3>2. CASE ~reclaimed[w]
        <4>1. Release(w, "poll")
          BY <3>2 DEF Ack
        <4>2. cursor' = cursor
          BY DEF Ack, redisVars
        <4>3. QED
          BY <2>1, <4>1, <4>2, ReleaseType, Zenon DEF WorkersTyped
      <3>3. QED
        BY <3>1, <3>2
    <2>4. QED
      BY <2>2, <2>3, Zenon DEF Ack, TypeOK, WorkersTyped, redisVars, workerVars, resultVars
  <1>2. InHand'
    BY SMT DEF Ack, InHand, TypeOK, Busy, redisVars, workerVars, resultVars, Release
  <1>3. NothingLost'
    BY SMT DEF Ack, NothingLost, InHand, TypeOK, Busy, redisVars, workerVars, resultVars
  <1>4. QED
    BY <1>1, <1>2, <1>3

LEMMA RedisFailsSafe == ASSUME SafeInv, NEW w \in Workers, RedisFails(w) PROVE SafeInv'
  <1> USE DEF SafeInv
  <1>1. TypeOK'
    BY SMT DEF RedisFails, TypeOK, redisVars, workerVars, resultVars, Release, Phases
  <1>2. InHand'
    BY SMT DEF RedisFails, InHand, TypeOK, Busy, redisVars, workerVars, resultVars, Release
  <1>3. NothingLost'
    BY SMT DEF RedisFails, NothingLost, InHand, TypeOK, Busy, redisVars, workerVars, resultVars
  <1>4. QED
    BY <1>1, <1>2, <1>3

LEMMA CrashSafe == ASSUME SafeInv, NEW w \in Workers, Crash(w) PROVE SafeInv'
  <1> USE DEF SafeInv
  <1>1. TypeOK'
    BY SMT DEF Crash, TypeOK, redisVars, workerVars, resultVars, Release, Phases
  <1>2. InHand'
    BY SMT DEF Crash, InHand, TypeOK, Busy, redisVars, workerVars, resultVars, Release
  <1>3. NothingLost'
    BY SMT DEF Crash, NothingLost, InHand, TypeOK, Busy, redisVars, workerVars, resultVars
  <1>4. QED
    BY <1>1, <1>2, <1>3

LEMMA SigtermSafe == ASSUME SafeInv, NEW w \in Workers, Sigterm(w) PROVE SafeInv'
  <1> USE DEF SafeInv
  <1>1. TypeOK'
    BY SMT DEF Sigterm, TypeOK, redisVars, workerVars, resultVars
  <1>2. InHand'
    BY SMT DEF Sigterm, InHand, TypeOK, Busy, redisVars, workerVars, resultVars
  <1>3. NothingLost'
    BY SMT DEF Sigterm, NothingLost, InHand, TypeOK, Busy, redisVars, workerVars, resultVars
  <1>4. QED
    BY <1>1, <1>2, <1>3


\* Reading the next entry keeps the types and disturbs no other entry.
LEMMA ReadNextFacts ==
    ASSUME TypeOK, NEW w \in Workers, cursor < published, ReadNext(w)
    PROVE  /\ cursor + 1 \in Msgs /\ cursor' = cursor + 1
           /\ cursor' \in 0..published
           /\ pending' = pending \cup {cursor + 1}
           /\ pending' \in SUBSET (1..cursor')
           /\ 0..cursor \subseteq 0..cursor' /\ 1..cursor \subseteq 1..cursor'
           /\ owner' \in [Msgs -> Workers \cup {Nobody}]
           /\ idle' \in [Msgs -> 0..MinIdle]
           /\ times' \in [Msgs -> Nat]
  <1>1. cursor \in 0..published /\ published \in 0..NumMsgs /\ pending \in SUBSET (1..cursor)
    BY DEF TypeOK
  <1>2. cursor + 1 \in Msgs
    BY <1>1, QueueConstants, SMT DEF Msgs
  <1>3. cursor' = cursor + 1 /\ pending' = pending \cup {cursor + 1} /\ Assign(w, {cursor + 1})
    BY DEF ReadNext
  <1>4. /\ cursor' \in 0..published
        /\ 0..cursor \subseteq 0..cursor' /\ 1..cursor \subseteq 1..cursor'
        /\ cursor + 1 \in 1..cursor'
    BY <1>1, <1>3, QueueConstants, SMT
  <1>5. pending' \in SUBSET (1..cursor')
    BY <1>1, <1>3, <1>4, Zenon
  <1>6. QED
    BY <1>2, <1>3, <1>4, <1>5, AssignType, Zenon

\* Types that mention the cursor survive its advance.
LEMMA CursorAdvances ==
    ASSUME TypeOK, 0..cursor \subseteq 0..cursor', 1..cursor \subseteq 1..cursor'
    PROVE  /\ cur \in [Workers -> 0..cursor']
           /\ batch \in [Workers -> Seq(1..cursor')]
           /\ done \in SUBSET (1..cursor') /\ parked \in SUBSET (1..cursor')
           /\ \A q \in Seq(1..cursor) : q \in Seq(1..cursor')
  <1>1. \A q \in Seq(1..cursor) : q \in Seq(1..cursor')
    BY SeqMonotonic, Zenon
  <1>2. QED
    BY <1>1, Zenon DEF TypeOK

LEMMA DeliverSafe == ASSUME SafeInv, NEW w \in Workers, Deliver(w) PROVE SafeInv'
  <1> USE DEF SafeInv
  <1>1. cursor < published /\ ReadNext(w)
    BY DEF Deliver
  <1>2. /\ cursor + 1 \in Msgs /\ cursor' = cursor + 1
        /\ cursor' \in 0..published
        /\ pending' = pending \cup {cursor + 1}
        /\ pending' \in SUBSET (1..cursor')
        /\ 0..cursor \subseteq 0..cursor' /\ 1..cursor \subseteq 1..cursor'
        /\ owner' \in [Msgs -> Workers \cup {Nobody}]
        /\ idle' \in [Msgs -> 0..MinIdle]
        /\ times' \in [Msgs -> Nat]
    BY <1>1, ReadNextFacts, Zenon
  <1>3. /\ cur \in [Workers -> 0..cursor']
        /\ batch \in [Workers -> Seq(1..cursor')]
        /\ done \in SUBSET (1..cursor') /\ parked \in SUBSET (1..cursor')
        /\ \A q \in Seq(1..cursor) : q \in Seq(1..cursor')
    BY <1>2, CursorAdvances, Zenon
  <1>4. "run" \in Phases /\ "down" \in Phases /\ cursor + 1 \in 0..cursor' /\ cursor + 1 \in 1..cursor'
    BY <1>2, QueueConstants, SMT DEF Phases, TypeOK
  <1>5. WorkersTyped' /\ InHand'
    <2>1. CASE stopping[w]
      <3>1. Release(w, "down")
        BY <2>1 DEF Deliver
      <3>2. WorkersTyped'
        <4>1. /\ pc' \in [Workers -> Phases] /\ cur' \in [Workers -> 0..cursor]
              /\ reclaimed' \in [Workers -> BOOLEAN] /\ batch' \in [Workers -> Seq(1..cursor)]
              /\ elapsed' \in [Workers -> Nat] /\ started' \in [Workers -> Nat]
          BY <1>4, <3>1, ReleaseType
        <4>2. QED
          BY <1>2, <1>3, <4>1, Zenon DEF WorkersTyped
      <3>3. InHand'
        BY <1>2, <3>1, SMT DEF Deliver, Release, InHand, TypeOK, Busy, resultVars
      <3>4. QED
        BY <3>2, <3>3
    <2>2. CASE ~stopping[w]
      <3>1. /\ pc' = [pc EXCEPT ![w] = "run"]
            /\ cur' = [cur EXCEPT ![w] = cursor + 1]
            /\ elapsed' = [elapsed EXCEPT ![w] = 0]
            /\ started' = [started EXCEPT ![w] = 1]
            /\ UNCHANGED <<reclaimed, batch>>
        BY <2>2 DEF Deliver
      <3>2. WorkersTyped'
        BY <1>3, <1>4, <3>1, SMT DEF TypeOK, WorkersTyped
      <3>3. InHand'
        BY <1>2, <1>4, <3>1, SMT DEF Deliver, InHand, TypeOK, Busy, resultVars
      <3>4. QED
        BY <3>2, <3>3
    <2>3. QED
      BY <2>1, <2>2
  <1>6. TypeOK'
    BY <1>2, <1>3, <1>5, Zenon DEF Deliver, TypeOK, WorkersTyped, resultVars
  <1>7. NothingLost'
    BY <1>2, SMT DEF Deliver, NothingLost, TypeOK, resultVars
  <1>8. QED
    BY <1>5, <1>6, <1>7

LEMMA ReclaimSafe == ASSUME SafeInv, NEW w \in Workers, Reclaim(w) PROVE SafeInv'
  <1> USE DEF SafeInv
  <1>1. PICK s \in Claims : /\ IsClaim(s) /\ Assign(w, Elements(s))
                            /\ batch' = [batch EXCEPT ![w] = s]
    BY DEF Reclaim
  <1>2. s \in Seq(1..cursor) /\ Elements(s) \in SUBSET Msgs
    BY <1>1, ClaimElements, Zenon
  <1>3. /\ owner' \in [Msgs -> Workers \cup {Nobody}]
        /\ idle' \in [Msgs -> 0..MinIdle]
        /\ times' \in [Msgs -> Nat]
    BY <1>1, <1>2, AssignType, Zenon
  <1>4. WorkersTyped'
    <2>1. "drain" \in Phases
      BY DEF Phases
    <2>2. QED
      BY <1>1, <1>2, <2>1, SMT DEF Reclaim, TypeOK, WorkersTyped
  <1>5. TypeOK'
    BY <1>3, <1>4, Zenon DEF Reclaim, TypeOK, WorkersTyped, resultVars
  <1>6. InHand'
    BY SMT DEF Reclaim, InHand, TypeOK, Busy, resultVars
  <1>7. NothingLost'
    BY SMT DEF Reclaim, NothingLost, resultVars
  <1>8. QED
    BY <1>5, <1>6, <1>7

LEMMA ReplyLostSafe == ASSUME SafeInv, NEW w \in Workers, ReplyLost(w) PROVE SafeInv'
  <1> USE DEF SafeInv
  <1>1. faults' \in Nat
    BY SMT DEF ReplyLost, TypeOK
  <1>2. CASE ReadReplyLost(w)
    <2>1. /\ cursor' = cursor + 1 /\ pending' = pending \cup {cursor + 1}
          /\ cursor' \in 0..published
          /\ pending' \in SUBSET (1..cursor')
          /\ 0..cursor \subseteq 0..cursor' /\ 1..cursor \subseteq 1..cursor'
          /\ owner' \in [Msgs -> Workers \cup {Nobody}]
          /\ idle' \in [Msgs -> 0..MinIdle]
          /\ times' \in [Msgs -> Nat]
      BY <1>2, ReadNextFacts, Zenon DEF ReadReplyLost
    <2>2. /\ cur \in [Workers -> 0..cursor']
          /\ batch \in [Workers -> Seq(1..cursor')]
          /\ done \in SUBSET (1..cursor') /\ parked \in SUBSET (1..cursor')
      BY <2>1, CursorAdvances, Zenon
    <2>3. TypeOK'
      BY <1>1, <1>2, <2>1, <2>2, Zenon DEF ReadReplyLost, TypeOK, workerVars, resultVars
    <2>4. InHand'
      BY <1>2, <2>1, SMT DEF ReadReplyLost, InHand, TypeOK, workerVars, resultVars
    <2>5. NothingLost'
      BY <1>2, <2>1, SMT DEF ReadReplyLost, NothingLost, TypeOK, resultVars
    <2>6. QED
      BY <2>3, <2>4, <2>5
  <1>3. CASE ClaimReplyLost(w)
    <2>1. PICK s \in Claims : IsClaim(s) /\ Assign(w, Elements(s))
      BY <1>3 DEF ClaimReplyLost
    <2>2. Elements(s) \in SUBSET Msgs
      BY <2>1, ClaimElements, Zenon
    <2>3. /\ owner' \in [Msgs -> Workers \cup {Nobody}]
          /\ idle' \in [Msgs -> 0..MinIdle]
          /\ times' \in [Msgs -> Nat]
      BY <2>1, <2>2, AssignType, Zenon
    <2>4. TypeOK'
      BY <1>1, <1>3, <2>3, Zenon DEF ClaimReplyLost, TypeOK, workerVars, resultVars
    <2>5. InHand' /\ NothingLost'
      BY <1>3, SMT DEF ClaimReplyLost, InHand, NothingLost, workerVars, resultVars
    <2>6. QED
      BY <2>4, <2>5
  <1>4. CASE AckReplyLost(w)
    <2>1. "top" \in Phases
      BY DEF Phases
    <2>2. WorkersTyped'
      <3>1. Release(w, "top") /\ cursor' = cursor
        BY <1>4 DEF AckReplyLost
      <3>2. QED
        BY <2>1, <3>1, ReleaseType, SMT DEF WorkersTyped
    <2>3. pending' \in SUBSET (1..cursor)
      BY <1>4, Zenon DEF AckReplyLost, TypeOK
    <2>4. TypeOK'
      BY <1>1, <1>4, <2>2, <2>3, Zenon DEF AckReplyLost, TypeOK, WorkersTyped, resultVars
    <2>5. InHand'
      BY <1>4, SMT DEF AckReplyLost, Release, InHand, TypeOK, Busy, resultVars
    <2>6. NothingLost'
      BY <1>4, SMT DEF AckReplyLost, NothingLost, InHand, TypeOK, resultVars
    <2>7. QED
      BY <2>4, <2>5, <2>6
  <1>5. QED
    BY <1>2, <1>3, <1>4 DEF ReplyLost

-----------------------------------------------------------------------------
LEMMA SafeStep == SafeInv /\ [Next]_vars => SafeInv'
  <1> SUFFICES ASSUME SafeInv, [Next]_vars PROVE SafeInv'
    OBVIOUS
  <1>1. CASE Publish
    BY <1>1, PublishSafe
  <1>2. CASE Tick
    BY <1>2, TickSafe
  <1>3. ASSUME NEW w \in Workers, Step(w) PROVE SafeInv'
    BY <1>3, ReclaimSafe, TakeReclaimedSafe, EndDrainSafe, DeliverSafe, PollEmptySafe,
       SucceedSafe, FailSafe, CountAttemptsSafe, ParkSafe, AckSafe, ExitSafe, RestartSafe,
       Zenon DEF Step
  <1>4. ASSUME NEW w \in Workers,
               RedisFails(w) \/ ReplyLost(w) \/ Crash(w) \/ Sigterm(w)
        PROVE  SafeInv'
    BY <1>4, RedisFailsSafe, ReplyLostSafe, CrashSafe, SigtermSafe
  <1>5. CASE UNCHANGED vars
    BY <1>5, Zenon DEF vars, redisVars, workerVars, resultVars, SafeInv, TypeOK, InHand, NothingLost
  <1>6. QED
    BY <1>1, <1>2, <1>3, <1>4, <1>5 DEF Next

\* Every variable of the queue keeps its type, for every number of replicas,
\* messages, attempts and faults.
THEOREM TypeCorrect == Spec => []TypeOK
  <1>1. SafeInv => TypeOK
    BY DEF SafeInv
  <1>2. QED
    BY <1>1, SafeInit, SafeStep, PTL DEF Spec

\* No message disappears between its delivery and its acknowledgement: whatever
\* crashes, lost replies, failed calls and shutdowns happen between the steps of
\* the consume loop, it is pending, handled or parked.
THEOREM NothingIsLost == Spec => []NothingLost
  <1>1. SafeInv => NothingLost
    BY DEF SafeInv
  <1>2. QED
    BY <1>1, SafeInit, SafeStep, PTL DEF Spec

-----------------------------------------------------------------------------
(* What a worker holds.  A worker waiting for a delivery has nothing to    *)
(* do; a message just read is all its reader has; and one claim names an   *)
(* entry once.                                                             *)

Faulty(w) == RedisFails(w) \/ ReplyLost(w) \/ Crash(w) \/ Sigterm(w)

Idling(w) == pc[w] \in {"down", "top", "poll"} => batch[w] = <<>>

Single(w) == pc[w] \in Busy /\ ~reclaimed[w] => batch[w] = <<>> /\ started[w] = 1

Distinct(w) ==
    /\ \A i, j \in 1..Len(batch[w]) : i # j => batch[w][i] # batch[w][j]
    /\ pc[w] \in Busy => \A i \in 1..Len(batch[w]) : batch[w][i] # cur[w]

Shaped(w) == Idling(w) /\ Single(w) /\ Distinct(w)

ShapeInv == SafeInv /\ \A w \in Workers : Shaped(w)

\* What a step leaves alone of worker w.
Stands(w) ==
    /\ pc'[w] = pc[w] /\ cur'[w] = cur[w] /\ batch'[w] = batch[w]
    /\ reclaimed'[w] = reclaimed[w] /\ stopping'[w] = stopping[w]
    /\ elapsed'[w] = elapsed[w] /\ started'[w] = started[w]

\* Release touches one worker, and leaves it with nothing.
LEMMA ReleaseFrame ==
    ASSUME TypeOK, NEW v \in Workers, NEW p, Release(v, p)
    PROVE  /\ pc'[v] = p /\ batch'[v] = <<>>
           /\ \A w \in Workers \ {v} :
                 /\ pc'[w] = pc[w] /\ cur'[w] = cur[w] /\ batch'[w] = batch[w]
                 /\ reclaimed'[w] = reclaimed[w]
                 /\ elapsed'[w] = elapsed[w] /\ started'[w] = started[w]
  BY SMT DEF TypeOK, Release

\* A step of one worker leaves the others alone.
LEMMA OthersStand ==
    ASSUME TypeOK, NEW v \in Workers, Step(v) \/ Faulty(v), NEW w \in Workers \ {v}
    PROVE  Stands(w)
  <1>1. CASE EndDrain(v) \/ PollEmpty(v) \/ Exit(v) \/ RedisFails(v)
    BY <1>1, ReleaseFrame DEF EndDrain, PollEmpty, Exit, RedisFails, Stands
  <1>2. CASE Crash(v)
    <2>1. stopping'[w] = stopping[w]
      BY <1>2, SMT DEF Crash, TypeOK
    <2>2. QED
      BY <1>2, <2>1, ReleaseFrame DEF Crash, Stands
  <1>3. CASE ReplyLost(v)
    BY <1>3, ReleaseFrame
    DEF ReplyLost, ReadReplyLost, ClaimReplyLost, AckReplyLost, workerVars, Stands
  <1>4. CASE Sigterm(v) \/ Restart(v) \/ Reclaim(v) \/ TakeReclaimed(v)
    BY <1>4, SMT DEF TypeOK, Sigterm, Restart, Reclaim, TakeReclaimed, Stands
  <1>5. CASE Succeed(v) \/ CountAttempts(v) \/ Park(v)
    BY <1>5, SMT DEF TypeOK, Succeed, CountAttempts, Park, Stands
  <1>6. CASE Deliver(v)
    <2>1. CASE stopping[v]
      BY <1>6, <2>1, ReleaseFrame DEF Deliver, Stands
    <2>2. CASE ~stopping[v]
      BY <1>6, <2>2, SMT DEF Deliver, TypeOK, Stands
    <2>3. QED
      BY <2>1, <2>2
  <1>7. CASE Fail(v) \/ Ack(v)
    <2>1. CASE reclaimed[v]
      BY <1>7, <2>1, SMT DEF Fail, Ack, TypeOK, Stands
    <2>2. CASE ~reclaimed[v]
      BY <1>7, <2>2, ReleaseFrame DEF Fail, Ack, Stands
    <2>3. QED
      BY <2>1, <2>2
  <1>8. QED
    BY <1>1, <1>2, <1>3, <1>4, <1>5, <1>6, <1>7 DEF Step, Faulty

LEMMA ShapeStands ==
    ASSUME NEW w \in Workers, Shaped(w), Stands(w) PROVE Shaped(w)'
  BY Zenon DEF Shaped, Idling, Single, Distinct, Stands

LEMMA ShapeEmpty ==
    ASSUME NEW w \in Workers, batch'[w] = <<>>, pc'[w] \notin Busy PROVE Shaped(w)'
  BY SMT DEF Shaped, Idling, Single, Distinct

\* Taking up the next entry: what the batch was, and what it is.
LEMMA HeadTaken ==
    ASSUME TypeOK, NEW w \in Workers, TakeReclaimed(w)
    PROVE  /\ pc[w] = "drain" /\ pc'[w] = "run" /\ reclaimed'[w] /\ started'[w] = started[w] + 1
           /\ elapsed'[w] = elapsed[w]
           /\ Len(batch[w]) \in Nat \ {0} /\ Len(batch'[w]) = Len(batch[w]) - 1
           /\ cur'[w] = batch[w][1]
           /\ \A i \in 1..Len(batch'[w]) : /\ batch'[w][i] = batch[w][i+1]
                                           /\ i + 1 \in 1..Len(batch[w])
  <1>1. /\ pc[w] = "drain" /\ batch[w] # <<>> /\ pc'[w] = "run"
        /\ cur'[w] = Head(batch[w]) /\ batch'[w] = Tail(batch[w])
        /\ reclaimed'[w] /\ started'[w] = started[w] + 1 /\ elapsed'[w] = elapsed[w]
    BY SMT DEF TakeReclaimed, TypeOK
  <1>2. batch[w] \in Seq(1..cursor)
    BY DEF TypeOK
  <1>3. QED
    BY <1>1, <1>2, HeadTailProperties, EmptySeq, LenProperties, SMT

\* The acting worker's own shape.
LEMMA OwnShape ==
    ASSUME TypeOK, NEW w \in Workers, Shaped(w), Step(w) \/ Faulty(w)
    PROVE  Shaped(w)'
  <1>1. ASSUME NEW p \in {"poll", "top", "down"}, Release(w, p) PROVE Shaped(w)'
    <2>1. batch'[w] = <<>> /\ pc'[w] = p
      BY <1>1, ReleaseFrame
    <2>2. QED
      BY <2>1, ShapeEmpty, SMT DEF Busy
  <1>2. CASE EndDrain(w) \/ PollEmpty(w) \/ Exit(w) \/ RedisFails(w) \/ Crash(w) \/ AckReplyLost(w)
    BY <1>1, <1>2 DEF EndDrain, PollEmpty, Exit, RedisFails, Crash, AckReplyLost
  <1>3. CASE ReadReplyLost(w) \/ ClaimReplyLost(w)
    BY <1>3, ShapeStands DEF ReadReplyLost, ClaimReplyLost, workerVars, Stands
  <1>4. CASE Sigterm(w)
    BY <1>4, Zenon DEF Sigterm, Shaped, Idling, Single, Distinct
  <1>5. CASE Restart(w)
    <2>1. pc'[w] = "top" /\ batch'[w] = <<>>
      BY <1>5, SMT DEF Restart, TypeOK, Shaped, Idling
    <2>2. QED
      BY <2>1, ShapeEmpty, SMT DEF Busy
  <1>6. CASE Reclaim(w)
    <2>1. PICK s \in Claims : IsClaim(s) /\ batch' = [batch EXCEPT ![w] = s]
      BY <1>6 DEF Reclaim
    <2>2. batch'[w] = s /\ pc'[w] = "drain"
      BY <1>6, <2>1, SMT DEF Reclaim, TypeOK
    <2>3. \A i, j \in 1..Len(s) : i < j => s[i] < s[j]
      BY <2>1, Zenon DEF IsClaim
    <2>4. Len(s) \in Nat /\ \A i \in 1..Len(s) : s[i] \in Nat
      <3>1. s \in Seq(1..cursor)
        BY <2>1, ClaimElements
      <3>2. Len(s) \in Nat /\ \A i \in 1..Len(s) : s[i] \in 1..cursor
        BY <3>1, ElementOfSeq, LenProperties, Zenon
      <3>3. QED
        BY <3>2, SMT
    <2>5. \A i, j \in 1..Len(s) : i # j => s[i] # s[j]
      BY <2>3, <2>4, SMT
    <2>6. QED
      BY <2>2, <2>5, SMT DEF Shaped, Idling, Single, Distinct, Busy
  <1>7. CASE TakeReclaimed(w)
    <2>1. \A i, j \in 1..Len(batch[w]) : i # j => batch[w][i] # batch[w][j]
      BY Zenon DEF Shaped, Distinct
    <2> DEFINE b == batch[w]
               c == batch'[w]
    <2>2. /\ Len(b) \in Nat \ {0} /\ Len(c) = Len(b) - 1 /\ cur'[w] = b[1]
          /\ \A i \in 1..Len(c) : c[i] = b[i+1] /\ i + 1 \in 1..Len(b)
      BY <1>7, HeadTaken
    <2> HIDE DEF b, c
    <2>6. \A i \in 1..Len(c) : c[i] # cur'[w]
      <3>1. SUFFICES ASSUME NEW i \in 1..Len(c) PROVE c[i] # b[1]
        BY <2>2
      <3>2. i + 1 \in 1..Len(b) /\ 1 \in 1..Len(b) /\ i + 1 # 1
        BY <2>2
      <3>3. QED
        BY <2>1, <2>2, <3>2, Zenon DEF b
    <2>3. \A i, j \in 1..Len(c) : i # j => c[i] # c[j]
      <3>1. SUFFICES ASSUME NEW i \in 1..Len(c), NEW j \in 1..Len(c), i # j PROVE c[i] # c[j]
        OBVIOUS
      <3>2. i + 1 \in 1..Len(b) /\ j + 1 \in 1..Len(b) /\ i + 1 # j + 1
        BY <2>2, <3>1
      <3>3. b[i+1] # b[j+1]
        BY <2>1, <3>2, Zenon DEF b
      <3>4. QED
        BY <2>2, <3>3
    <2>4. pc'[w] = "run" /\ reclaimed'[w]
      BY <1>7, HeadTaken
    <2>5. QED
      BY <2>3, <2>4, <2>6, SMT DEF Shaped, Idling, Single, Distinct, Busy, b, c
  <1>8. CASE Deliver(w) /\ ~stopping[w]
    BY <1>8, SMT DEF Deliver, TypeOK, Shaped, Idling, Single, Distinct, Busy
  <1>9. CASE Deliver(w) /\ stopping[w]
    BY <1>1, <1>9 DEF Deliver
  <1>10. CASE (Fail(w) \/ Ack(w)) /\ ~reclaimed[w]
    BY <1>1, <1>10 DEF Fail, Ack
  <1>11. CASE Succeed(w) \/ CountAttempts(w) \/ Park(w) \/ ((Fail(w) \/ Ack(w)) /\ reclaimed[w])
    <2>1. UNCHANGED <<cur, batch, reclaimed, started>>
      BY <1>11 DEF Succeed, CountAttempts, Park, Fail, Ack
    <2>2. pc[w] \in Busy /\ pc'[w] \in Busy \cup {"drain"}
      BY <1>11, SMT DEF Succeed, CountAttempts, Park, Fail, Ack, Busy, TypeOK
    <2>3. QED
      BY <2>1, <2>2, SMT DEF Shaped, Idling, Single, Distinct, Busy
  <1>12. QED
    BY <1>2, <1>3, <1>4, <1>5, <1>6, <1>7, <1>8, <1>9, <1>10, <1>11 DEF Step, Faulty, ReplyLost

LEMMA ShapeInit == Init => ShapeInv
  <1> SUFFICES ASSUME Init PROVE ShapeInv
    OBVIOUS
  <1>1. ASSUME NEW w \in Workers PROVE Shaped(w)
    BY SMT DEF Init, Shaped, Idling, Single, Distinct, Busy
  <1>2. QED
    BY <1>1, SafeInit DEF ShapeInv

LEMMA ShapeStep == ShapeInv /\ [Next]_vars => ShapeInv'
  <1> SUFFICES ASSUME ShapeInv, [Next]_vars, NEW w \in Workers PROVE Shaped(w)'
    BY SafeStep, Zenon DEF ShapeInv
  <1>1. TypeOK /\ Shaped(w)
    BY DEF ShapeInv, SafeInv
  <1>2. CASE Publish \/ Tick \/ UNCHANGED vars
    BY <1>1, <1>2, Zenon DEF Publish, Tick, vars, workerVars, Shaped, Idling, Single, Distinct
  <1>3. ASSUME NEW v \in Workers, Step(v) \/ Faulty(v) PROVE Shaped(w)'
    <2>1. CASE v = w
      BY <1>1, <1>3, <2>1, OwnShape
    <2>2. CASE v # w
      BY <1>1, <1>3, <2>2, OthersStand, ShapeStands
    <2>3. QED
      BY <2>1, <2>2
  <1>4. QED
    BY <1>2, <1>3 DEF Next, Faulty

-----------------------------------------------------------------------------
(* A parked message had its attempts.  Each delivery of a pending message  *)
(* is an attempt that came to an end, one that a worker has before it, or  *)
(* was undone by a fault, however many hands the message is in.            *)

Triers(m) == {w \in Workers : Untried(w, m)}
Tally(m)  == attempts[m] + Cardinality(Triers(m)) + faults

Counted     == \A m \in pending : times[m] <= Tally(m)
Undelivered == \A m \in Msgs : m > cursor => times[m] = 0
Told   == \A w \in Workers : stopping[w] => faults >= 1
Giving == \A w \in Workers : pc[w] = "park" => Tally(cur[w]) >= MaxAttempts
Finite == \A m \in Msgs : IsFiniteSet(Triers(m))

AttemptsInv ==
    ShapeInv /\ Finite /\ Counted /\ Undelivered /\ Told /\ Giving /\ ParkedAfterAttempts

LEMMA CountTypes ==
    ASSUME TypeOK
    PROVE  /\ faults \in Nat /\ cursor \in Nat /\ pending \subseteq Msgs /\ parked \subseteq Msgs
           /\ \A m \in pending : m <= cursor
           /\ \A m \in Msgs : attempts[m] \in Nat /\ times[m] \in Nat
  <1>1. cursor \in 0..NumMsgs /\ pending \subseteq 1..cursor /\ parked \subseteq 1..cursor
    BY QueueConstants, SMT DEF TypeOK
  <1>2. 1..cursor \subseteq Msgs /\ cursor \in Nat /\ \A m \in 1..cursor : m <= cursor
    BY <1>1, QueueConstants, SMT DEF Msgs
  <1>3. QED
    BY <1>1, <1>2 DEF TypeOK

LEMMA NothingUntried == ASSUME NEW w \in Workers, batch[w] = <<>>, pc[w] # "run", NEW m PROVE ~Untried(w, m)
  BY SMT DEF Untried, Elements

LEMMA NothingUntriedNext ==
    ASSUME NEW w \in Workers, batch'[w] = <<>>, pc'[w] # "run", NEW m PROVE ~Untried(w, m)'
  BY SMT DEF Untried, Elements

\* A worker no longer has an attempt before it when it has ended, or a fault struck.
LEMMA TriesOn ==
    ASSUME TypeOK, NEW w \in Workers, Shaped(w), Step(w) \/ Faulty(w), NEW m \in Msgs
    PROVE  \/ Untried(w, m) => Untried(w, m)'
           \/ attempts'[m] = attempts[m] + 1
           \/ faults' = faults + 1
  <1>1. CASE Faulty(w)
    BY <1>1 DEF Faulty, RedisFails, ReplyLost, Crash, Sigterm
  <1>2. SUFFICES ASSUME Step(w), Untried(w, m), ~Untried(w, m)' PROVE attempts'[m] = attempts[m] + 1
    BY <1>1
  <1>3. CASE EndDrain(w) \/ PollEmpty(w) \/ Exit(w) \/ Restart(w) \/ Reclaim(w) \/ Deliver(w)
    BY <1>2, <1>3, NothingUntried, SMT
    DEF EndDrain, PollEmpty, Exit, Restart, Reclaim, Deliver, Shaped, Idling
  <1>4. CASE TakeReclaimed(w)
    <2>1. PICK i \in 1..Len(batch[w]) : m = batch[w][i]
      BY <1>2, <1>4, HeadTaken DEF Untried, Elements
    <2>2. CASE i = 1
      BY <1>2, <1>4, <2>1, <2>2, HeadTaken DEF Untried
    <2>3. CASE i # 1
      <3>1. i - 1 \in 1..Len(batch'[w])
        BY <1>4, <2>1, <2>3, HeadTaken, SMT
      <3>2. batch'[w][i - 1] = batch[w][i]
        BY <1>4, <2>1, <3>1, HeadTaken, SMT
      <3>3. \E j \in 1..Len(batch'[w]) : m = batch'[w][j]
        BY <2>1, <3>1, <3>2
      <3>4. QED
        BY <1>2, <3>3 DEF Untried, Elements
    <2>4. QED
      BY <2>2, <2>3
  <1>5. CASE Succeed(w) \/ Fail(w)
    <2>1. pc[w] = "run" /\ attempts' = [attempts EXCEPT ![cur[w]] = @ + 1]
      BY <1>5 DEF Succeed, Fail
    <2>2. CASE m = cur[w]
      BY <2>1, <2>2, SMT DEF TypeOK
    <2>3. CASE m # cur[w]
      <3>1. m \in Elements(batch[w])
        BY <1>2, <2>3 DEF Untried
      <3>2. CASE batch' = batch
        BY <1>2, <3>1, <3>2 DEF Untried, Elements
      <3>3. CASE batch[w] = <<>>
        BY <3>1, <3>3, SMT DEF Elements
      <3>4. QED
        BY <1>5, <2>1, <3>2, <3>3, SMT DEF Succeed, Fail, Shaped, Single, Busy
    <2>4. QED
      BY <2>2, <2>3
  <1>6. CASE CountAttempts(w) \/ Park(w) \/ Ack(w)
    <2>1. pc[w] \in {"count", "park", "ack"}
      BY <1>6 DEF CountAttempts, Park, Ack
    <2>2. m \in Elements(batch[w])
      BY <1>2, <2>1 DEF Untried
    <2>3. CASE batch' = batch
      BY <1>2, <2>2, <2>3 DEF Untried, Elements
    <2>4. CASE batch[w] = <<>>
      BY <2>2, <2>4, SMT DEF Elements
    <2>5. QED
      BY <1>6, <2>1, <2>3, <2>4, SMT DEF CountAttempts, Park, Ack, Shaped, Single, Busy
  <1>7. QED
    BY <1>2, <1>3, <1>4, <1>5, <1>6 DEF Step

\* Attempts and faults only add up, each by one.
LEMMA CountsGrow ==
    ASSUME TypeOK, Next
    PROVE  /\ faults' \in {faults, faults + 1}
           /\ \A m \in Msgs : attempts'[m] \in {attempts[m], attempts[m] + 1}
  <1>1. faults \in Nat /\ attempts \in [Msgs -> Nat]
    BY DEF TypeOK
  <1>2. CASE UNCHANGED attempts /\ faults' \in {faults, faults + 1}
    BY <1>1, <1>2
  <1>3. CASE Publish \/ Tick
    BY <1>2, <1>3 DEF Publish, Tick, resultVars
  <1>4. ASSUME NEW w \in Workers, Fail(w) \/ Succeed(w)
        PROVE  /\ faults' = faults
               /\ \A m \in Msgs : attempts'[m] \in {attempts[m], attempts[m] + 1}
    BY <1>1, <1>4 DEF Fail, Succeed
  <1>5. ASSUME NEW w \in Workers, Step(w), ~Fail(w), ~Succeed(w) PROVE UNCHANGED <<attempts, faults>>
    BY <1>5 DEF Step, Reclaim, TakeReclaimed, EndDrain, Deliver, PollEmpty, CountAttempts,
                Park, Ack, Exit, Restart, resultVars
  <1>6. ASSUME NEW w \in Workers, Faulty(w) PROVE UNCHANGED attempts /\ faults' = faults + 1
    BY <1>6 DEF Faulty, RedisFails, ReplyLost, ReadReplyLost, ClaimReplyLost, AckReplyLost, Crash,
                Sigterm, resultVars
  <1>7. QED
    BY <1>2, <1>3, <1>4, <1>5, <1>6 DEF Next, Faulty

\* A step of w changes the triers of a message by w at most.
LEMMA TriersChange ==
    ASSUME TypeOK, NEW w \in Workers, Step(w) \/ Faulty(w), NEW m
    PROVE  /\ Untried(w, m)' => Triers(m)' = Triers(m) \cup {w}
           /\ ~Untried(w, m)' => Triers(m)' = Triers(m) \ {w}
  <1>1. ASSUME NEW v \in Workers, v # w PROVE Untried(v, m)' = Untried(v, m)
    BY <1>1, OthersStand, Zenon DEF Stands, Untried, Elements
  <1>2. QED
    BY <1>1 DEF Triers

\* The tally of a message never falls, and rises when w comes to have it before it.
LEMMA TallyGrows ==
    ASSUME TypeOK, TypeOK', Next, NEW w \in Workers, Shaped(w), Step(w) \/ Faulty(w),
           NEW m \in Msgs, IsFiniteSet(Triers(m))
    PROVE  /\ IsFiniteSet(Triers(m)') /\ Tally(m) \in Nat /\ Tally(m)' \in Nat /\ Tally(m)' >= Tally(m)
           /\ ~Untried(w, m) /\ Untried(w, m)' => Tally(m)' >= Tally(m) + 1 /\ Tally(m)' >= 1
           /\ faults' = faults + 1 /\ (Untried(w, m) => Untried(w, m)') => Tally(m)' >= Tally(m) + 1
  <1> DEFINE C == Cardinality(Triers(m))
             D == Cardinality(Triers(m)')
  <1>1. /\ Untried(w, m) <=> w \in Triers(m)
        /\ Untried(w, m)' => Triers(m)' = Triers(m) \cup {w}
        /\ ~Untried(w, m)' => Triers(m)' = Triers(m) \ {w}
    BY TriersChange DEF Triers
  <1>2. /\ IsFiniteSet(Triers(m) \cup {w})
        /\ Cardinality(Triers(m) \cup {w}) = IF w \in Triers(m) THEN C ELSE C + 1
    BY FS_AddElement
  <1>3. /\ IsFiniteSet(Triers(m) \ {w})
        /\ Cardinality(Triers(m) \ {w}) = IF w \in Triers(m) THEN C - 1 ELSE C
    BY FS_RemoveElement
  <1>4. C \in Nat /\ D \in Nat /\ IsFiniteSet(Triers(m)')
    BY <1>1, <1>2, <1>3, FS_CardinalityType
  <1>5. /\ D = IF Untried(w, m)' THEN (IF Untried(w, m) THEN C ELSE C + 1)
                                 ELSE (IF Untried(w, m) THEN C - 1 ELSE C)
    BY <1>1, <1>2, <1>3
  <1>6. /\ faults \in Nat /\ attempts[m] \in Nat
        /\ faults' \in {faults, faults + 1} /\ attempts'[m] \in {attempts[m], attempts[m] + 1}
    BY CountTypes, CountsGrow
  <1>7. Tally(m) = attempts[m] + C + faults /\ Tally(m)' = attempts'[m] + D + faults'
    BY DEF Tally
  <1>8. \/ Untried(w, m) => Untried(w, m)'
        \/ attempts'[m] = attempts[m] + 1
        \/ faults' = faults + 1
    BY TriesOn
  <1> HIDE DEF C, D
  <1>9. CASE Untried(w, m) /\ Untried(w, m)'
    BY <1>4, <1>5, <1>6, <1>7, <1>9
  <1>10. CASE ~Untried(w, m) /\ Untried(w, m)'
    BY <1>4, <1>5, <1>6, <1>7, <1>10
  <1>11. CASE Untried(w, m) /\ ~Untried(w, m)'
    <2>1. attempts'[m] = attempts[m] + 1 \/ faults' = faults + 1
      BY <1>8, <1>11
    <2>2. D = C - 1
      BY <1>5, <1>11
    <2>3. QED
      BY <1>4, <1>6, <1>7, <1>11, <2>1, <2>2
  <1>12. CASE ~Untried(w, m) /\ ~Untried(w, m)'
    BY <1>4, <1>5, <1>6, <1>7, <1>12
  <1>13. QED
    BY <1>9, <1>10, <1>11, <1>12

\* A step of nobody in particular leaves every tally alone.
LEMMA TallyStands ==
    ASSUME UNCHANGED <<pc, cur, batch, attempts, faults>>
    PROVE  \A m : Triers(m)' = Triers(m) /\ Tally(m)' = Tally(m)
  BY DEF Triers, Tally, Untried, Elements

\* What the acting worker itself does to its flags.
LEMMA OwnFlags ==
    ASSUME TypeOK, NEW w \in Workers, Step(w) \/ Faulty(w)
    PROVE  /\ stopping'[w] => stopping[w] \/ faults' = faults + 1
           /\ pc'[w] = "park" => CountAttempts(w) \/ (pc[w] = "park" /\ cur'[w] = cur[w])
  <1> DEFINE Flags == /\ stopping'[w] => stopping[w] \/ faults' = faults + 1
                      /\ pc'[w] = "park" => CountAttempts(w) \/ (pc[w] = "park" /\ cur'[w] = cur[w])
  <1>1. ASSUME NEW p \in {"poll", "top", "down"}, Release(w, p) PROVE pc'[w] # "park"
    BY <1>1, ReleaseFrame
  <1>2. CASE EndDrain(w) \/ PollEmpty(w) \/ Exit(w) \/ RedisFails(w)
    BY <1>1, <1>2 DEF EndDrain, PollEmpty, Exit, RedisFails
  <1>3. CASE Crash(w)
    BY <1>1, <1>3, SMT DEF Crash, TypeOK
  <1>4. CASE ReplyLost(w)
    BY <1>1, <1>4 DEF ReplyLost, ReadReplyLost, ClaimReplyLost, AckReplyLost, workerVars
  <1>5. CASE Sigterm(w) \/ Restart(w) \/ Reclaim(w) \/ TakeReclaimed(w)
    BY <1>5, SMT DEF TypeOK, Sigterm, Restart, Reclaim, TakeReclaimed
  <1>6. CASE Succeed(w) \/ CountAttempts(w) \/ Park(w)
    BY <1>6, SMT DEF TypeOK, Succeed, CountAttempts, Park
  <1>7. CASE Deliver(w)
    <2>1. CASE stopping[w]
      BY <1>1, <1>7, <2>1 DEF Deliver
    <2>2. CASE ~stopping[w]
      BY <1>7, <2>2, SMT DEF Deliver, TypeOK
    <2>3. QED
      BY <2>1, <2>2
  <1>8. CASE Fail(w) \/ Ack(w)
    <2>1. CASE reclaimed[w]
      BY <1>8, <2>1, SMT DEF Fail, Ack, TypeOK
    <2>2. CASE ~reclaimed[w]
      BY <1>1, <1>8, <2>2 DEF Fail, Ack
    <2>3. QED
      BY <2>1, <2>2
  <1>9. QED
    BY <1>2, <1>3, <1>4, <1>5, <1>6, <1>7, <1>8 DEF Step, Faulty

\* What a claim hands out was pending, and was not before the worker that claims it.
LEMMA ClaimFacts ==
    ASSUME ShapeInv, NEW w \in Workers, Reclaim(w) \/ ClaimReplyLost(w)
    PROVE  /\ cursor' = cursor /\ pending' = pending
           /\ \A m \in Msgs : /\ ~Untried(w, m)
                              /\ \/ times'[m] = times[m]
                                 \/ /\ m \in pending /\ times'[m] = times[m] + 1
                                    /\ Reclaim(w) => Untried(w, m)'
  <1>1. TypeOK /\ Shaped(w)
    BY DEF ShapeInv, SafeInv
  <1>2. PICK s \in Claims : IsClaim(s) /\ Assign(w, Elements(s)) /\ (Reclaim(w) => batch' = [batch EXCEPT ![w] = s])
    BY DEF Reclaim, ClaimReplyLost
  <1>3. Elements(s) \subseteq pending
    BY <1>1, <1>2, ClaimElements DEF Abandoned
  <1>4. \A m : ~Untried(w, m)
    <2>1. pc[w] = "top" /\ batch[w] = <<>>
      BY <1>1 DEF Reclaim, ClaimReplyLost, Shaped, Idling
    <2>2. QED
      BY <2>1, NothingUntried
  <1>5. Reclaim(w) => \A m \in Elements(s) : Untried(w, m)'
    <2>1. Reclaim(w) => batch'[w] = s
      BY <1>1, <1>2, SMT DEF TypeOK
    <2>2. QED
      BY <2>1 DEF Untried, Elements
  <1>6. \A m \in Msgs : times'[m] = times[m] \/ (m \in Elements(s) /\ times'[m] = times[m] + 1)
    BY <1>2, SMT DEF Assign
  <1>7. cursor' = cursor /\ pending' = pending
    BY DEF Reclaim, ClaimReplyLost
  <1>8. QED
    BY <1>3, <1>4, <1>5, <1>6, <1>7

\* What a read hands out was never delivered.
LEMMA ReadFacts ==
    ASSUME TypeOK, Undelivered, cursor < published, NEW w \in Workers, ReadNext(w)
    PROVE  /\ cursor' = cursor + 1 /\ pending' = pending \cup {cursor + 1}
           /\ cursor + 1 \in Msgs /\ times'[cursor + 1] = 1
           /\ \A m \in Msgs \ {cursor + 1} : times'[m] = times[m]
  <1>1. cursor \in Nat
    BY CountTypes
  <1>2. cursor + 1 \in Msgs /\ cursor' = cursor + 1 /\ pending' = pending \cup {cursor + 1}
    BY ReadNextFacts
  <1>3. times[cursor + 1] = 0
    BY <1>1, <1>2 DEF Undelivered
  <1>4. QED
    BY <1>2, <1>3, SMT DEF ReadNext, Assign, TypeOK

\* Three kinds of steps: those that deliver nothing, a read, and a claim.
LEMMA Deliveries ==
    ASSUME NEW w \in Workers, Step(w) \/ Faulty(w)
    PROVE  \/ UNCHANGED <<times, cursor>> /\ pending' \subseteq pending
           \/ cursor < published /\ ReadNext(w) /\ (Deliver(w) \/ Faulty(w))
           \/ (Reclaim(w) \/ (ClaimReplyLost(w) /\ Faulty(w)))
  <1>1. ASSUME Step(w), ~Deliver(w), ~Reclaim(w) PROVE UNCHANGED <<times, cursor>> /\ pending' \subseteq pending
    BY <1>1 DEF Step, TakeReclaimed, EndDrain, PollEmpty, Succeed, Fail, CountAttempts, Park, Ack, Exit, Restart, redisVars
  <1>2. ASSUME Faulty(w), ~ReplyLost(w) PROVE UNCHANGED <<times, cursor>> /\ pending' \subseteq pending
    BY <1>2 DEF Faulty, RedisFails, Crash, Sigterm, redisVars
  <1>3. ASSUME AckReplyLost(w) PROVE UNCHANGED <<times, cursor>> /\ pending' \subseteq pending
    BY <1>3 DEF AckReplyLost
  <1>4. ASSUME Deliver(w) \/ ReadReplyLost(w) PROVE cursor < published /\ ReadNext(w)
    BY <1>4 DEF Deliver, ReadReplyLost
  <1>5. ASSUME ReplyLost(w) PROVE ReadReplyLost(w) \/ ClaimReplyLost(w) \/ AckReplyLost(w)
    BY <1>5 DEF ReplyLost
  <1>6. QED
    BY <1>1, <1>2, <1>3, <1>4, <1>5 DEF Faulty

LEMMA UndeliveredKept ==
    ASSUME AttemptsInv, NEW w \in Workers, Step(w) \/ Faulty(w) PROVE Undelivered'
  <1>1. TypeOK /\ ShapeInv /\ Undelivered /\ cursor \in Nat /\ \A m \in pending : m <= cursor
    BY CountTypes DEF AttemptsInv, ShapeInv, SafeInv
  <1>2. CASE UNCHANGED <<times, cursor>>
    BY <1>1, <1>2 DEF Undelivered
  <1>3. CASE cursor < published /\ ReadNext(w)
    <2>1. cursor' = cursor + 1 /\ \A m \in Msgs \ {cursor + 1} : times'[m] = times[m]
      BY <1>1, <1>3, ReadFacts
    <2>2. SUFFICES ASSUME NEW m \in Msgs, m > cursor' PROVE times'[m] = 0
      BY DEF Undelivered
    <2>3. m # cursor + 1 /\ m > cursor
      BY <1>1, <2>1, <2>2, QueueConstants DEF Msgs
    <2>4. QED
      BY <1>1, <2>1, <2>3 DEF Undelivered
  <1>4. CASE Reclaim(w) \/ ClaimReplyLost(w)
    <2>1. cursor' = cursor /\ \A m \in Msgs : times'[m] = times[m] \/ m \in pending
      BY <1>1, <1>4, ClaimFacts
    <2>2. QED
      BY <1>1, <2>1, QueueConstants DEF Undelivered, Msgs
  <1>5. QED
    BY <1>2, <1>3, <1>4, Deliveries

LEMMA CountedKept ==
    ASSUME AttemptsInv, TypeOK', Next, NEW w \in Workers, Step(w) \/ Faulty(w)
    PROVE  Counted' /\ Finite'
  <1>1. TypeOK /\ ShapeInv /\ Shaped(w) /\ Undelivered /\ Counted /\ Told /\ Finite /\ pending \subseteq Msgs
    BY CountTypes DEF AttemptsInv, ShapeInv, SafeInv
  <1>2. \A m \in Msgs :
           /\ IsFiniteSet(Triers(m)') /\ Tally(m) \in Nat /\ Tally(m)' \in Nat /\ Tally(m)' >= Tally(m)
           /\ ~Untried(w, m) /\ Untried(w, m)' => Tally(m)' >= Tally(m) + 1 /\ Tally(m)' >= 1
           /\ faults' = faults + 1 /\ (Untried(w, m) => Untried(w, m)') => Tally(m)' >= Tally(m) + 1
    BY <1>1, TallyGrows DEF Finite
  <1>3. Finite'
    BY <1>2 DEF Finite
  <1>4. Faulty(w) => faults' = faults + 1
    BY DEF Faulty, RedisFails, ReplyLost, Crash, Sigterm
  <1>5. \A m \in Msgs : times[m] \in Nat /\ faults \in Nat
    BY <1>1, CountTypes
  <1>6. ASSUME NEW m \in pending, times'[m] = times[m] PROVE times'[m] <= Tally(m)'
    <2>1. m \in Msgs /\ times[m] <= Tally(m)
      BY <1>1 DEF Counted
    <2>2. QED
      BY <1>2, <1>5, <1>6, <2>1
  <1>7. CASE UNCHANGED <<times, cursor>> /\ pending' \subseteq pending
    BY <1>3, <1>6, <1>7 DEF Counted
  <1>8. CASE cursor < published /\ ReadNext(w) /\ (Deliver(w) \/ Faulty(w))
    <2>1. /\ pending' = pending \cup {cursor + 1} /\ cursor + 1 \in Msgs /\ times'[cursor + 1] = 1
          /\ \A m \in Msgs \ {cursor + 1} : times'[m] = times[m]
      BY <1>1, <1>8, ReadFacts
    <2>2. PICK n \in Msgs : n = cursor + 1 /\ times'[n] = 1
      BY <2>1
    <2>3. Tally(n)' >= 1
      <3>1. faults' >= 1 => Tally(n)' >= 1
        <4>1. /\ Cardinality(Triers(n)') \in Nat /\ attempts'[n] \in Nat /\ faults' \in Nat
              /\ Tally(n)' = attempts'[n] + Cardinality(Triers(n)') + faults'
          BY <1>2, FS_CardinalityType DEF Tally, TypeOK
        <4>2. QED
          BY <4>1
      <3>2. CASE Faulty(w)
        BY <1>4, <1>5, <2>2, <3>1, <3>2
      <3>3. CASE Deliver(w) /\ stopping[w]
        <4>1. faults >= 1
          BY <1>1, <3>3 DEF Told
        <4>2. faults' = faults
          BY <3>3 DEF Deliver
        <4>3. QED
          BY <3>1, <4>1, <4>2
      <3>4. CASE Deliver(w) /\ ~stopping[w]
        <4>1. cur'[w] = n /\ pc'[w] = "run"
          BY <1>1, <2>2, <3>4, SMT DEF Deliver, TypeOK
        <4>2. Untried(w, n)'
          BY <4>1 DEF Untried
        <4>3. batch[w] = <<>> /\ pc[w] # "run"
          BY <1>1, <3>4 DEF Deliver, Shaped, Idling
        <4>4. QED
          BY <1>2, <4>2, <4>3, NothingUntried
      <3>5. QED
        BY <1>8, <3>2, <3>3, <3>4
    <2>4. QED
      BY <1>1, <1>3, <1>6, <2>1, <2>2, <2>3 DEF Counted
  <1>9. CASE Reclaim(w) \/ (ClaimReplyLost(w) /\ Faulty(w))
    <2>1. /\ pending' = pending
          /\ \A m \in Msgs : /\ ~Untried(w, m)
                             /\ \/ times'[m] = times[m]
                                \/ /\ m \in pending /\ times'[m] = times[m] + 1
                                   /\ Reclaim(w) => Untried(w, m)'
      BY <1>1, <1>9, ClaimFacts
    <2>2. ASSUME NEW m \in pending PROVE times'[m] <= Tally(m)'
      <3>1. m \in Msgs /\ times[m] <= Tally(m)
        BY <1>1 DEF Counted
      <3>2. CASE times'[m] = times[m]
        BY <1>6, <3>2
      <3>3. CASE times'[m] = times[m] + 1 /\ (Reclaim(w) => Untried(w, m)')
        <4>1. Tally(m)' >= Tally(m) + 1
          BY <1>2, <1>4, <1>9, <2>1, <3>1, <3>3
        <4>2. QED
          BY <1>2, <1>5, <3>1, <3>3, <4>1
      <3>4. QED
        BY <2>1, <3>1, <3>2, <3>3
    <2>3. QED
      BY <1>3, <2>1, <2>2 DEF Counted
  <1>10. QED
    BY <1>7, <1>8, <1>9, Deliveries

LEMMA GivingKept ==
    ASSUME AttemptsInv, TypeOK', Next, NEW v \in Workers, Step(v) \/ Faulty(v)
    PROVE  Told' /\ Giving' /\ ParkedAfterAttempts'
  <1>1. TypeOK /\ InHand /\ Shaped(v) /\ Told /\ Giving /\ ParkedAfterAttempts /\ Counted /\ Finite
    BY DEF AttemptsInv, ShapeInv, SafeInv
  <1>2. \A m \in Msgs : Tally(m) \in Nat /\ Tally(m)' \in Nat /\ Tally(m)' >= Tally(m)
    BY <1>1, TallyGrows DEF Finite
  <1>3. faults' \in {faults, faults + 1} /\ faults \in Nat
    BY <1>1, CountsGrow, CountTypes
  <1>4. ASSUME NEW w \in Workers \ {v} PROVE Stands(w)
    BY <1>1, <1>4, OthersStand
  <1>5. /\ stopping'[v] => stopping[v] \/ faults' = faults + 1
        /\ pc'[v] = "park" => CountAttempts(v) \/ (pc[v] = "park" /\ cur'[v] = cur[v])
    BY <1>1, OwnFlags
  <1>6. Told'
    <2>1. SUFFICES ASSUME NEW w \in Workers, stopping'[w] PROVE faults' >= 1
      BY DEF Told
    <2>2. stopping[w] \/ faults' = faults + 1
      BY <1>4, <1>5, <2>1 DEF Stands
    <2>3. QED
      BY <1>1, <1>3, <2>2 DEF Told
  <1>7. ASSUME NEW w \in Workers, pc[w] \in Busy PROVE cur[w] \in Msgs
    <2>1. cur[w] \in 1..cursor /\ cursor \in 0..NumMsgs
      BY <1>1, <1>7, QueueConstants, SMT DEF InHand, TypeOK
    <2>2. QED
      BY <2>1, QueueConstants DEF Msgs
  <1>8. ASSUME CountAttempts(v), pc'[v] = "park"
        PROVE  cur[v] \in Msgs /\ cur'[v] = cur[v] /\ Tally(cur[v]) >= MaxAttempts
    <2>1. cur[v] \in Msgs /\ cur'[v] = cur[v]
      BY <1>7, <1>8 DEF CountAttempts, Busy
    <2>2. DeliveryCount(cur[v]) >= MaxAttempts
      BY <1>1, <1>8, SMT DEF CountAttempts, TypeOK
    <2>3. cur[v] \in pending /\ times[cur[v]] >= MaxAttempts
      BY <2>2, QueueConstants DEF DeliveryCount
    <2>4. times[cur[v]] <= Tally(cur[v]) /\ times[cur[v]] \in Nat
      BY <1>1, <2>1, <2>3, CountTypes DEF Counted
    <2>5. QED
      BY <1>2, <2>1, <2>3, <2>4, QueueConstants
  <1>9. ASSUME NEW w \in Workers, pc'[w] = "park" PROVE Tally(cur[w])' >= MaxAttempts
    <2>1. PICK m \in Msgs : m = cur[w] /\ m = cur'[w] /\ Tally(m) >= MaxAttempts
      <3>1. CASE pc[w] = "park" /\ cur'[w] = cur[w]
        BY <1>1, <1>7, <3>1 DEF Giving, Busy
      <3>2. CASE w = v /\ CountAttempts(v)
        BY <1>8, <1>9, <3>2
      <3>3. QED
        BY <1>4, <1>5, <1>9, <3>1, <3>2 DEF Stands
    <2>2. Tally(m)' >= MaxAttempts
      BY <1>2, <2>1, QueueConstants
    <2>3. QED
      BY <2>1, <2>2 DEF Tally, Triers, Untried
  <1>10. ASSUME NEW m \in parked' PROVE Tally(m)' >= MaxAttempts
    <2>1. m \in Msgs /\ Tally(m) >= MaxAttempts
      <3>1. CASE m \in parked
        BY <1>1, <3>1, CountTypes DEF ParkedAfterAttempts, Tally, Triers
      <3>2. CASE m \notin parked
        <4>1. Park(v)
          BY <1>10, <3>2
          DEF resultVars, Step, Faulty, Reclaim, TakeReclaimed, EndDrain, Deliver, PollEmpty, Succeed,
              Fail, CountAttempts, Ack, Exit, Restart, RedisFails, ReplyLost, ReadReplyLost, ClaimReplyLost,
              AckReplyLost, Crash, Sigterm
        <4>2. m = cur[v] /\ pc[v] = "park"
          BY <1>10, <3>2, <4>1 DEF Park
        <4>3. QED
          BY <1>1, <1>7, <4>2 DEF Giving, Busy
      <3>3. QED
        BY <3>1, <3>2
    <2>2. QED
      BY <1>2, <2>1, QueueConstants
  <1>11. QED
    BY <1>6, <1>9, <1>10 DEF Giving, ParkedAfterAttempts, Tally, Triers

LEMMA AttemptsInit == Init => AttemptsInv
  <1> SUFFICES ASSUME Init PROVE AttemptsInv
    OBVIOUS
  <1>1. pending = {} /\ parked = {} /\ \A m \in Msgs : times[m] = 0
    BY DEF Init
  <1>2. \A w \in Workers : pc[w] = "top" /\ stopping[w] = FALSE /\ batch[w] = <<>>
    BY DEF Init
  <1>3. Finite
    <2>1. \A m : Triers(m) = {}
      BY <1>2, NothingUntried DEF Triers
    <2>2. QED
      BY <2>1, FS_EmptySet DEF Finite
  <1>4. QED
    BY <1>1, <1>2, <1>3, ShapeInit
    DEF AttemptsInv, Counted, Undelivered, Told, Giving, ParkedAfterAttempts

LEMMA AttemptsStep == AttemptsInv /\ [Next]_vars => AttemptsInv'
  <1> SUFFICES ASSUME AttemptsInv, [Next]_vars PROVE AttemptsInv'
    OBVIOUS
  <1>1. ShapeInv'
    BY ShapeStep DEF AttemptsInv
  <1>2. ASSUME NEW w \in Workers, Step(w) \/ Faulty(w), Next PROVE AttemptsInv'
    <2>1. TypeOK'
      BY <1>1 DEF ShapeInv, SafeInv
    <2>2. QED
      BY <1>1, <1>2, <2>1, CountedKept, UndeliveredKept, GivingKept DEF AttemptsInv
  <1>3. CASE Publish \/ Tick \/ UNCHANGED vars
    <2>1. UNCHANGED <<pc, cur, batch, attempts, faults, times, cursor, pending, parked, stopping>>
      BY <1>3, Zenon DEF Publish, Tick, vars, redisVars, workerVars, resultVars
    <2>2. \A m : Triers(m)' = Triers(m) /\ Tally(m)' = Tally(m)
      BY <2>1, TallyStands
    <2>3. Counted' /\ Undelivered' /\ Told' /\ Finite'
      BY <2>1, <2>2, Zenon DEF AttemptsInv, Counted, Undelivered, Told, Finite
    <2>4. Giving'
      <3>1. SUFFICES ASSUME NEW w \in Workers, pc'[w] = "park" PROVE Tally(cur[w])' >= MaxAttempts
        BY DEF Giving
      <3>2. Tally(cur[w])' = Tally(cur[w])
        BY <2>1 DEF Tally, Triers, Untried, Elements
      <3>3. QED
        BY <2>1, <3>1, <3>2 DEF AttemptsInv, Giving
    <2>5. ParkedAfterAttempts'
      <3>1. SUFFICES ASSUME NEW m \in parked PROVE Tally(m)' >= MaxAttempts
        BY <2>1 DEF ParkedAfterAttempts, Tally, Triers
      <3>2. QED
        BY <2>2, <3>1 DEF AttemptsInv, ParkedAfterAttempts, Tally, Triers
    <2>6. QED
      BY <1>1, <2>3, <2>4, <2>5 DEF AttemptsInv
  <1>4. QED
    BY <1>2, <1>3 DEF Next, Faulty

\* The deliveries for which a message is parked (times_delivered, which CountAttempts
\* compares with the limit: shared/base_worker.py, _recover_stale_messages) are attempts that
\* ended, attempts that replicas have before them, and deliveries a fault used up.  No
\* timing is assumed: a message may be in several hands.
THEOREM ParkedForItsDeliveries == Spec => []ParkedAfterAttempts
  <1>1. AttemptsInv => ParkedAfterAttempts
    BY DEF AttemptsInv
  <1>2. QED
    BY <1>1, AttemptsInit, AttemptsStep, PTL DEF Spec

-----------------------------------------------------------------------------
(* The queue implements AtLeastOnce, whatever the timing.                  *)

Hands  == [w \in Workers |-> Hand(w)]
Closed == (1..cursor) \ pending

LEMMA EmptyHand == ASSUME NEW w \in Workers, batch[w] = <<>>, pc[w] \notin Busy PROVE Hand(w) = {}
  BY SMT DEF Hand, Elements, Busy

LEMMA EmptyHandNext == ASSUME NEW w \in Workers, batch'[w] = <<>>, pc'[w] \notin Busy PROVE Hand(w)' = {}
  BY SMT DEF Hand, Elements, Busy

\* A step of one worker changes what that one holds.
LEMMA OneHand ==
    ASSUME TypeOK, NEW v \in Workers, Step(v) \/ Faulty(v)
    PROVE  Hands' = [Hands EXCEPT ![v] = Hand(v)']
  <1>1. ASSUME NEW w \in Workers \ {v} PROVE Hand(w)' = Hand(w)
    <2>1. cur'[w] = cur[w] /\ pc'[w] = pc[w] /\ batch'[w] = batch[w]
      BY OthersStand DEF Stands
    <2>2. QED
      BY <2>1 DEF Hand, Elements
  <1>2. \A w \in Workers : Hands'[w] = [Hands EXCEPT ![v] = Hand(v)'][w]
    BY <1>1 DEF Hands
  <1>3. QED
    BY <1>2 DEF Hands

\* A worker is only ever handed anything by a claim or a read, with nothing in hand.
LEMMA HandShrinks ==
    ASSUME TypeOK, NEW w \in Workers, Shaped(w), Step(w) \/ Faulty(w),
           ~Reclaim(w), ~(Deliver(w) /\ ~stopping[w])
    PROVE  Hand(w)' \subseteq Hand(w)
  <1>1. ASSUME NEW p \in {"poll", "top", "down"}, Release(w, p) PROVE Hand(w)' = {}
    <2>1. batch'[w] = <<>> /\ pc'[w] = p
      BY <1>1, ReleaseFrame
    <2>2. QED
      BY <2>1, EmptyHandNext, SMT DEF Busy
  <1>2. CASE EndDrain(w) \/ PollEmpty(w) \/ Exit(w) \/ RedisFails(w) \/ Crash(w) \/ AckReplyLost(w)
    BY <1>1, <1>2 DEF EndDrain, PollEmpty, Exit, RedisFails, Crash, AckReplyLost
  <1>3. CASE ReadReplyLost(w) \/ ClaimReplyLost(w) \/ Sigterm(w)
    BY <1>3 DEF ReadReplyLost, ClaimReplyLost, Sigterm, workerVars, Hand, Elements
  <1>4. CASE Restart(w)
    <2>1. pc'[w] = "top" /\ batch'[w] = <<>>
      BY <1>4, SMT DEF Restart, TypeOK, Shaped, Idling
    <2>2. QED
      BY <2>1, EmptyHandNext, SMT DEF Busy
  <1>5. CASE TakeReclaimed(w)
    <2>1. cur'[w] \in Elements(batch[w])
      BY <1>5, HeadTaken DEF Elements
    <2>2. Elements(batch[w])' \subseteq Elements(batch[w])
      BY <1>5, HeadTaken DEF Elements
    <2>3. QED
      BY <2>1, <2>2 DEF Hand
  <1>6. CASE Deliver(w)
    BY <1>1, <1>6 DEF Deliver
  <1>7. CASE (Fail(w) \/ Ack(w)) /\ ~reclaimed[w]
    BY <1>1, <1>7 DEF Fail, Ack
  <1>8. CASE Succeed(w) \/ CountAttempts(w) \/ Park(w) \/ ((Fail(w) \/ Ack(w)) /\ reclaimed[w])
    <2>1. UNCHANGED <<cur, batch>>
      BY <1>8 DEF Succeed, CountAttempts, Park, Fail, Ack
    <2>2. pc[w] \in Busy
      BY <1>8 DEF Succeed, CountAttempts, Park, Fail, Ack, Busy
    <2>3. QED
      BY <2>1, <2>2 DEF Hand, Elements, Busy
  <1>9. QED
    BY <1>2, <1>3, <1>4, <1>5, <1>6, <1>7, <1>8 DEF Step, Faulty, ReplyLost

\* Removing a worker's entry from the pending list settles it.
LEMMA AckSettles ==
    ASSUME ShapeInv, NEW w \in Workers, Ack(w) \/ AckReplyLost(w), Step(w) \/ Faulty(w)
    PROVE  Promise!Settle(w)
  <1>1. TypeOK /\ Shaped(w) /\ InHand
    BY DEF ShapeInv, SafeInv
  <1>2. pc[w] = "ack" /\ pending' = pending \ {cur[w]} /\ UNCHANGED <<published, cursor, resultVars>>
    BY DEF Ack, AckReplyLost
  <1>3. cur[w] \in Hand(w) /\ cur[w] \in 1..cursor /\ cur[w] \in done \cup parked
    BY <1>1, <1>2 DEF Hand, InHand, Busy
  <1>4. Closed' = Closed \cup {cur[w]}
    BY <1>2, <1>3 DEF Closed
  <1>5. Hand(w)' \subseteq Hand(w) \ {cur[w]}
    <2>1. CASE Ack(w) /\ reclaimed[w]
      <3>1. pc'[w] = "drain" /\ UNCHANGED <<cur, batch>>
        BY <1>1, <2>1, SMT DEF Ack, TypeOK
      <3>2. cur[w] \notin Elements(batch[w])
        BY <1>1, <1>2 DEF Shaped, Distinct, Elements, Busy
      <3>3. QED
        BY <3>1, <3>2 DEF Hand, Elements
    <2>2. CASE AckReplyLost(w) \/ ~reclaimed[w]
      <3>1. PICK p \in {"poll", "top"} : Release(w, p)
        BY <2>2 DEF Ack, AckReplyLost
      <3>2. batch'[w] = <<>> /\ pc'[w] = p
        BY <1>1, <3>1, ReleaseFrame
      <3>3. QED
        BY <3>2, EmptyHandNext, SMT DEF Busy
    <2>3. QED
      BY <2>1, <2>2
  <1>6. Hands[w] = Hand(w)
    BY DEF Hands
  <1>7. Hands' = [Hands EXCEPT ![w] = Hand(w)']
    BY <1>1, OneHand
  <1>8. \E m \in Hands[w] :
           /\ m \in done \cup parked
           /\ Closed' = Closed \cup {m}
           /\ \E S \in SUBSET (Hands[w] \ {m}) : Hands' = [Hands EXCEPT ![w] = S]
    BY <1>3, <1>4, <1>5, <1>6, <1>7
  <1>9. QED
    BY <1>2, <1>8 DEF Promise!Settle, Hands, Closed, resultVars

\* A delivery to empty hands, of messages that are still open.
LEMMA ClaimTakes ==
    ASSUME ShapeInv, NEW w \in Workers, Reclaim(w) PROVE Promise!Take(w)
  <1>1. TypeOK /\ Shaped(w)
    BY DEF ShapeInv, SafeInv
  <1>2. PICK s \in Claims : IsClaim(s) /\ batch' = [batch EXCEPT ![w] = s]
    BY DEF Reclaim
  <1>3. Elements(s) \subseteq pending
    BY <1>1, <1>2, ClaimElements DEF Abandoned
  <1>4. pending \subseteq (1..published) \ Closed
    BY <1>1, QueueConstants, SMT DEF TypeOK, Closed
  <1>5. Hand(w)' = Elements(s)
    <2>1. pc'[w] = "drain" /\ batch'[w] = s
      BY <1>1, <1>2, SMT DEF Reclaim, TypeOK
    <2>2. QED
      BY <2>1 DEF Hand, Elements
  <1>6. Hand(w) = {}
    <2>1. pc[w] = "top" /\ batch[w] = <<>>
      BY <1>1 DEF Reclaim, Shaped, Idling
    <2>2. QED
      BY <2>1, EmptyHand DEF Busy
  <1>7. Hands' = [Hands EXCEPT ![w] = Hand(w)']
    BY <1>1, OneHand DEF Step
  <1>8. \E S \in SUBSET ((1..published) \ Closed) : Hands' = [Hands EXCEPT ![w] = S]
    BY <1>3, <1>4, <1>5, <1>7
  <1>9. Hands[w] = {} /\ Closed' = Closed /\ UNCHANGED <<published, done, parked>>
    BY <1>6 DEF Reclaim, Hands, Closed, resultVars
  <1>10. QED
    BY <1>8, <1>9 DEF Promise!Take, Promise!Open, Hands, Closed

LEMMA ReadSettlesNothing ==
    ASSUME TypeOK, NEW w \in Workers, cursor < published, ReadNext(w)
    PROVE  Closed' = Closed
  <1>1. cursor' = cursor + 1 /\ pending' = pending \cup {cursor + 1}
    BY ReadNextFacts
  <1>2. cursor \in Nat /\ pending \subseteq 1..cursor
    BY QueueConstants, SMT DEF TypeOK
  <1>3. 1..(cursor + 1) = (1..cursor) \cup {cursor + 1} /\ cursor + 1 \notin 1..cursor
    BY <1>2
  <1>4. QED
    BY <1>1, <1>2, <1>3, Zenon DEF Closed

LEMMA ReadTakes ==
    ASSUME ShapeInv, NEW w \in Workers, Deliver(w), ~stopping[w] PROVE Promise!Take(w)
  <1>1. TypeOK /\ Shaped(w)
    BY DEF ShapeInv, SafeInv
  <1>2. Hand(w) = {} /\ batch[w] = <<>>
    <2>1. pc[w] = "poll" /\ batch[w] = <<>>
      BY <1>1 DEF Deliver, Shaped, Idling
    <2>2. QED
      BY <2>1, EmptyHand DEF Busy
  <1>3. Hand(w)' = {cursor + 1}
    <2>1. pc'[w] = "run" /\ cur'[w] = cursor + 1 /\ batch'[w] = <<>>
      BY <1>1, <1>2, SMT DEF Deliver, TypeOK
    <2>2. QED
      BY <2>1, SMT DEF Hand, Elements
  <1>4. cursor + 1 \in (1..published) \ Closed
    BY <1>1, QueueConstants, SMT DEF Deliver, TypeOK, Closed
  <1>5. Hands' = [Hands EXCEPT ![w] = Hand(w)']
    BY <1>1, OneHand DEF Step
  <1>6. \E S \in SUBSET ((1..published) \ Closed) : Hands' = [Hands EXCEPT ![w] = S]
    BY <1>3, <1>4, <1>5
  <1>7. Closed' = Closed
    BY <1>1, ReadSettlesNothing DEF Deliver
  <1>8. Hands[w] = {} /\ UNCHANGED <<published, done, parked>>
    BY <1>2 DEF Deliver, Hands, resultVars
  <1>9. QED
    BY <1>6, <1>7, <1>8 DEF Promise!Take, Promise!Open, Hands, Closed

\* An attempt that succeeded, and a message written to the dead-letter stream.
LEMMA ResultMaps ==
    ASSUME ShapeInv, NEW w \in Workers, Succeed(w) \/ Park(w)
    PROVE  Promise!Handle(w) \/ Promise!Park(w)
  <1>1. TypeOK
    BY DEF ShapeInv, SafeInv
  <1>2. pc[w] \in Busy /\ pc'[w] \in Busy /\ UNCHANGED <<cur, batch, published, cursor, pending>>
    BY <1>1, SMT DEF Succeed, Park, redisVars, Busy, TypeOK
  <1>3. cur[w] \in Hands[w] /\ Hand(w)' = Hands[w]
    BY <1>2 DEF Hand, Hands, Elements, Busy
  <1>4. Hands' = Hands
    <2>1. Hands' = [Hands EXCEPT ![w] = Hands[w]]
      BY <1>1, <1>3, OneHand DEF Step
    <2>2. Hands \in [Workers -> {Hands[v] : v \in Workers}]
      BY DEF Hands
    <2>3. QED
      BY <2>1, <2>2
  <1>5. Closed' = Closed
    BY <1>2 DEF Closed
  <1>6. CASE Succeed(w)
    BY <1>2, <1>3, <1>4, <1>5, <1>6 DEF Succeed, Promise!Handle, Hands, Closed
  <1>7. CASE Park(w)
    BY <1>2, <1>3, <1>4, <1>5, <1>7 DEF Park, Promise!Park, Hands, Closed
  <1>8. QED
    BY <1>6, <1>7

\* Everything else lets go of some messages, or of none.
LEMMA RestLetsGo ==
    ASSUME ShapeInv, NEW w \in Workers, Step(w) \/ Faulty(w), ~Reclaim(w),
           ~(Deliver(w) /\ ~stopping[w]), ~Succeed(w), ~Park(w), ~Ack(w), ~AckReplyLost(w)
    PROVE  Promise!LetGo(w)
  <1>1. TypeOK /\ Shaped(w)
    BY DEF ShapeInv, SafeInv
  <1>2. Hand(w)' \subseteq Hand(w)
    BY <1>1, HandShrinks
  <1>3. Hands' = [Hands EXCEPT ![w] = Hand(w)'] /\ Hands[w] = Hand(w)
    BY <1>1, OneHand DEF Hands
  <1>4. UNCHANGED <<published, done, parked>>
    BY DEF Step, Faulty, ReplyLost, TakeReclaimed, EndDrain, Deliver, PollEmpty, Fail, CountAttempts,
           Exit, Restart, RedisFails, Crash, Sigterm, ReadReplyLost, ClaimReplyLost, redisVars, resultVars
  <1>5. Closed' = Closed
    <2>1. CASE Deliver(w) \/ ReadReplyLost(w)
      BY <1>1, <2>1, ReadSettlesNothing DEF Deliver, ReadReplyLost
    <2>2. CASE ~Deliver(w) /\ ~ReadReplyLost(w)
      <3>1. UNCHANGED <<cursor, pending>>
        BY <2>2 DEF Step, Faulty, ReplyLost, TakeReclaimed, EndDrain, PollEmpty, Fail, CountAttempts,
                    Exit, Restart, RedisFails, Crash, Sigterm, ClaimReplyLost, redisVars
      <3>2. QED
        BY <3>1 DEF Closed
    <2>3. QED
      BY <2>1, <2>2
  <1>6. \E S \in SUBSET Hands[w] : Hands' = [Hands EXCEPT ![w] = S]
    BY <1>2, <1>3
  <1>7. QED
    BY <1>4, <1>5, <1>6 DEF Promise!LetGo, Hands, Closed

LEMMA PromiseInit == Init => Promise!Init
  <1> SUFFICES ASSUME Init PROVE Promise!Init
    OBVIOUS
  <1>1. ASSUME NEW w \in Workers PROVE Hand(w) = {}
    BY EmptyHand DEF Init, Busy
  <1>2. Hands = [w \in Workers |-> {}]
    BY <1>1 DEF Hands
  <1>3. Closed = {}
    BY SMT DEF Init, Closed
  <1>4. QED
    BY <1>2, <1>3 DEF Init, Promise!Init, Hands, Closed

LEMMA PromiseStep == ShapeInv /\ [Next]_vars => [Promise!Next]_(Promise!vars)
  <1> SUFFICES ASSUME ShapeInv, [Next]_vars PROVE [Promise!Next]_(Promise!vars)
    OBVIOUS
  <1>1. CASE Publish
    <2>1. UNCHANGED <<Hands, Closed>>
      BY <1>1 DEF Publish, workerVars, Hands, Hand, Elements, Closed
    <2>2. Promise!Send
      BY <1>1, <2>1 DEF Publish, Promise!Send, resultVars, Hands, Closed
    <2>3. QED
      BY <2>2 DEF Promise!Next
  <1>2. CASE Tick \/ UNCHANGED vars
    <2>1. UNCHANGED <<published, cursor, pending, pc, cur, batch, done, parked>>
      BY <1>2 DEF Tick, vars, redisVars, workerVars, resultVars
    <2>2. QED
      BY <2>1 DEF Promise!vars, Hand, Elements
  <1>3. ASSUME NEW w \in Workers, Step(w) \/ Faulty(w) PROVE Promise!Next
    <2>1. CASE Reclaim(w)
      BY <2>1, ClaimTakes DEF Promise!Next
    <2>2. CASE Deliver(w) /\ ~stopping[w]
      BY <2>2, ReadTakes DEF Promise!Next
    <2>3. CASE Succeed(w) \/ Park(w)
      BY <2>3, ResultMaps DEF Promise!Next
    <2>4. CASE Ack(w) \/ AckReplyLost(w)
      BY <1>3, <2>4, AckSettles DEF Promise!Next
    <2>5. CASE ~Reclaim(w) /\ ~(Deliver(w) /\ ~stopping[w]) /\ ~Succeed(w) /\ ~Park(w) /\ ~Ack(w) /\ ~AckReplyLost(w)
      BY <1>3, <2>5, RestLetsGo DEF Promise!Next
    <2>6. QED
      BY <2>1, <2>2, <2>3, <2>4, <2>5
  <1>4. QED
    BY <1>1, <1>2, <1>3 DEF Next, Faulty

\* Whatever the timing and the faults, the consume loop keeps what its docstrings promise of
\* the queue: a message settles only once it was handled or parked, and a settled one is
\* handed to nobody.
THEOREM QueueImplementsPromise == Spec => ImplementsAtLeastOnce
  <1>1. Init => ShapeInv
    BY ShapeInit
  <1>2. QED
    BY <1>1, ShapeStep, PromiseInit, PromiseStep, PTL DEF Spec, ImplementsAtLeastOnce, Promise!Spec

-----------------------------------------------------------------------------
(* A message is safe with whoever runs it as the first since its delivery: *)
(* the threshold at which an entry looks abandoned outlasts one attempt.   *)

MarginOK == Timeout + Lag < MinIdle

Prompt(w) == Hand(w) # {} /\ started[w] < 2 => elapsed[w] <= Timeout + Lag

Undisputed(w) == started[w] < 2 => \A m \in Hand(w) : owner[m] = w /\ idle[m] <= elapsed[w]

TailsInv == ShapeInv /\ \A w \in Workers : Prompt(w) /\ Undisputed(w)

LEMMA HandTyped == ASSUME TypeOK, InHand, NEW w \in Workers PROVE Hand(w) \subseteq 1..cursor
  BY SMT DEF TypeOK, InHand, Hand, Elements, Busy

\* A step of its own leaves a worker with nothing, or its clock as it was.
LEMMA OwnClock ==
    ASSUME TypeOK, NEW w \in Workers, Shaped(w), Step(w) \/ Faulty(w),
           ~Reclaim(w), ~(Deliver(w) /\ ~stopping[w])
    PROVE  \/ Hand(w)' = {}
           \/ /\ elapsed'[w] = elapsed[w] /\ started'[w] \in {started[w], started[w] + 1}
              /\ Hand(w)' \subseteq Hand(w)
              /\ UNCHANGED <<owner, idle>> \/ ReadReplyLost(w) \/ Hand(w) = {}
  <1>1. ASSUME NEW p \in {"poll", "top", "down"}, Release(w, p) PROVE Hand(w)' = {}
    <2>1. batch'[w] = <<>> /\ pc'[w] = p
      BY <1>1, ReleaseFrame
    <2>2. QED
      BY <2>1, EmptyHandNext, SMT DEF Busy
  <1>2. CASE EndDrain(w) \/ PollEmpty(w) \/ Exit(w) \/ RedisFails(w) \/ Crash(w) \/ AckReplyLost(w)
    BY <1>1, <1>2 DEF EndDrain, PollEmpty, Exit, RedisFails, Crash, AckReplyLost
  <1>3. Hand(w)' \subseteq Hand(w)
    BY HandShrinks
  <1>4. CASE ReadReplyLost(w)
    BY <1>3, <1>4 DEF ReadReplyLost, workerVars
  <1>5. CASE ClaimReplyLost(w)
    <2>1. pc[w] = "top" /\ batch[w] = <<>>
      BY <1>5 DEF ClaimReplyLost, Shaped, Idling
    <2>2. Hand(w) = {}
      BY <2>1, EmptyHand DEF Busy
    <2>3. QED
      BY <1>3, <2>2
  <1>6. CASE Sigterm(w) \/ Restart(w)
    BY <1>3, <1>6 DEF Sigterm, Restart, redisVars
  <1>7. CASE TakeReclaimed(w)
    BY <1>3, <1>7, HeadTaken DEF TakeReclaimed, redisVars
  <1>8. CASE Deliver(w)
    BY <1>1, <1>8 DEF Deliver
  <1>9. CASE (Fail(w) \/ Ack(w)) /\ ~reclaimed[w]
    BY <1>1, <1>9 DEF Fail, Ack
  <1>10. CASE Succeed(w) \/ CountAttempts(w) \/ Park(w) \/ ((Fail(w) \/ Ack(w)) /\ reclaimed[w])
    <2>1. UNCHANGED <<elapsed, started, owner, idle>>
      BY <1>10 DEF Succeed, CountAttempts, Park, Fail, Ack, redisVars
    <2>2. QED
      BY <1>3, <2>1
  <1>11. QED
    BY <1>2, <1>4, <1>5, <1>6, <1>7, <1>8, <1>9, <1>10 DEF Step, Faulty, ReplyLost

\* What a delivery to v does to the messages it does not hand out, and to those it does.
LEMMA AssignMarks ==
    ASSUME NEW v \in Workers, NEW S, Assign(v, S), NEW m \in Msgs
    PROVE  IF m \in S THEN owner'[m] = v /\ idle'[m] = 0 ELSE owner'[m] = owner[m] /\ idle'[m] = idle[m]
  BY DEF Assign

LEMMA OwnTails ==
    ASSUME TailsInv, TypeOK', NEW w \in Workers, Step(w) \/ Faulty(w)
    PROVE  Prompt(w)' /\ Undisputed(w)'
  <1>1. TypeOK /\ InHand /\ Shaped(w) /\ Prompt(w) /\ Undisputed(w)
    BY DEF TailsInv, ShapeInv, SafeInv
  <1>2. Hand(w) \subseteq 1..cursor /\ 1..cursor \subseteq Msgs /\ cursor \in Nat
    <2>1. cursor \in 0..NumMsgs
      BY <1>1, QueueConstants, SMT DEF TypeOK
    <2>2. QED
      BY <1>1, <2>1, HandTyped, QueueConstants, SMT DEF Msgs
  <1>3. CASE Reclaim(w)
    <2>1. PICK s \in Claims : IsClaim(s) /\ Assign(w, Elements(s)) /\ batch' = [batch EXCEPT ![w] = s]
      BY <1>3 DEF Reclaim
    <2>2. pc'[w] = "drain" /\ batch'[w] = s /\ elapsed'[w] = 0 /\ started'[w] = 0
      BY <1>1, <1>3, <2>1, SMT DEF Reclaim, TypeOK
    <2>3. Hand(w)' = Elements(s) /\ Elements(s) \subseteq Msgs
      BY <1>1, <2>1, <2>2, ClaimElements DEF Hand, Elements
    <2>4. \A m \in Elements(s) : owner'[m] = w /\ idle'[m] = 0
      BY <2>1, <2>3, AssignMarks
    <2>5. QED
      BY <2>2, <2>3, <2>4, QueueConstants DEF Prompt, Undisputed
  <1>4. CASE Deliver(w) /\ ~stopping[w]
    <2>1. pc'[w] = "run" /\ cur'[w] = cursor + 1 /\ batch'[w] = <<>> /\ elapsed'[w] = 0
      BY <1>1, <1>4, SMT DEF Deliver, TypeOK, Shaped, Idling
    <2>2. Hand(w)' = {cursor + 1}
      BY <2>1, SMT DEF Hand, Elements
    <2>3. cursor + 1 \in Msgs
      BY <1>1, <1>4, ReadNextFacts DEF Deliver
    <2>4. owner'[cursor + 1] = w /\ idle'[cursor + 1] = 0
      BY <1>4, <2>3, AssignMarks DEF Deliver, ReadNext
    <2>5. QED
      BY <2>1, <2>2, <2>4, QueueConstants DEF Prompt, Undisputed
  <1>5. CASE Hand(w)' = {}
    BY <1>5 DEF Prompt, Undisputed
  <1>6. CASE /\ elapsed'[w] = elapsed[w] /\ started'[w] \in {started[w], started[w] + 1}
             /\ Hand(w)' \subseteq Hand(w)
             /\ UNCHANGED <<owner, idle>> \/ ReadReplyLost(w)
    <2>1. started'[w] < 2 => started[w] < 2
      <3>1. started[w] \in Nat
        BY <1>1 DEF TypeOK
      <3>2. QED
        BY <1>6, <3>1
    <2>2. \A m \in Hand(w) : owner'[m] = owner[m] /\ idle'[m] = idle[m]
      <3>1. CASE ReadReplyLost(w)
        <4>1. Assign(w, {cursor + 1}) /\ \A m \in Hand(w) : m \in Msgs /\ m # cursor + 1
          BY <1>2, <3>1 DEF ReadReplyLost, ReadNext
        <4>2. QED
          BY <4>1, AssignMarks
      <3>2. QED
        BY <1>6, <3>1
    <2>3. Prompt(w)'
      BY <1>1, <1>6, <2>1 DEF Prompt
    <2>4. Undisputed(w)'
      BY <1>1, <1>6, <2>1, <2>2 DEF Undisputed
    <2>5. QED
      BY <2>3, <2>4
  <1>7. QED
    BY <1>1, <1>3, <1>4, <1>5, <1>6, OwnClock

LEMMA OthersTails ==
    ASSUME MarginOK, TailsInv, NEW v \in Workers, Step(v) \/ Faulty(v), NEW w \in Workers \ {v}
    PROVE  Prompt(w)' /\ Undisputed(w)'
  <1>1. TypeOK /\ InHand /\ Prompt(w) /\ Undisputed(w)
    BY DEF TailsInv, ShapeInv, SafeInv
  <1>2. elapsed'[w] = elapsed[w] /\ started'[w] = started[w] /\ Hand(w)' = Hand(w)
    <2>1. Stands(w)
      BY <1>1, OthersStand
    <2>2. QED
      BY <2>1 DEF Stands, Hand, Elements
  <1>3. Prompt(w)'
    BY <1>1, <1>2 DEF Prompt
  <1>4. Hand(w) \subseteq 1..cursor /\ 1..cursor \subseteq Msgs /\ cursor \in Nat
    <2>1. cursor \in 0..NumMsgs
      BY <1>1, QueueConstants, SMT DEF TypeOK
    <2>2. QED
      BY <1>1, <2>1, HandTyped, QueueConstants, SMT DEF Msgs
  <1>5. ASSUME NEW m \in Hand(w), started[w] < 2 PROVE owner'[m] = owner[m] /\ idle'[m] = idle[m]
    <2>1. m \in Msgs /\ m # cursor + 1
      BY <1>4
    <2>2. m \notin Abandoned
      <3>1. owner[m] = w /\ idle[m] <= elapsed[w] /\ elapsed[w] <= Timeout + Lag
        BY <1>1, <1>5 DEF Undisputed, Prompt
      <3>2. idle[m] \in Nat /\ elapsed[w] \in Nat /\ MinIdle \in Nat
        BY <1>1, <2>1, MinIdleType DEF TypeOK
      <3>3. ~(idle[m] >= MinIdle)
        BY <3>1, <3>2, QueueConstants DEF MarginOK
      <3>4. QED
        BY <3>3 DEF Abandoned
    <2>3. CASE UNCHANGED <<owner, idle>>
      BY <2>3
    <2>4. CASE ReadNext(v)
      <3>1. m \notin {cursor + 1}
        BY <2>1
      <3>2. QED
        BY <2>1, <2>4, <3>1, AssignMarks DEF ReadNext
    <2>5. CASE Reclaim(v) \/ ClaimReplyLost(v)
      <3>1. PICK s \in Claims : IsClaim(s) /\ Assign(v, Elements(s))
        BY <2>5 DEF Reclaim, ClaimReplyLost
      <3>2. m \notin Elements(s)
        BY <1>1, <2>2, <3>1, ClaimElements
      <3>3. QED
        BY <2>1, <3>1, <3>2, AssignMarks
    <2>6. CASE ~Deliver(v) /\ ~Reclaim(v) /\ ~ReadReplyLost(v) /\ ~ClaimReplyLost(v)
      BY <2>3, <2>6 DEF Step, Faulty, ReplyLost, TakeReclaimed, EndDrain, PollEmpty, Succeed, Fail,
                        CountAttempts, Park, Ack, Exit, Restart, RedisFails, Crash, Sigterm,
                        AckReplyLost, redisVars
    <2>7. QED
      BY <2>4, <2>5, <2>6 DEF Deliver, ReadReplyLost
  <1>6. Undisputed(w)'
    BY <1>1, <1>2, <1>5 DEF Undisputed
  <1>7. QED
    BY <1>3, <1>6

\* Time passes only while every worker is within its attempts.
LEMMA TickTails ==
    ASSUME TailsInv, Tick, NEW w \in Workers PROVE Prompt(w)' /\ Undisputed(w)'
  <1>1. TypeOK /\ InHand /\ Undisputed(w) /\ OnTime(w)
    BY DEF TailsInv, ShapeInv, SafeInv, Tick
  <1>2. UNCHANGED <<pc, cur, batch, started, owner>>
    BY DEF Tick
  <1>3. Hand(w)' = Hand(w)
    BY <1>2 DEF Hand, Elements
  <1>4. Hand(w) # {} => elapsed'[w] = elapsed[w] + 1
    BY DEF Tick
  <1>5. elapsed[w] \in Nat /\ started[w] \in Nat
    BY <1>1 DEF TypeOK
  <1>6. Prompt(w)'
    <2>1. SUFFICES ASSUME Hand(w) # {}, started[w] < 2 PROVE elapsed[w] + 1 <= Timeout + Lag
      BY <1>2, <1>3, <1>4 DEF Prompt
    <2>2. elapsed[w] < started[w] * Timeout + Lag
      BY <1>1, <2>1 DEF OnTime
    <2>3. started[w] = 0 \/ started[w] = 1
      BY <1>5, <2>1
    <2>4. CASE started[w] = 0
      <3>1. elapsed[w] < 0 * Timeout + Lag
        BY <2>2, <2>4
      <3>2. QED
        BY <1>5, <3>1, QueueConstants
    <2>5. CASE started[w] = 1
      <3>1. elapsed[w] < 1 * Timeout + Lag
        BY <2>2, <2>5
      <3>2. QED
        BY <1>5, <3>1, QueueConstants
    <2>6. QED
      BY <2>3, <2>4, <2>5
  <1>7. Undisputed(w)'
    <2>1. SUFFICES ASSUME started[w] < 2, NEW m \in Hand(w) PROVE owner[m] = w /\ idle'[m] <= elapsed[w] + 1
      BY <1>2, <1>3, <1>4 DEF Undisputed
    <2>2. owner[m] = w /\ idle[m] <= elapsed[w]
      BY <1>1, <2>1 DEF Undisputed
    <2>3. m \in Msgs
      <3>1. cursor \in 0..NumMsgs /\ Hand(w) \subseteq 1..cursor
        BY <1>1, HandTyped, QueueConstants, SMT DEF TypeOK
      <3>2. QED
        BY <2>1, <3>1, QueueConstants DEF Msgs
    <2>4. idle[m] \in Nat /\ idle'[m] \in {idle[m], idle[m] + 1}
      BY <1>1, <2>3, MinIdleType DEF Tick, TypeOK
    <2>5. QED
      BY <1>5, <2>2, <2>4
  <1>8. QED
    BY <1>6, <1>7

LEMMA TailsInit == Init => TailsInv
  <1> SUFFICES ASSUME Init PROVE TailsInv
    OBVIOUS
  <1>1. ASSUME NEW w \in Workers PROVE Hand(w) = {}
    BY EmptyHand DEF Init, Busy
  <1>2. QED
    BY <1>1, ShapeInit DEF TailsInv, Prompt, Undisputed

LEMMA TailsStep == MarginOK /\ TailsInv /\ [Next]_vars => TailsInv'
  <1> SUFFICES ASSUME MarginOK, TailsInv, [Next]_vars PROVE TailsInv'
    OBVIOUS
  <1>1. ShapeInv' /\ TypeOK'
    BY ShapeStep DEF TailsInv, ShapeInv, SafeInv
  <1>2. SUFFICES ASSUME NEW w \in Workers PROVE Prompt(w)' /\ Undisputed(w)'
    BY <1>1 DEF TailsInv
  <1>3. CASE Tick
    BY <1>3, TickTails
  <1>4. CASE Publish \/ UNCHANGED vars
    <2>1. UNCHANGED <<pc, cur, batch, started, elapsed, owner, idle>>
      BY <1>4 DEF Publish, vars, redisVars, workerVars
    <2>2. Prompt(w) /\ Undisputed(w)
      BY DEF TailsInv
    <2>3. QED
      BY <2>1, <2>2 DEF Prompt, Undisputed, Hand, Elements
  <1>5. ASSUME NEW v \in Workers, Step(v) \/ Faulty(v) PROVE Prompt(w)' /\ Undisputed(w)'
    BY <1>1, <1>5, OwnTails, OthersTails
  <1>6. QED
    BY <1>3, <1>4, <1>5 DEF Next, Faulty

\* With a threshold longer than one attempt and the steps around it, as
\* _reclaim_min_idle_ms computes it, an entry is taken from the replica that runs it only
\* at the tail of a claim.  No bound on the size of a claim is assumed.
THEOREM OnlyTailsChangeHands == MarginOK => (Spec => []OnlyTailsAreTakenOver)
  <1> SUFFICES ASSUME MarginOK PROVE Spec => []OnlyTailsAreTakenOver
    OBVIOUS
  <1>1. TailsInv => OnlyTailsAreTakenOver
    <2>1. SUFFICES ASSUME TailsInv, NEW w \in Workers, pc[w] = "run", owner[cur[w]] # w
                   PROVE  reclaimed[w] /\ started[w] > 1
      BY DEF OnlyTailsAreTakenOver
    <2>2. Undisputed(w) /\ Single(w) /\ started[w] \in Nat
      BY <2>1 DEF TailsInv, ShapeInv, Shaped, SafeInv, TypeOK
    <2>3. cur[w] \in Hand(w)
      BY <2>1 DEF Hand
    <2>4. started[w] > 1
      BY <2>1, <2>2, <2>3 DEF Undisputed
    <2>5. QED
      BY <2>1, <2>2, <2>4 DEF Single, Busy
  <1>2. TailsInv /\ [Next]_vars => TailsInv'
    BY TailsStep
  <1>3. QED
    BY <1>1, <1>2, TailsInit, PTL DEF Spec

-----------------------------------------------------------------------------
(***************************************************************************)
(* StreamTrim, for any groups, publishers, entries and clock.              *)
(*   What a publisher has looked up stays a lower bound of what its groups *)
(* need while they read on; and ids grow with the clock, so a group whose  *)
(* answer was fresh enough to count is not dead by its later reads.        *)
(***************************************************************************)
CONSTANTS
    Groups, Publishers, NumEntries, MaxLen, StaleAfter, MaxTime
VARIABLES
    now, newest, stamp, entries, groups, last, pend, step, looked, seen, left, required,
    ignored, mine, tidy

Trim == INSTANCE StreamTrim

\* What a publisher has looked up stays true of the groups while they read on:
\* each group it judged alive still has all it needs at or above an id required.
LookOK ==
    \A p \in Publishers : step[p] = "judge" =>
        /\ looked[p] \subseteq groups /\ left[p] \subseteq looked[p]
        /\ \A g \in looked[p] : seen[p][g] <= last[g]
        /\ \A g \in looked[p] \ (left[p] \cup ignored[p]) :
              \E r \in required[p] : r <= last[g] /\ \A m \in pend[g] : r <= m

LEMMA ReturnTyped ==
    ASSUME Trim!TypeOK, NEW p \in Publishers, Trim!Return(p)
    PROVE  /\ step' \in [Publishers -> Trim!Steps]
           /\ looked' \in [Publishers -> SUBSET Groups]
           /\ seen' \in [Publishers -> [Groups -> 0..newest]]
           /\ left' \in [Publishers -> SUBSET Groups]
           /\ required' \in [Publishers -> SUBSET (1..newest)]
           /\ ignored' \in [Publishers -> SUBSET Groups]
           /\ mine' \in [Publishers -> 0..newest]
  <1>1. newest \in Nat
    BY DEF Trim!TypeOK
  <1>2. step' \in [Publishers -> Trim!Steps]
    BY DEF Trim!TypeOK, Trim!Return, Trim!Steps
  <1>3. seen' \in [Publishers -> [Groups -> 0..newest]]
    <2>1. [g \in Groups |-> 0] \in [Groups -> 0..newest]
      BY <1>1
    <2>. QED
      BY <2>1 DEF Trim!TypeOK, Trim!Return
  <1>4. mine' \in [Publishers -> 0..newest]
    BY <1>1 DEF Trim!TypeOK, Trim!Return
  <1>5. /\ looked' \in [Publishers -> SUBSET Groups]
        /\ left' \in [Publishers -> SUBSET Groups]
        /\ ignored' \in [Publishers -> SUBSET Groups]
    BY DEF Trim!TypeOK, Trim!Return
  <1>6. required' \in [Publishers -> SUBSET (1..newest)]
    BY DEF Trim!TypeOK, Trim!Return
  <1>. QED
    BY <1>2, <1>3, <1>4, <1>5, <1>6

LEMMA TypeInvariant ==
    ASSUME Trim!TrimConstants
    PROVE  Trim!TypeOK /\ [Trim!Next]_(Trim!vars) => Trim!TypeOK'
  <1>. USE DEF Trim!Ids, Trim!streamVars, Trim!groupVars, Trim!lookVars, Trim!Steps
  <1>. SUFFICES ASSUME Trim!TypeOK, [Trim!Next]_(Trim!vars) PROVE Trim!TypeOK'
    OBVIOUS
  <1>1. CASE Trim!Tick
    BY <1>1 DEF Trim!TypeOK, Trim!Tick
  <1>2. ASSUME NEW g \in Groups, Trim!CreateGroup(g) PROVE Trim!TypeOK'
    BY <1>2 DEF Trim!TypeOK, Trim!CreateGroup
  <1>3. ASSUME NEW g \in Groups, Trim!Deliver(g) PROVE Trim!TypeOK'
    BY <1>3 DEF Trim!TypeOK, Trim!Deliver, Trim!Unread
  <1>4. ASSUME NEW g \in Groups, NEW m \in Trim!Ids, Trim!Settle(g, m) PROVE Trim!TypeOK'
    BY <1>4 DEF Trim!TypeOK, Trim!Settle
  <1>5. ASSUME NEW p \in Publishers, Trim!Append(p) PROVE Trim!TypeOK'
    BY <1>5 DEF Trim!TypeOK, Trim!Append
  <1>6. ASSUME NEW p \in Publishers, Trim!CheckLength(p) PROVE Trim!TypeOK'
    BY <1>6, ReturnTyped DEF Trim!TypeOK, Trim!CheckLength
  <1>7. ASSUME NEW p \in Publishers, Trim!Look(p) PROVE Trim!TypeOK'
    BY <1>7 DEF Trim!TypeOK, Trim!Look
  <1>8. ASSUME NEW p \in Publishers, Trim!GiveUp(p) PROVE Trim!TypeOK'
    BY <1>8, ReturnTyped DEF Trim!TypeOK, Trim!GiveUp
  <1>9. ASSUME NEW p \in Publishers, NEW g \in Groups, Trim!Ignore(p, g) PROVE Trim!TypeOK'
    BY <1>9 DEF Trim!TypeOK, Trim!Ignore, Trim!Judged
  <1>10. ASSUME NEW p \in Publishers, NEW g \in Groups, Trim!Require(p, g) PROVE Trim!TypeOK'
    BY <1>10 DEF Trim!TypeOK, Trim!Require, Trim!Judged
  <1>11. ASSUME NEW p \in Publishers, Trim!TrimBelowRequired(p) PROVE Trim!TypeOK'
    BY <1>11, ReturnTyped DEF Trim!TypeOK, Trim!TrimBelowRequired
  <1>12. ASSUME NEW p \in Publishers, Trim!TrimToLength(p) PROVE Trim!TypeOK'
    BY <1>12, ReturnTyped DEF Trim!TypeOK, Trim!TrimToLength
  <1>13. ASSUME NEW p \in Publishers, Trim!Abort(p) PROVE Trim!TypeOK'
    BY <1>13, ReturnTyped DEF Trim!TypeOK, Trim!Abort
  <1>14. CASE UNCHANGED Trim!vars
    BY <1>14 DEF Trim!TypeOK, Trim!vars
  <1>. QED
    BY <1>1, <1>2, <1>3, <1>4, <1>5, <1>6, <1>7, <1>8, <1>9, <1>10, <1>11, <1>12, <1>13,
       <1>14 DEF Trim!Next, Trim!Publish, Trim!Consume

\* Every variable keeps its type.
THEOREM TrimTypeCorrect == Trim!TrimConstants => (Trim!Spec => []Trim!TypeOK)
  <1>. SUFFICES ASSUME Trim!TrimConstants PROVE Trim!Spec => []Trim!TypeOK
    OBVIOUS
  <1>1. Trim!Init => Trim!TypeOK
    BY DEF Trim!Init, Trim!TypeOK, Trim!Ids, Trim!Steps
  <1>. QED
    BY <1>1, TypeInvariant, PTL DEF Trim!Spec

\* The part of LookOK about publisher p.
LookedRight(p) ==
    /\ looked[p] \subseteq groups /\ left[p] \subseteq looked[p]
    /\ \A g \in looked[p] : seen[p][g] <= last[g]
    /\ \A g \in looked[p] \ (left[p] \cup ignored[p]) :
          \E r \in required[p] : r <= last[g] /\ \A m \in pend[g] : r <= m

\* What groups do while p stands still does not disturb it.
LEMMA GroupsAdvance ==
    ASSUME Trim!TrimConstants,
           Trim!TypeOK, Trim!TypeOK', NEW p \in Publishers, LookedRight(p),
           UNCHANGED Trim!lookVars, groups \subseteq groups',
           \A g \in groups : /\ last[g] <= last'[g]
                             /\ \A m \in pend'[g] : m \in pend[g] \/ last[g] <= m
    PROVE  LookedRight(p)'
  <1>1. \A g \in groups : last[g] \in Nat /\ last'[g] \in Nat /\ pend'[g] \subseteq Nat
    BY DEF Trim!TypeOK
  <1>2. \A g \in looked[p] : seen[p][g] \in Nat
    BY DEF Trim!TypeOK
  <1>3. /\ looked'[p] \subseteq groups' /\ left'[p] \subseteq looked'[p]
        /\ \A g \in looked'[p] : seen'[p][g] <= last'[g]
    BY <1>1, <1>2 DEF LookedRight, Trim!lookVars
  <1>4. ASSUME NEW g \in looked'[p] \ (left'[p] \cup ignored'[p])
        PROVE  \E r \in required'[p] : r <= last'[g] /\ \A m \in pend'[g] : r <= m
    <2>1. PICK r \in required[p] : r <= last[g] /\ \A m \in pend[g] : r <= m
      BY <1>4 DEF LookedRight, Trim!lookVars
    <2>2. r \in Nat /\ g \in groups
      BY <1>4 DEF Trim!TypeOK, LookedRight, Trim!lookVars
    <2>. QED
      BY <1>1, <2>1, <2>2 DEF Trim!lookVars
  <1>. QED
    BY <1>3, <1>4 DEF LookedRight

LEMMA LookInvariant ==
    ASSUME Trim!TrimConstants
    PROVE  Trim!TypeOK /\ Trim!TypeOK' /\ LookOK /\ [Trim!Next]_(Trim!vars) => LookOK'
  <1>. USE DEF Trim!streamVars, Trim!groupVars, Trim!lookVars
  <1>. SUFFICES ASSUME Trim!TypeOK, Trim!TypeOK', LookOK, [Trim!Next]_(Trim!vars),
                       NEW p \in Publishers, step'[p] = "judge"
                PROVE  LookedRight(p)'
    BY DEF LookOK, LookedRight
  <1>0. step[p] = "judge" => LookedRight(p)
    BY DEF LookOK, LookedRight
  <1>t. \A g \in Groups : last[g] \in Nat /\ last'[g] \in Nat /\ pend[g] \subseteq Nat
    BY DEF Trim!TypeOK
  <1>1. ASSUME NEW g \in Groups, Trim!CreateGroup(g) PROVE LookedRight(p)'
    <2>1. step[p] = "judge" /\ UNCHANGED Trim!lookVars /\ groups \subseteq groups'
      BY <1>1 DEF Trim!CreateGroup
    <2>2. groups \subseteq Groups /\ DOMAIN last = Groups /\ DOMAIN pend = Groups
      BY DEF Trim!TypeOK
    <2>3. \A h \in groups : last'[h] = last[h] /\ pend'[h] = pend[h]
      BY <1>1, <2>2 DEF Trim!CreateGroup
    <2>4. \A h \in groups : /\ last[h] <= last'[h]
                            /\ \A n \in pend'[h] : n \in pend[h] \/ last[h] <= n
      BY <1>t, <2>2, <2>3
    <2>. QED
      BY <1>0, <2>1, <2>4, GroupsAdvance
  <1>2. ASSUME NEW g \in Groups, Trim!Deliver(g) PROVE LookedRight(p)'
    <2>1. step[p] = "judge"
      BY <1>2 DEF Trim!Deliver
    <2>2. PICK m \in Trim!Unread(g) : last' = [last EXCEPT ![g] = m]
                                 /\ pend' = [pend EXCEPT ![g] = @ \cup {m}]
      BY <1>2 DEF Trim!Deliver
    <2>3. m > last[g] /\ m \in Nat
      BY <2>2 DEF Trim!Unread, Trim!TypeOK
    <2>. QED
      <3>1. UNCHANGED Trim!lookVars /\ groups' = groups
        BY <1>2 DEF Trim!Deliver
      <3>2. groups \subseteq Groups /\ DOMAIN last = Groups /\ DOMAIN pend = Groups
        BY DEF Trim!TypeOK
      <3>3. \A h \in groups : /\ last[h] <= last'[h]
                              /\ \A n \in pend'[h] : n \in pend[h] \/ last[h] <= n
        BY <1>t, <2>2, <2>3, <3>2
      <3>. QED
        BY <1>0, <2>1, <3>1, <3>3, GroupsAdvance
  <1>3. ASSUME NEW g \in Groups, NEW m \in Trim!Ids, Trim!Settle(g, m) PROVE LookedRight(p)'
    <2>1. step[p] = "judge" /\ UNCHANGED <<groups, last, Trim!lookVars>>
      BY <1>3 DEF Trim!Settle
    <2>2. \A h \in Groups : pend'[h] \subseteq pend[h]
      BY <1>3 DEF Trim!Settle, Trim!TypeOK
    <2>3. groups \subseteq Groups
      BY DEF Trim!TypeOK
    <2>4. \A h \in groups : /\ last[h] <= last'[h]
                            /\ \A n \in pend'[h] : n \in pend[h] \/ last[h] <= n
      BY <1>t, <2>1, <2>2, <2>3
    <2>. QED
      BY <1>0, <2>1, <2>4, GroupsAdvance
  <1>4. CASE UNCHANGED <<Trim!groupVars, Trim!lookVars, step>>
    <2>1. step[p] = "judge" /\ UNCHANGED <<groups, last, pend>> /\ UNCHANGED Trim!lookVars
      BY <1>4
    <2>2. groups \subseteq Groups
      BY DEF Trim!TypeOK
    <2>3. \A h \in groups : /\ last[h] <= last'[h]
                            /\ \A n \in pend'[h] : n \in pend[h] \/ last[h] <= n
      BY <1>t, <2>1, <2>2
    <2>. QED
      BY <1>0, <2>1, <2>3, GroupsAdvance
  <1>5. ASSUME NEW q \in Publishers, UNCHANGED Trim!groupVars,
               Trim!Append(q) \/ Trim!CheckLength(q) \/ Trim!Return(q)
        PROVE  LookedRight(p)'
    <2>1. p # q /\ step[p] = "judge"
      BY <1>5 DEF Trim!Append, Trim!CheckLength, Trim!Return, Trim!TypeOK
    <2>. QED
      BY <1>0, <1>5, <2>1 DEF Trim!Append, Trim!CheckLength, Trim!Return, Trim!TypeOK, LookedRight
  <1>6. ASSUME NEW q \in Publishers, Trim!Look(q) PROVE LookedRight(p)'
    <2>1. CASE p = q
      BY <1>6, <1>t, <2>1 DEF Trim!Look, Trim!TypeOK, LookedRight
    <2>2. CASE p # q
      BY <1>0, <1>6, <2>2 DEF Trim!Look, Trim!TypeOK, LookedRight
    <2>. QED
      BY <2>1, <2>2
  <1>7. ASSUME NEW q \in Publishers, NEW g \in Groups, Trim!Ignore(q, g) PROVE LookedRight(p)'
    <2>1. CASE p = q
      BY <1>0, <1>7, <2>1 DEF Trim!Ignore, Trim!Judged, Trim!TypeOK, LookedRight
    <2>2. CASE p # q
      BY <1>0, <1>7, <2>2 DEF Trim!Ignore, Trim!Judged, Trim!TypeOK, LookedRight
    <2>. QED
      BY <2>1, <2>2
  <1>8. ASSUME NEW q \in Publishers, NEW g \in Groups, Trim!Require(q, g) PROVE LookedRight(p)'
    <2>1. CASE p = q
      <3>1. step[p] = "judge" /\ g \in left[p] /\ LookedRight(p)
        BY <1>0, <1>8, <2>1 DEF Trim!Require, Trim!Judged
      <3>2. PICK r \in pend[g] \cup {seen[p][g]} :
               /\ \A m \in pend[g] \cup {seen[p][g]} : r <= m
               /\ required' = [required EXCEPT ![p] = @ \cup {r}]
        BY <1>8, <2>1 DEF Trim!Require
      <3>3. r \in required'[p] /\ required[p] \subseteq required'[p]
        BY <3>2 DEF Trim!TypeOK
      <3>4. r <= last[g]
        <4>1. r <= seen[p][g] /\ seen[p][g] <= last[g]
          BY <3>1, <3>2 DEF LookedRight
        <4>2. seen[p][g] \in Nat /\ r \in Nat
          BY <1>t, <3>2 DEF Trim!TypeOK
        <4>. QED
          BY <1>t, <4>1, <4>2
      <3>5. /\ left'[p] = left[p] \ {g} /\ ignored' = ignored
            /\ UNCHANGED <<groups, last, pend, looked, seen>>
        BY <1>8, <2>1 DEF Trim!Require, Trim!Judged, Trim!TypeOK
      <3>6. /\ looked'[p] \subseteq groups' /\ left'[p] \subseteq looked'[p]
            /\ \A h \in looked'[p] : seen'[p][h] <= last'[h]
        BY <3>1, <3>5 DEF LookedRight
      <3>7. ASSUME NEW h \in looked'[p] \ (left'[p] \cup ignored'[p])
            PROVE  \E s \in required'[p] : s <= last'[h] /\ \A m \in pend'[h] : s <= m
        <4>1. CASE h = g
          BY <3>2, <3>3, <3>4, <3>5, <4>1
        <4>2. CASE h # g
          BY <3>1, <3>3, <3>5, <3>7, <4>2 DEF LookedRight
        <4>. QED
          BY <4>1, <4>2
      <3>. QED
        BY <3>6, <3>7 DEF LookedRight
    <2>2. CASE p # q
      BY <1>0, <1>8, <2>2 DEF Trim!Require, Trim!Judged, Trim!TypeOK, LookedRight
    <2>. QED
      BY <2>1, <2>2
  <1>9. CASE Trim!Tick \/ UNCHANGED Trim!vars
    BY <1>4, <1>9 DEF Trim!Tick, Trim!vars
  <1>10. ASSUME NEW q \in Publishers,
                Trim!GiveUp(q) \/ Trim!TrimBelowRequired(q) \/ Trim!TrimToLength(q) \/ Trim!Abort(q)
         PROVE  LookedRight(p)'
    BY <1>5, <1>10 DEF Trim!GiveUp, Trim!TrimBelowRequired, Trim!TrimToLength, Trim!Abort
  <1>11. ASSUME NEW q \in Publishers, Trim!Append(q) \/ Trim!CheckLength(q) PROVE LookedRight(p)'
    BY <1>5, <1>11 DEF Trim!Append, Trim!CheckLength
  <1>. QED
    BY <1>1, <1>2, <1>3, <1>6, <1>7, <1>8, <1>9, <1>10, <1>11 DEF Trim!Next, Trim!Publish, Trim!Consume

LEMMA LookAlwaysOK ==
    ASSUME Trim!TrimConstants
    PROVE  Trim!Spec => [](Trim!TypeOK /\ LookOK)
  <1>1. Trim!Init => LookOK
    BY DEF Trim!Init, LookOK
  <1>. QED
    BY <1>1, TrimTypeCorrect, LookInvariant, PTL DEF Trim!Spec

\* A publish that had its answers ends by trimming, or gives up.
LEMMA EndsSo ==
    ASSUME Trim!TypeOK, [Trim!Next]_(Trim!vars), NEW p \in Publishers,
           Trim!Answered(p), step'[p] = "idle", required[p] # {}
    PROVE  Trim!TrimBelowRequired(p) \/ Trim!Abort(p)
  <1>1. step[p] = "judge" /\ step'[p] # step[p]
    BY DEF Trim!Answered
  <1>2. ASSUME NEW q \in Publishers, q # p, Trim!Publish(q) PROVE step'[p] = step[p]
    BY <1>2 DEF Trim!Publish, Trim!Append, Trim!CheckLength, Trim!Look, Trim!GiveUp, Trim!Ignore, Trim!Require, Trim!Judged,
                Trim!TrimBelowRequired, Trim!TrimToLength, Trim!Abort, Trim!Return, Trim!TypeOK
  <1>3. ASSUME NEW h \in Groups, Trim!Consume(h) PROVE step' = step
    BY <1>3 DEF Trim!Consume, Trim!CreateGroup, Trim!Deliver, Trim!Settle
  <1>4. ~Trim!Tick /\ ~UNCHANGED Trim!vars
    BY <1>1 DEF Trim!Tick, Trim!vars
  <1>5. Trim!Publish(p)
    BY <1>1, <1>2, <1>3, <1>4 DEF Trim!Next
  <1>6. ~Trim!Append(p) /\ ~Trim!CheckLength(p) /\ ~Trim!Look(p) /\ ~Trim!TrimToLength(p)
    BY <1>1 DEF Trim!Append, Trim!CheckLength, Trim!Look, Trim!TrimToLength
  <1>7. ~Trim!GiveUp(p) /\ \A h \in Groups : ~Trim!Ignore(p, h) /\ ~Trim!Require(p, h)
    BY DEF Trim!GiveUp, Trim!Ignore, Trim!Require, Trim!Judged, Trim!Answered
  <1>. QED
    BY <1>5, <1>6, <1>7 DEF Trim!Publish

\* One step: what a trim removes, no group judged alive needs.
LEMMA StepKeepsNeeded ==
    ASSUME Trim!TrimConstants,
           Trim!TypeOK, LookOK, [Trim!Next]_(Trim!vars), NEW p \in Publishers, NEW g \in looked[p] \ ignored[p],
           Trim!Answered(p), step'[p] = "idle", NEW m \in entries \ entries'
    PROVE  ~Trim!Needs(g, m)
  <1>. USE DEF Trim!streamVars, Trim!groupVars, Trim!lookVars
  <1>1. PICK r \in required[p] : r <= last[g] /\ \A n \in pend[g] : r <= n
    BY DEF Trim!Answered, LookOK
  <1>2. r \in Nat /\ m \in Nat /\ g \in Groups
    BY DEF Trim!TypeOK
  <1>3. last[g] \in Nat /\ pend[g] \subseteq Nat /\ required[p] \subseteq Nat
    BY <1>2 DEF Trim!TypeOK
  <1>4. Trim!TrimBelowRequired(p)
    <2>1. Trim!TrimBelowRequired(p) \/ Trim!Abort(p)
      BY <1>1, EndsSo
    <2>2. ~Trim!Abort(p)
      BY DEF Trim!Abort
    <2>. QED
      BY <2>1, <2>2
  <1>5. m < r
    BY <1>1, <1>2, <1>4 DEF Trim!TrimBelowRequired
  <1>. QED
    BY <1>1, <1>2, <1>3, <1>5 DEF Trim!Needs

\* However publishers and groups interleave, a trim removes nothing a
\* group that was looked at and not taken for dead still has to read or settle
\* (_trim_stream_without_losing_unconsumed_entries).
THEOREM NothingNeededIsTrimmed == Trim!TrimConstants => (Trim!Spec => Trim!NeededKept)
  <1>. SUFFICES ASSUME Trim!TrimConstants PROVE Trim!Spec => Trim!NeededKept
    OBVIOUS
  <1>1. Trim!TypeOK /\ LookOK /\ [Trim!Next]_(Trim!vars) =>
           [\A p \in Publishers, g \in Groups :
               Trim!Answered(p) /\ step'[p] = "idle" /\ g \in looked[p] \ ignored[p]
                  => \A m \in entries \ entries' : ~Trim!Needs(g, m)]_(Trim!vars)
    BY StepKeepsNeeded
  <1>. QED
    BY <1>1, LookAlwaysOK, PTL DEF Trim!Spec, Trim!NeededKept

-----------------------------------------------------------------------------
(* What a tidy publish leaves.  Until it ends no group comes or comes back,  *)
(* so each is dead or needs nothing far behind the entry appended.           *)

\* Ids grow with the clock.
Clock == \A a, b \in 1..newest : (a <= b => stamp[a] <= stamp[b]) /\ stamp[a] <= now

\* At most MaxLen entries and the one last read lie between m and p's own.
Near(p, m) == mine[p] <= m + MaxLen + 1

Close(p, g) == Trim!Dead(g) \/ \A m \in Trim!Ids : m < mine[p] /\ Trim!Needs(g, m) => mine[p] <= m + MaxLen

Kept(p) ==
    /\ \A g \in groups : last[g] > 0 /\ Close(p, g)
    /\ step[p] = "judge" =>
          /\ \A g \in left[p] : seen[p][g] > 0 /\ (Trim!Stale(seen[p][g]) \/ Near(p, seen[p][g]))
          /\ \A r \in required[p] : Near(p, r)

TidyOK == \A p \in Publishers : tidy[p] /\ step[p] # "idle" => Kept(p)

LEMMA ClockRuns == ASSUME Trim!TrimConstants,
           Trim!TypeOK, Trim!TypeOK', Clock, [Trim!Next]_(Trim!vars) PROVE Clock'
  <1>1. newest \in Nat /\ now \in Nat /\ \A a \in 1..newest : stamp[a] \in Nat
    BY DEF Trim!TypeOK, Trim!Ids
  <1>2. CASE \E p \in Publishers : Trim!Append(p)
    <2>1. /\ newest' = newest + 1 /\ now' = now /\ stamp' = [stamp EXCEPT ![newest + 1] = now]
          /\ newest < NumEntries
      BY <1>2 DEF Trim!Append
    <2>2. stamp'[newest + 1] = now /\ \A a \in 1..newest : stamp'[a] = stamp[a]
      BY <1>1, <2>1, Trim!TrimConstants DEF Trim!TypeOK, Trim!Ids
    <2>. QED
      BY <1>1, <2>1, <2>2 DEF Clock
  <1>3. CASE UNCHANGED <<newest, stamp>> /\ now' \in {now, now + 1}
    BY <1>1, <1>3 DEF Clock
  <1>4. ~(\E p \in Publishers : Trim!Append(p)) => UNCHANGED <<newest, stamp>> /\ now' \in {now, now + 1}
    <2>1. ASSUME NEW p \in Publishers, Trim!Publish(p), ~Trim!Append(p) PROVE UNCHANGED <<newest, stamp, now>>
      BY <2>1 DEF Trim!Publish, Trim!CheckLength, Trim!Look, Trim!GiveUp, Trim!Ignore, Trim!Require, Trim!Judged,
                  Trim!TrimBelowRequired, Trim!TrimToLength, Trim!Abort, Trim!streamVars
    <2>2. ASSUME NEW g \in Groups, Trim!Consume(g) PROVE UNCHANGED <<newest, stamp, now>>
      BY <2>2 DEF Trim!Consume, Trim!CreateGroup, Trim!Deliver, Trim!Settle, Trim!streamVars
    <2>3. CASE Trim!Tick
      BY <2>3 DEF Trim!Tick, Trim!streamVars
    <2>4. CASE UNCHANGED Trim!vars
      BY <2>4 DEF Trim!vars, Trim!streamVars
    <2>. QED
      BY <2>1, <2>2, <2>3, <2>4 DEF Trim!Next
  <1>. QED
    BY <1>2, <1>3, <1>4

LEMMA Positive ==
    ASSUME Trim!TrimConstants,
           Trim!TypeOK
    PROVE  /\ newest \in Nat /\ now \in Nat /\ NumEntries \in Nat /\ MaxLen \in Nat /\ StaleAfter \in Nat
           /\ newest <= NumEntries
           /\ \A g \in Groups : last[g] \in 0..newest /\ last[g] \in Nat /\ pend[g] \subseteq 1..newest
           /\ \A m \in 1..newest : m \in Trim!Ids /\ stamp[m] \in Nat
           /\ \A p \in Publishers : /\ mine[p] \in Nat /\ mine[p] <= newest /\ left[p] \subseteq Groups
                                    /\ required[p] \subseteq Nat
                                    /\ \A g \in Groups : seen[p][g] \in 0..newest /\ seen[p][g] \in Nat
           /\ groups \subseteq Groups
BY DEF Trim!TypeOK, Trim!Ids

\* Time passes, entries come, groups settle, and read unless they are dead.
Calm(p) ==
    /\ now <= now' /\ newest <= newest' /\ groups' = groups
    /\ \A m \in 1..newest : stamp'[m] = stamp[m]
    /\ \A g \in groups : /\ Trim!Dead(g) => last'[g] = last[g]
                         /\ last[g] <= last'[g]
                         /\ \A m \in Trim!Ids : m < mine[p] /\ Trim!Needs(g, m)' => Trim!Needs(g, m)

LEMMA CloseStays ==
    ASSUME Trim!TrimConstants,
           Trim!TypeOK, Trim!TypeOK', NEW p \in Publishers, NEW g \in groups, Calm(p), mine'[p] = mine[p],
           last[g] > 0, Close(p, g)
    PROVE  Close(p, g)'
  <1>1. CASE Trim!Dead(g)
    <2>1. last'[g] = last[g] /\ last[g] \in 1..newest
      BY <1>1, Positive DEF Calm
    <2>2. stamp'[last[g]] = stamp[last[g]] /\ now <= now'
      BY <2>1 DEF Calm
    <2>3. now \in Nat /\ now' \in Nat /\ stamp[last[g]] \in Nat /\ StaleAfter \in Nat
      BY <2>1, Positive DEF Trim!TypeOK
    <2>4. Trim!Dead(g)'
      BY <1>1, <2>1, <2>2, <2>3 DEF Trim!Dead
    <2>. QED
      BY <2>4 DEF Close
  <1>2. CASE \A m \in Trim!Ids : m < mine[p] /\ Trim!Needs(g, m) => mine[p] <= m + MaxLen
    BY <1>2 DEF Calm, Close
  <1>. QED
    BY <1>1, <1>2 DEF Close

\* What p has in hand carries over.
LEMMA KeptOn ==
    ASSUME Trim!TrimConstants,
           Trim!TypeOK, Trim!TypeOK', NEW p \in Publishers, Kept(p), Calm(p), mine'[p] = mine[p],
           step'[p] = "judge" =>
              /\ step[p] = "judge" /\ seen'[p] = seen[p] /\ left'[p] \subseteq left[p]
              /\ \A r \in required'[p] : r \in required[p] \/ Near(p, r)
    PROVE  Kept(p)'
  <1>1. ASSUME NEW g \in groups' PROVE last'[g] > 0 /\ Close(p, g)'
    <2>1. g \in groups /\ last[g] > 0 /\ Close(p, g) /\ last[g] <= last'[g]
      BY <1>1 DEF Kept, Calm
    <2>2. last[g] \in Nat /\ last'[g] \in Nat
      BY <2>1, <1>1 DEF Trim!TypeOK
    <2>. QED
      BY <2>1, <2>2, CloseStays
  <1>2. ASSUME step'[p] = "judge", NEW r \in required'[p] PROVE Near(p, r)'
    BY <1>2 DEF Kept, Near
  <1>3. ASSUME step'[p] = "judge", NEW g \in left'[p]
        PROVE  seen'[p][g] > 0 /\ (Trim!Stale(seen[p][g])' \/ Near(p, seen[p][g])')
    <2>1. /\ g \in left[p] /\ seen'[p] = seen[p] /\ seen[p][g] > 0
          /\ Trim!Stale(seen[p][g]) \/ Near(p, seen[p][g])
      BY <1>3 DEF Kept
    <2>2. seen[p][g] \in 1..newest
      BY <2>1, Positive
    <2>3. Near(p, seen[p][g]) => Near(p, seen[p][g])'
      BY <2>1 DEF Near
    <2>4. Trim!Stale(seen[p][g]) => Trim!Stale(seen[p][g])'
      <3>1. now <= now' /\ newest <= newest' /\ stamp'[seen[p][g]] = stamp[seen[p][g]]
        BY <2>2 DEF Calm
      <3>2. now \in Nat /\ now' \in Nat /\ stamp[seen[p][g]] \in Nat /\ StaleAfter \in Nat
        BY <2>2, Positive DEF Trim!TypeOK
      <3>. QED
        BY <2>1, <3>1, <3>2 DEF Trim!Stale
    <2>. QED
      BY <2>1, <2>3, <2>4
  <1>. QED
    BY <1>1, <1>2, <1>3 DEF Kept

\* A group read up to m, dead or close, is stale at m or m is near.
LEMMA ReadNear ==
    ASSUME Trim!TrimConstants,
           Trim!TypeOK, NEW p \in Publishers, NEW g \in groups, last[g] > 0, Close(p, g)
    PROVE  Trim!Stale(last[g]) \/ Near(p, last[g])
  <1>1. /\ last[g] \in 1..newest /\ newest \in Nat /\ NumEntries \in Nat /\ newest <= NumEntries
        /\ now \in Nat /\ MaxLen \in Nat /\ StaleAfter \in Nat
        /\ mine[p] \in Nat /\ mine[p] <= newest /\ stamp[last[g]] \in Nat
    BY Positive
  <1>2. CASE Trim!Dead(g)
    BY <1>1, <1>2 DEF Trim!Dead, Trim!Stale
  <1>3. CASE mine[p] <= last[g] + 1
    BY <1>1, <1>3 DEF Near
  <1>4. CASE ~Trim!Dead(g) /\ last[g] + 1 < mine[p]
    <2>1. last[g] + 1 \in Trim!Ids /\ Trim!Needs(g, last[g] + 1)
      BY <1>1, <1>4 DEF Trim!Ids, Trim!Needs
    <2>2. mine[p] <= last[g] + 1 + MaxLen
      BY <1>4, <2>1 DEF Close
    <2>. QED
      BY <1>1, <2>2 DEF Near
  <1>. QED
    BY <1>1, <1>2, <1>3, <1>4

\* An answer of XPENDING by a group not taken for dead is near.
LEMMA RequiredNear ==
    ASSUME Trim!TrimConstants,
           Trim!TypeOK, Clock, NEW p \in Publishers, NEW g \in groups, seen[p][g] <= last[g], Close(p, g),
           seen[p][g] > 0, ~Trim!Stale(seen[p][g]), Near(p, seen[p][g]),
           NEW r \in pend[g] \cup {seen[p][g]}
    PROVE  Near(p, r)
  <1>1. /\ newest \in Nat /\ now \in Nat /\ MaxLen \in Nat /\ StaleAfter \in Nat /\ mine[p] \in Nat
        /\ seen[p][g] \in 1..newest /\ last[g] \in 1..newest /\ pend[g] \subseteq 1..newest
    BY Positive
  <1>2. r \in 1..newest
    BY <1>1
  <1>3. ~Trim!Dead(g)
    <2>1. stamp[seen[p][g]] <= stamp[last[g]] /\ stamp[seen[p][g]] \in Nat /\ stamp[last[g]] \in Nat
      BY <1>1, Positive DEF Clock
    <2>. QED
      BY <1>1, <2>1 DEF Trim!Dead, Trim!Stale
  <1>4. CASE r \in pend[g] /\ r < mine[p]
    <2>1. r \in Trim!Ids /\ Trim!Needs(g, r)
      BY <1>2, <1>4, Positive DEF Trim!Needs
    <2>2. mine[p] <= r + MaxLen
      BY <1>3, <1>4, <2>1 DEF Close
    <2>. QED
      BY <1>1, <1>2, <2>2 DEF Near
  <1>5. CASE ~(r < mine[p])
    BY <1>1, <1>2, <1>5 DEF Near
  <1>. QED
    BY <1>4, <1>5

LEMMA TidyInvariant ==
    ASSUME Trim!TrimConstants,
           Trim!TypeOK, Trim!TypeOK', LookOK, Clock, TidyOK, [Trim!Next]_(Trim!vars) PROVE TidyOK'
  <1>. USE DEF Trim!streamVars, Trim!groupVars, Trim!lookVars
  <1>. SUFFICES ASSUME NEW p \in Publishers, tidy'[p], step'[p] # "idle" PROVE Kept(p)'
    BY DEF TidyOK
  <1>0. tidy[p] /\ step[p] # "idle" => Kept(p)
    BY DEF TidyOK
  <1>t. /\ newest \in Nat /\ now \in Nat
        /\ \A g \in groups : last[g] \in Nat
        /\ \A m \in 1..newest : stamp[m] \in Nat
    BY Positive
  <1>1. CASE Trim!Tick
    <2>1. Calm(p)
      BY <1>1, <1>t DEF Trim!Tick, Calm, Trim!Needs
    <2>. QED
      BY <1>0, <1>1, <2>1, KeptOn DEF Trim!Tick
  <1>2. ASSUME NEW g \in Groups, Trim!CreateGroup(g) PROVE FALSE
    BY <1>2 DEF Trim!CreateGroup
  <1>3. ASSUME NEW g \in Groups, Trim!Deliver(g) PROVE Kept(p)'
    <2>1. tidy[p] /\ ~Trim!Dead(g) /\ UNCHANGED <<now, Trim!streamVars, groups, step, Trim!lookVars, mine>>
      BY <1>3 DEF Trim!Deliver
    <2>2. PICK m \in Trim!Unread(g) : last' = [last EXCEPT ![g] = m]
                                 /\ pend' = [pend EXCEPT ![g] = @ \cup {m}]
      BY <1>3 DEF Trim!Deliver
    <2>3. m \in Nat /\ m > last[g] /\ last[g] \in Nat
      BY <2>2, Positive DEF Trim!Unread, Trim!TypeOK
    <2>4. /\ last'[g] = m /\ pend'[g] = pend[g] \cup {m}
          /\ \A h \in groups : h # g => last'[h] = last[h] /\ pend'[h] = pend[h]
      BY <2>2 DEF Trim!TypeOK
    <2>5. \A h \in groups, n \in Trim!Ids : Trim!Needs(h, n)' => Trim!Needs(h, n)
      BY <2>1, <2>3, <2>4, Trim!TrimConstants DEF Trim!Needs, Trim!Ids
    <2>6. Calm(p)
      BY <1>t, <2>1, <2>3, <2>4, <2>5 DEF Calm
    <2>. QED
      BY <1>0, <2>1, <2>6, KeptOn
  <1>4. ASSUME NEW g \in Groups, NEW m \in Trim!Ids, Trim!Settle(g, m) PROVE Kept(p)'
    <2>1. UNCHANGED <<now, Trim!streamVars, groups, last, step, Trim!lookVars, mine, tidy>>
      BY <1>4 DEF Trim!Settle
    <2>2. \A h \in Groups : pend'[h] \subseteq pend[h]
      BY <1>4 DEF Trim!Settle, Trim!TypeOK
    <2>3. Calm(p)
      BY <1>t, <2>1, <2>2, Positive DEF Calm, Trim!Needs
    <2>. QED
      BY <1>0, <2>1, <2>3, KeptOn
  <1>5. CASE UNCHANGED Trim!vars
    <2>1. Calm(p)
      BY <1>5, <1>t DEF Trim!vars, Calm, Trim!Needs
    <2>. QED
      BY <1>0, <1>5, <2>1, KeptOn DEF Trim!vars
  <1>6. ASSUME NEW q \in Publishers, q # p, Trim!Publish(q) PROVE Kept(p)'
    <2>1. /\ tidy'[p] = tidy[p] /\ step'[p] = step[p] /\ mine'[p] = mine[p]
          /\ seen'[p] = seen[p] /\ left'[p] = left[p] /\ required'[p] = required[p]
      <3>1. /\ DOMAIN tidy = Publishers /\ DOMAIN step = Publishers /\ DOMAIN mine = Publishers
            /\ DOMAIN seen = Publishers /\ DOMAIN left = Publishers /\ DOMAIN required = Publishers
        BY DEF Trim!TypeOK
      <3>2. ASSUME Trim!Return(q)
            PROVE  /\ step'[p] = step[p] /\ mine'[p] = mine[p]
                   /\ seen'[p] = seen[p] /\ left'[p] = left[p] /\ required'[p] = required[p]
        BY <1>6, <3>1, <3>2 DEF Trim!Return
      <3>3. CASE Trim!Append(q)
        BY <1>6, <3>1, <3>3 DEF Trim!Append
      <3>4. CASE Trim!CheckLength(q)
        BY <1>6, <3>1, <3>2, <3>4 DEF Trim!CheckLength
      <3>5. CASE Trim!Look(q)
        BY <1>6, <3>1, <3>5 DEF Trim!Look
      <3>6. CASE Trim!GiveUp(q) \/ Trim!Abort(q)
        BY <1>6, <3>1, <3>2, <3>6 DEF Trim!GiveUp, Trim!Abort
      <3>7. ASSUME NEW g \in Groups, Trim!Ignore(q, g) \/ Trim!Require(q, g)
            PROVE  /\ tidy'[p] = tidy[p] /\ step'[p] = step[p] /\ mine'[p] = mine[p]
                   /\ seen'[p] = seen[p] /\ left'[p] = left[p] /\ required'[p] = required[p]
        BY <1>6, <3>1, <3>7 DEF Trim!Ignore, Trim!Require, Trim!Judged
      <3>8. CASE Trim!TrimBelowRequired(q) \/ Trim!TrimToLength(q)
        BY <3>2, <3>8 DEF Trim!TrimBelowRequired, Trim!TrimToLength
      <3>. QED
        BY <1>6, <3>3, <3>4, <3>5, <3>6, <3>7, <3>8 DEF Trim!Publish
    <2>2. UNCHANGED <<now, Trim!groupVars>>
      BY <1>6 DEF Trim!Publish, Trim!Append, Trim!CheckLength, Trim!Look, Trim!GiveUp, Trim!Ignore, Trim!Require, Trim!Judged,
                  Trim!TrimBelowRequired, Trim!TrimToLength, Trim!Abort
    <2>3. newest <= newest' /\ \A m \in 1..newest : stamp'[m] = stamp[m]
      <3>1. CASE Trim!Append(q)
        BY <1>t, <3>1 DEF Trim!Append, Trim!TypeOK
      <3>2. CASE ~Trim!Append(q)
        <4>1. UNCHANGED <<newest, stamp>>
          BY <1>6, <3>2 DEF Trim!Publish, Trim!CheckLength, Trim!Look, Trim!GiveUp, Trim!Ignore, Trim!Require, Trim!Judged,
                            Trim!TrimBelowRequired, Trim!TrimToLength, Trim!Abort
        <4>. QED
          BY <1>t, <4>1
      <3>. QED
        BY <3>1, <3>2
    <2>4. Calm(p)
      BY <1>t, <2>2, <2>3 DEF Calm, Trim!Needs
    <2>. QED
      BY <1>0, <2>1, <2>4, KeptOn
  <1>7. CASE Trim!Append(p)
    <2>1. /\ newest' = newest + 1 /\ mine'[p] = newest + 1 /\ step'[p] = "len"
          /\ now' = now /\ UNCHANGED Trim!groupVars
          /\ \A g \in groups : last[g] > 0 /\ (Trim!Dead(g) \/ Trim!KeepsUp(g))
          /\ \A m \in 1..newest : stamp'[m] = stamp[m]
      BY <1>7, <1>t DEF Trim!Append, Trim!TypeOK
    <2>2. ASSUME NEW g \in groups PROVE Close(p, g)'
      <3>1. CASE Trim!Dead(g)
        <4>1. last[g] \in 1..newest
          BY <2>1, Positive
        <4>. QED
          BY <2>1, <3>1, <4>1 DEF Close, Trim!Dead
      <3>2. CASE Trim!KeepsUp(g)
        <4>1. ASSUME NEW m \in Trim!Ids, m < mine'[p], Trim!Needs(g, m)' PROVE mine'[p] <= m + MaxLen
          <5>1. m \in Nat /\ MaxLen \in Nat
            BY DEF Trim!Ids
          <5>2. m <= newest /\ Trim!Needs(g, m)
            BY <1>t, <2>1, <4>1, <5>1 DEF Trim!Needs
          <5>3. m + MaxLen > newest
            BY <3>2, <5>2 DEF Trim!KeepsUp
          <5>. QED
            BY <1>t, <2>1, <5>1, <5>3
        <4>. QED
          BY <4>1 DEF Close
      <3>. QED
        BY <2>1, <3>1, <3>2
    <2>. QED
      BY <2>1, <2>2 DEF Kept
  <1>8. CASE Trim!CheckLength(p)
    <2>1. step'[p] = "groups" /\ step[p] # "idle" /\ UNCHANGED <<now, Trim!streamVars, Trim!groupVars, mine, tidy>>
      BY <1>8 DEF Trim!CheckLength, Trim!Return, Trim!TypeOK
    <2>2. Calm(p)
      BY <1>t, <2>1 DEF Calm, Trim!Needs
    <2>. QED
      BY <1>0, <2>1, <2>2, KeptOn
  <1>9. CASE Trim!Look(p)
    <2>1. /\ step[p] # "idle" /\ UNCHANGED <<now, Trim!streamVars, Trim!groupVars, mine, tidy>>
          /\ left'[p] = groups /\ required'[p] = {} /\ groups \subseteq Groups
          /\ \A g \in groups : seen'[p][g] = last[g]
      BY <1>9 DEF Trim!Look, Trim!TypeOK
    <2>2. Kept(p)
      BY <1>0, <2>1
    <2>3. ASSUME NEW g \in groups PROVE last[g] > 0 /\ (Trim!Stale(last[g]) \/ Near(p, last[g]))
      BY <2>2, ReadNear DEF Kept
    <2>4. ASSUME NEW g \in groups PROVE Close(p, g)'
      BY <2>1, <2>2 DEF Kept, Close, Trim!Dead, Trim!Needs
    <2>5. ASSUME NEW g \in groups
          PROVE  seen'[p][g] > 0 /\ (Trim!Stale(seen[p][g])' \/ Near(p, seen[p][g])')
      BY <2>1, <2>3 DEF Trim!Stale, Near
    <2>. QED
      BY <2>1, <2>2, <2>4, <2>5 DEF Kept
  <1>10. CASE Trim!GiveUp(p) \/ Trim!TrimBelowRequired(p) \/ Trim!TrimToLength(p) \/ Trim!Abort(p)
    BY <1>10 DEF Trim!GiveUp, Trim!TrimBelowRequired, Trim!TrimToLength, Trim!Abort, Trim!Return, Trim!TypeOK
  <1>11. ASSUME NEW g \in Groups, Trim!Ignore(p, g) \/ Trim!Require(p, g) PROVE Kept(p)'
    <2>1. /\ step[p] = "judge" /\ g \in left[p] /\ left'[p] = left[p] \ {g}
          /\ UNCHANGED <<now, Trim!streamVars, Trim!groupVars, step, seen, mine, tidy>>
      BY <1>11 DEF Trim!Ignore, Trim!Require, Trim!Judged, Trim!TypeOK
    <2>2. Calm(p)
      BY <1>t, <2>1 DEF Calm, Trim!Needs
    <2>3. Kept(p)
      BY <1>0, <2>1
    <2>4. ASSUME NEW r \in required'[p] PROVE r \in required[p] \/ Near(p, r)
      <3>1. CASE Trim!Ignore(p, g)
        BY <2>4, <3>1 DEF Trim!Ignore
      <3>2. CASE Trim!Require(p, g)
        <4>1. r \in required[p] \/ r \in pend[g] \cup {seen[p][g]}
          BY <2>4, <3>2 DEF Trim!Require, Trim!TypeOK
        <4>2. g \in groups /\ seen[p][g] <= last[g]
          BY <2>1 DEF LookOK
        <4>3. ~Trim!Stale(seen[p][g])
          BY <3>2 DEF Trim!Require
        <4>4. Close(p, g) /\ seen[p][g] > 0 /\ Near(p, seen[p][g])
          BY <2>1, <2>3, <4>2, <4>3 DEF Kept
        <4>. QED
          BY <4>1, <4>2, <4>3, <4>4, RequiredNear
      <3>. QED
        BY <1>11, <3>1, <3>2
    <2>. QED
      BY <2>1, <2>2, <2>3, <2>4, KeptOn
  <1>. QED
    BY <1>1, <1>2, <1>3, <1>4, <1>5, <1>6, <1>7, <1>8, <1>9, <1>10, <1>11 DEF Trim!Next, Trim!Publish, Trim!Consume

LEMMA TidyAlways ==
    ASSUME Trim!TrimConstants
    PROVE  Trim!Spec => [](Trim!TypeOK /\ Clock /\ TidyOK)
  <1>1. Trim!Init => Clock /\ TidyOK
    BY DEF Trim!Init, Clock, TidyOK
  <1>2. Trim!TypeOK /\ Trim!TypeOK' /\ LookOK /\ Clock /\ TidyOK /\ [Trim!Next]_(Trim!vars) => Clock' /\ TidyOK'
    BY ClockRuns, TidyInvariant
  <1>. QED
    BY <1>1, <1>2, LookAlwaysOK, PTL DEF Trim!Spec

\* At most n + 1 ids lie below an id and no further than n + 1 from it.
LEMMA Window ==
    ASSUME NEW n \in Nat, NEW top \in Nat, NEW S \in SUBSET Nat,
           \A m \in S : m < top /\ top <= m + n + 1
    PROVE  Cardinality(S) <= n + 1
  <1>. DEFINE low == top - (n + 1)
              W == low .. (top - 1)
  <1>1. low \in Int /\ top - 1 \in Int /\ low <= top - 1
    OBVIOUS
  <1>2. IsFiniteSet(W) /\ Cardinality(W) = (top - 1) - low + 1
    BY <1>1, FS_Interval
  <1>3. Cardinality(W) = n + 1
    BY <1>2
  <1>4. S \subseteq W
    OBVIOUS
  <1>. HIDE DEF W
  <1>. QED
    BY <1>2, <1>3, <1>4, FS_Subset

\* One step: what a tidy trim leaves.
LEMMA StepBounds ==
    ASSUME Trim!TrimConstants,
           Trim!TypeOK, TidyOK, [Trim!Next]_(Trim!vars), NEW p \in Publishers,
           Trim!Answered(p), step'[p] = "idle", required[p] # {}, tidy'[p]
    PROVE  Cardinality({m \in entries' : m < mine[p]}) <= MaxLen + 1
  <1>1. Trim!TrimBelowRequired(p)
    <2>1. Trim!TrimBelowRequired(p) \/ Trim!Abort(p)
      BY EndsSo
    <2>2. ~Trim!Abort(p)
      BY DEF Trim!Abort, Trim!TypeOK
    <2>. QED
      BY <2>1, <2>2
  <1>2. Kept(p) /\ step[p] = "judge"
    BY <1>1 DEF Trim!TrimBelowRequired, Trim!Answered, TidyOK
  <1>3. MaxLen \in Nat /\ mine[p] \in Nat /\ required[p] \subseteq Nat /\ entries \subseteq Nat
    BY Positive DEF Trim!TypeOK
  <1>. DEFINE S == {m \in entries' : m < mine[p]}
  <1>4. ASSUME NEW m \in S PROVE m \in Nat /\ m < mine[p] /\ mine[p] <= m + MaxLen + 1
    <2>1. PICK r \in required[p] : r <= m
      BY <1>1 DEF Trim!TrimBelowRequired
    <2>2. mine[p] <= r + MaxLen + 1
      BY <1>2 DEF Kept, Near
    <2>3. m \in Nat
      BY <1>1, <1>3 DEF Trim!TrimBelowRequired
    <2>. QED
      BY <1>3, <2>1, <2>2, <2>3
  <1>. HIDE DEF S
  <1>5. Cardinality(S) <= MaxLen + 1
    BY <1>3, <1>4, Window
  <1>. QED
    BY <1>5 DEF S

\* The library's operator is the same in an instance.
LEMMA SameCardinality == \A S : Trim!Cardinality(S) = Cardinality(S)
BY DEF Trim!Cardinality, Cardinality

\* A group nobody reads does not hold the stream: when every other
\* group keeps up as a publish starts, whatever the others do meanwhile, the
\* exact trim leaves at most MaxLen older entries and the one last read
\* (_group_is_stale).
THEOREM TheDeadHoldNothing == Trim!TrimConstants => (Trim!Spec => Trim!DeadGroupsDoNotHold)
  <1>. SUFFICES ASSUME Trim!TrimConstants PROVE Trim!Spec => Trim!DeadGroupsDoNotHold
    OBVIOUS
  <1>1. Trim!TypeOK /\ TidyOK /\ [Trim!Next]_(Trim!vars) =>
           [\A p \in Publishers :
               Trim!Answered(p) /\ step'[p] = "idle" /\ required[p] # {} /\ tidy'[p]
                  => Trim!Cardinality({m \in entries' : m < mine[p]}) <= MaxLen + 1]_(Trim!vars)
    BY StepBounds, SameCardinality
  <1>. QED
    BY <1>1, TidyAlways, PTL DEF Trim!Spec, Trim!DeadGroupsDoNotHold
=============================================================================
