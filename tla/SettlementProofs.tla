------------------------- MODULE SettlementProofs -------------------------
(***************************************************************************)
(* For any messages, replicas, prices and numbers of faults, lapses and    *)
(* deliveries: a piece of work is charged at most once, and an entry is    *)
(* not settled for free.  The account is keyed, so what has to be shown is *)
(* that a key is the name of a piece of work and that what each loop is    *)
(* about to do is what its message is owed.                                *)
(***************************************************************************)
EXTENDS Settlement, TLAPS

\* What was charged for: each row is that of a message that is not skipped, and
\* no key is there twice.
LedgerOK ==
    /\ \A e \in ledger : \E m \in Published :
          /\ ~Skipped(m) /\ e.key = Key(m) /\ e.work = Work(m)
          /\ e.type = ChargeType(m) /\ e.seconds = Seconds(m)
    /\ \A d, e \in ledger : d.key = e.key => d = e

\* What a loop is about to do is what its message is owed.
Fits(j) == j # Idle =>
    /\ j.msg \in Published
    /\ j.at \in {"charge", "refused", "expired", "mark"} => ~Skipped(j.msg)
    /\ j.at = "mark" => j.msg \in turnedDown
    /\ j.at = "ack" => Owed(j.msg)

JobOK == \A l \in Loop : Fits(job[l])

Right == LedgerOK /\ JobOK /\ NothingForFree

-----------------------------------------------------------------------------
(* Constants. *)

LEMMA Numbers ==
    /\ MaxAttempts \in Nat /\ MaxDeliveries \in Nat /\ MaxPlans \in Nat /\ MaxCredits \in Nat
    /\ MaxFaults \in Nat /\ MaxTurns \in Nat /\ Rate \in Nat
    /\ 1 <= MaxDeliveries /\ 1 <= MaxPlans
BY Bounds

LEMMA Said ==
    ASSUME NEW m \in Messages
    PROVE  /\ Says[m].stream \in {"live", "backfill", "dub"} /\ Says[m].room \in Rooms
           /\ Says[m].seconds \in Nat /\ Says[m].span \in Nat /\ Says[m].early \in BOOLEAN
BY WellFormed DEF Streams

LEMMA PriceIsWhole == ASSUME NEW m \in Messages PROVE Price(m) \in Nat \ {0}
<1>1. Seconds(m) \in Nat BY Said DEF Seconds, TranslationSeconds
<1>2. ASSUME NEW s \in Nat PROVE Credits(s) \in Nat \ {0}
  <2>1. s * Rate + 9 \in Nat BY Numbers
  <2>2. (s * Rate + 9) \div 10 \in Int BY <2>1
  <2> QED BY <2>2 DEF Credits
<1> QED BY <1>1, <1>2 DEF Price

LEMMA SamePlace ==
    ASSUME NEW m \in Messages, NEW n \in Messages, Work(m) = Work(n)
    PROVE  Says[m].stream = Says[n].stream /\ Says[m].lang = Says[n].lang
BY DEF Work

\* Messages of one piece of work name one charge.
LEMMA WorkHasOneKey ==
    ASSUME NEW m \in Messages, NEW n \in Messages, Work(m) = Work(n), ~Skipped(m), ~Skipped(n)
    PROVE  Key(m) = Key(n)
<1> USE SamePlace, WorkIsNamed
<1>1. CASE Says[m].stream = "dub" BY <1>1 DEF Key, ChunkBilled
<1>2. CASE Says[m].stream = "backfill" BY <1>2 DEF Key, ChunkBilled
<1>3. CASE Says[m].stream = "live" /\ ChunkBilled(m) BY <1>3 DEF Key, ChunkBilled
<1>4. CASE Says[m].stream = "live" /\ ~ChunkBilled(m)
  <2>1. Says[m].chunk = None /\ Says[n].chunk = None BY <1>4 DEF ChunkBilled
  <2>2. ~Says[m].early /\ ~Says[n].early BY <1>4, <2>1 DEF Skipped, ChunkBilled
  <2>3. Says[m].segment = Says[n].segment /\ (Says[m].segment = None => Says[m].part = Says[n].part)
    BY <2>1, <2>2
  <2>4. BillingSegment(m) = BillingSegment(n) BY <2>3 DEF BillingSegment
  <2> QED BY <1>4, <2>1, <2>4 DEF Key, ChunkBilled
<1> QED BY <1>1, <1>2, <1>3, <1>4, Said

\* And one charge is named by messages of one piece of work only.
LEMMA KeyHasOneWork ==
    ASSUME NEW m \in Messages, NEW n \in Messages, Key(m) = Key(n), ~Skipped(m), ~Skipped(n)
    PROVE  Work(m) = Work(n)
<1>1. Says[m].stream = Says[n].stream /\ (ChunkBilled(m) <=> ChunkBilled(n))
  BY Said DEF Key, ChunkBilled
<1>2. Says[m].lang = Says[n].lang BY <1>1, Said DEF Key, ChunkBilled
<1>3. Says[m].speech = Says[n].speech
  <2> SUFFICES ASSUME Says[m].speech # Says[n].speech PROVE FALSE OBVIOUS
  <2>0. Says[m].part # Says[n].part /\ Says[m].segment # Says[n].part /\ Says[n].segment # Says[m].part
    BY <1>1, NamesAreUnique
  <2>1. CASE Says[m].stream = "dub" BY <2>0, <2>1, <1>1 DEF Key, ChunkBilled
  <2>2. CASE Says[m].stream = "backfill"
    <3>1. Says[m].segment = Says[n].segment BY <1>1, <2>2 DEF Key, ChunkBilled
    <3>2. Says[m].segment # None BY <2>2 DEF Skipped
    <3> QED BY <3>1, <3>2, <1>1, <2>2, NamesAreUnique
  <2>3. CASE Says[m].stream = "live" /\ ChunkBilled(m)
    <3>1. Says[m].room = Says[n].room /\ Says[m].chunk = Says[n].chunk BY <1>1, <2>3 DEF Key, ChunkBilled
    <3> QED BY <3>1, <2>3, <1>1, NamesAreUnique DEF ChunkBilled
  <2>4. CASE Says[m].stream = "live" /\ ~ChunkBilled(m)
    <3>1. BillingSegment(m) = BillingSegment(n) BY <1>1, <2>4 DEF Key, ChunkBilled
    <3>2. Says[m].segment = Says[n].segment /\ Says[m].segment # None
      BY <3>1, <2>0 DEF BillingSegment
    <3>3. Says[m].chunk = None /\ Says[n].chunk = None BY <2>4, <1>1 DEF ChunkBilled
    <3> QED BY <3>2, <3>3, <2>4, <1>1, NamesAreUnique
  <2> QED BY <2>1, <2>2, <2>3, <2>4, Said
<1> QED BY <1>1, <1>2, <1>3 DEF Work

-----------------------------------------------------------------------------
(* The rows of the ledger. *)

\* A charge is for its message, and writing it is what pays.
LEMMA SettleIsRight ==
    ASSUME NEW m \in Published, NEW p, LedgerOK, Settle(m, p), ~Skipped(m), Published' = Published,
           Published \subseteq Messages
    PROVE  /\ LedgerOK'
           /\ ledger \subseteq ledger'
           /\ ~Refused(m, p) => Paid(m)'
<1> DEFINE row == [key |-> Key(m), type |-> ChargeType(m), ref |-> Reference(m),
                   work |-> Work(m), seconds |-> Seconds(m), plan |-> p]
<1>0. m \in Messages OBVIOUS
<1>1. CASE Probed(m) \/ Refused(m, p) \/ Charged(Key(m))
  <2>1. ledger' = ledger BY <1>1 DEF Settle
  <2>2. ASSUME ~Refused(m, p) PROVE Paid(m)'
    <3>1. PICK e \in ledger : e.key = Key(m) BY <1>1, <2>2 DEF Probed, Charged
    <3>2. PICK n \in Published : ~Skipped(n) /\ e.key = Key(n) /\ e.work = Work(n) BY DEF LedgerOK
    <3>3. Work(n) = Work(m) BY <3>1, <3>2, <1>0, KeyHasOneWork
    <3> QED BY <3>2, <3>3, <2>1 DEF Paid
  <2> QED BY <2>1, <2>2 DEF LedgerOK
<1>2. CASE ~(Probed(m) \/ Refused(m, p) \/ Charged(Key(m)))
  <2>1. ledger' = ledger \cup {row} BY <1>2 DEF Settle
  <2>2. row.key = Key(m) /\ row.work = Work(m) /\ row.type = ChargeType(m) /\ row.seconds = Seconds(m)
    OBVIOUS
  <2>3. \A e \in ledger : e.key # Key(m) BY <1>2 DEF Charged
  <2> HIDE DEF row
  <2>4. ASSUME NEW e \in ledger'
        PROVE  \E n \in Published : /\ ~Skipped(n) /\ e.key = Key(n) /\ e.work = Work(n)
                                     /\ e.type = ChargeType(n) /\ e.seconds = Seconds(n)
    BY <2>1, <2>2 DEF LedgerOK
  <2>5. ASSUME NEW d \in ledger', NEW e \in ledger', d.key = e.key PROVE d = e
    BY <2>1, <2>2, <2>3, <2>5 DEF LedgerOK
  <2>6. Paid(m)' BY <2>1, <2>2 DEF Paid
  <2> QED BY <2>1, <2>4, <2>5, <2>6 DEF LedgerOK
<1> QED BY <1>1, <1>2

\* Two rows of one piece of work have one key, and a key one row.
LEMMA LedgerIsOnce == ASSUME LedgerOK, Published \subseteq Messages PROVE ChargedOnce
<1> SUFFICES ASSUME NEW d \in ledger, NEW e \in ledger, d.work = e.work PROVE d = e
  BY DEF ChargedOnce
<1>1. PICK m \in Published : ~Skipped(m) /\ d.key = Key(m) /\ d.work = Work(m) BY DEF LedgerOK
<1>2. PICK n \in Published : ~Skipped(n) /\ e.key = Key(n) /\ e.work = Work(n) BY DEF LedgerOK
<1>3. Key(m) = Key(n) BY <1>1, <1>2, WorkHasOneKey
<1> QED BY <1>1, <1>2, <1>3 DEF LedgerOK

\* What any message that is charged says of its stretch of audio is how long it is.
LEMMA SecondsOfTheWork ==
    ASSUME NEW m \in Messages, NEW n \in Messages, Work(m) = Work(n), ~Skipped(n),
           Says[m].stream # "dub", Says[m].seconds > 0
    PROVE  Seconds(n) = Says[m].seconds
<1>1. Says[n].stream = Says[m].stream /\ Says[n].stream # "dub" BY SamePlace
<1>2. Says[n].seconds = Says[m].seconds BY SpeechIsTimed
<1>3. CASE ChunkBilled(n) BY <1>2, <1>3 DEF Seconds
<1>4. CASE ~ChunkBilled(n)
  <2>1. Says[n].stream = "backfill" \/ (Says[n].chunk = None /\ ~Says[n].early)
    BY <1>1, <1>4, Said DEF Skipped, ChunkBilled
  <2>2. Says[n].span = Says[n].seconds BY <1>1, <2>1, SpeechIsTimed
  <2> QED BY <1>1, <1>2, <1>4, <2>2 DEF Seconds, TranslationSeconds
<1> QED BY <1>3, <1>4

LEMMA LedgerIsInFull == ASSUME LedgerOK, Published \subseteq Messages PROVE ChargedInFull
<1> SUFFICES ASSUME NEW e \in ledger
    PROVE  /\ \A m \in Published : Work(m) = e.work /\ Says[m].stream # "dub" /\ Says[m].seconds > 0
                 => e.seconds = Says[m].seconds
           /\ e.work[1] = "dub" => \E m \in Published :
                 Work(m) = e.work /\ ChargeType(m) = e.type /\ Says[m].seconds = e.seconds
  BY DEF ChargedInFull
<1>1. PICK n \in Published : /\ ~Skipped(n) /\ e.work = Work(n)
                             /\ e.type = ChargeType(n) /\ e.seconds = Seconds(n)
  BY DEF LedgerOK
<1>2. ASSUME NEW m \in Published, Work(m) = e.work, Says[m].stream # "dub", Says[m].seconds > 0
      PROVE  e.seconds = Says[m].seconds
  BY <1>1, <1>2, SecondsOfTheWork
<1>3. ASSUME e.work[1] = "dub" PROVE Seconds(n) = Says[n].seconds
  BY <1>1, <1>3 DEF Work, Seconds
<1> QED BY <1>1, <1>2, <1>3

-----------------------------------------------------------------------------
(* Types. *)

LEMMA Holding ==
    ASSUME TypeOK, NEW l \in Loop, job[l] # Idle
    PROVE  /\ job[l] \in Jobs /\ job[l].msg \in Published /\ job[l].msg \in Messages
           /\ Says[job[l].msg].room \in Rooms
<1>1. job[l] \in Jobs BY DEF TypeOK
<1>2. job[l].msg \in Published /\ Published \subseteq Messages BY <1>1, WellFormed DEF TypeOK, Jobs
<1> QED BY <1>1, <1>2, Said

LEMMA Busy ==
    ASSUME TypeOK, NEW l \in Loop, NEW step \in Steps, Now(l, step)
    PROVE  job[l] # Idle
BY DEF Now, Idle, Steps

\* What the type of the jobs asks of a step of one loop.
JobsTyped == DOMAIN job = Loop /\ \A l \in Loop : job[l] = Idle \/ job[l] \in Jobs

LEMMA JobStepTyped ==
    ASSUME TypeOK, NEW l \in Loop, NEW j, job' = [job EXCEPT ![l] = j],
           j = Idle \/ j \in Jobs, Published' = Published
    PROVE  JobsTyped'
<1>1. Jobs' = Jobs /\ Idle' = Idle /\ Loop' = Loop BY DEF Jobs
<1> QED BY <1>1 DEF TypeOK, JobsTyped

LEMMA GoTyped ==
    ASSUME TypeOK, NEW l \in Loop, job[l] # Idle, NEW step \in Steps
    PROVE  [job[l] EXCEPT !.at = step] \in Jobs
BY Holding DEF Jobs

LEMMA FailTyped ==
    ASSUME TypeOK, NEW l \in Loop, job[l] # Idle, Fail(l), Published' = Published
    PROVE  JobsTyped'
<1>1. CASE job[l].again
  <2>1. [job[l] EXCEPT !.at = "failed"] \in Jobs BY GoTyped DEF Steps
  <2> QED BY <1>1, <2>1, JobStepTyped DEF Fail
<1>2. CASE ~job[l].again
  <2>1. job' = [job EXCEPT ![l] = Idle] BY <1>2 DEF Fail
  <2> QED BY <2>1, JobStepTyped
<1> QED BY <1>1, <1>2

LEMMA GoesTyped ==
    ASSUME TypeOK, NEW l \in Loop, job[l] # Idle, NEW step \in Steps, Go(l, step),
           Published' = Published
    PROVE  JobsTyped'
<1>1. job' = [job EXCEPT ![l] = [job[l] EXCEPT !.at = step]] BY DEF Go, TypeOK
<1> QED BY <1>1, GoTyped, JobStepTyped

\* What is left of the type once the jobs are typed.
RestTyped ==
    /\ Published \in Batches
    /\ state \in [Published -> {"new", "pending", "settled"}]
    /\ deliveries \in [Published -> 0..MaxDeliveries]
    /\ parked \subseteq Published /\ unbilled \subseteq Published /\ uncounted \subseteq Published
    /\ cached \in [Replicas -> [Rooms -> 0..MaxPlans]]
    /\ recalled \in [Replicas -> 0..MaxPlans]
    /\ known \subseteq Rooms
    /\ plan \in 0..MaxPlans /\ plans \in 0..MaxPlans /\ credits \in 0..MaxCredits
    /\ mark \in [Rooms -> {"runs", "stopped", "missed"}]
    /\ faults \in 0..MaxFaults /\ turns \in 0..MaxTurns

LEMMA TypeParts == TypeOK <=> RestTyped /\ JobsTyped
BY DEF TypeOK, RestTyped, JobsTyped

LEMMA NextTypeParts == TypeOK' <=> RestTyped' /\ JobsTyped'
BY DEF TypeOK, RestTyped, JobsTyped

LEMMA FaultTyped == ASSUME TypeOK, Fault PROVE faults' \in 0..MaxFaults
BY Numbers DEF TypeOK, Fault

LEMMA CountTyped ==
    ASSUME TypeOK, NEW m \in Published, Count(m), Published' = Published
    PROVE  /\ unbilled' \subseteq Published' /\ uncounted' \subseteq Published' /\ faults' \in 0..MaxFaults
BY FaultTyped DEF Count, TypeOK

LEMMA TurnTyped == ASSUME TypeOK, Turn PROVE turns' \in 0..MaxTurns
BY Numbers DEF TypeOK, Turn

\* A charge keeps the credits in their range.
LEMMA SettleTyped ==
    ASSUME TypeOK, NEW m \in Messages, NEW p, Settle(m, p)
    PROVE  credits' \in 0..MaxCredits
<1>1. CASE Probed(m) \/ Refused(m, p) \/ Charged(Key(m)) BY <1>1 DEF Settle, TypeOK
<1>2. CASE ~(Probed(m) \/ Refused(m, p) \/ Charged(Key(m)))
  <2>1. credits' = credits - Price(m) BY <1>2 DEF Settle
  <2>2. Price(m) \in Nat \ {0} BY PriceIsWhole
  <2>3. credits \in 0..MaxCredits BY DEF TypeOK
  <2>4. ~(Price(m) > credits) BY <1>2 DEF Refused
  <2> QED BY <2>1, <2>2, <2>3, <2>4, Numbers
<1> QED BY <1>1, <1>2

LEMMA InitTyped == Init => TypeOK
<1> SUFFICES ASSUME Init PROVE TypeOK OBVIOUS
<1>1. PICK batch \in Batches : /\ state = [m \in batch |-> "new"]
                              /\ deliveries = [m \in batch |-> 0]
  BY DEF Init
<1>2. Published = batch BY <1>1 DEF Published
<1>3. 0 \in 0..MaxDeliveries /\ 0 \in 0..MaxPlans /\ 1 \in 0..MaxPlans /\ 0 \in 0..MaxFaults
      /\ 0 \in 0..MaxTurns /\ 0 \in 0..MaxCredits /\ MaxCredits \in 0..MaxCredits
  BY Numbers
<1>4. plan \in 0..MaxPlans /\ plans \in 0..MaxPlans /\ credits \in 0..MaxCredits
  BY <1>3, Numbers DEF Init
<1>5. RestTyped BY <1>1, <1>2, <1>3, <1>4 DEF Init, RestTyped
<1>6. JobsTyped BY DEF Init, JobsTyped
<1> QED BY <1>5, <1>6, TypeParts

LEMMA QueueStays == queue' = queue => Published' = Published
BY DEF queue, Published

\* The steps of one loop that change the queue.
LEMMA QueueStepTyped ==
    ASSUME TypeOK, NEW l \in Loop,
           (\E m \in Published : Read(l, m) \/ Reclaim(l, m)) \/ Ack(l) \/ Park(l) \/ AckFails(l)
    PROVE  TypeOK'
<1>0. RestTyped BY TypeParts
<1>1. ASSUME NEW m \in Published, Read(l, m) PROVE TypeOK'
  <2>1. Published' = Published BY <1>1 DEF Read, Published, TypeOK
  <2>2. At("handle", m, 0, FALSE) \in Jobs BY Numbers DEF Jobs, At, Steps
  <2>3. JobsTyped' BY <1>1, <2>1, <2>2, JobStepTyped DEF Read
  <2>4. RestTyped' BY <1>0, <1>1, <2>1, Numbers DEF Read, RestTyped, counts, memory, account
  <2> QED BY <2>3, <2>4, NextTypeParts
<1>2. ASSUME NEW m \in Published, Reclaim(l, m) PROVE TypeOK'
  <2>1. Published' = Published BY <1>2 DEF Reclaim, Published, TypeOK
  <2>2. At("handle", m, 0, TRUE) \in Jobs BY Numbers DEF Jobs, At, Steps
  <2>3. JobsTyped' BY <1>2, <2>1, <2>2, JobStepTyped DEF Reclaim
  <2>4. deliveries' \in [Published -> 0..MaxDeliveries]
    BY <1>0, <1>2, Numbers DEF Reclaim, RestTyped
  <2>5. RestTyped' BY <1>0, <1>2, <2>1, <2>4 DEF Reclaim, RestTyped, counts, memory, account
  <2> QED BY <2>3, <2>5, NextTypeParts
<1>3. CASE Ack(l)
  <2>0. job[l].msg \in Published BY <1>3, Busy, Holding DEF Ack, Steps
  <2>1. Published' = Published BY <1>3, <2>0 DEF Ack, Published, TypeOK
  <2>2. JobsTyped' BY <1>3, <2>1, JobStepTyped DEF Ack
  <2>3. RestTyped' BY <1>0, <1>3, <2>0, <2>1 DEF Ack, RestTyped, counts, memory, account, Message
  <2> QED BY <2>2, <2>3, NextTypeParts
<1>4. CASE Park(l)
  <2>0. job[l] # Idle /\ job[l].msg \in Published BY <1>4, Busy, Holding DEF Park, Steps
  <2>1. Published' = Published BY <1>4 DEF Park, Published
  <2>2. JobsTyped'
    <3>1. CASE Go(l, "ack") BY <3>1, <2>0, <2>1, GoesTyped DEF Steps
    <3>2. CASE job' = [job EXCEPT ![l] = Idle] BY <3>2, <2>1, JobStepTyped
    <3> QED BY <1>4, <3>1, <3>2 DEF Park
  <2>3. RestTyped' BY <1>0, <1>4, <2>0, <2>1 DEF Park, RestTyped, counts, memory, account, Message
  <2> QED BY <2>2, <2>3, NextTypeParts
<1>5. CASE AckFails(l)
  <2>1. Published' = Published BY <1>5, QueueStays DEF AckFails
  <2>2. JobsTyped' BY <1>5, <2>1, JobStepTyped DEF AckFails
  <2>3. RestTyped' BY <1>0, <1>5, <2>1, FaultTyped DEF AckFails, RestTyped, counts, queue, memory, account
  <2> QED BY <2>2, <2>3, NextTypeParts
<1> QED BY <1>1, <1>2, <1>3, <1>4, <1>5

\* The steps of one loop that leave the queue alone.
LEMMA HandlerStepTyped ==
    ASSUME TypeOK, NEW l \in Loop,
           \/ Skip(l) \/ Resolve(l) \/ NoProjection(l) \/ NoSubscription(l)
           \/ NobodyToBill(l) \/ Charge(l) \/ Note(l) \/ NoteBackfill(l) \/ Mark(l) \/ ChargeFails(l) \/ MarkFails(l)
    PROVE  TypeOK'
<1> DEFINE m == job[l].msg
           p == job[l].plan
<1>0. RestTyped BY TypeParts
<1>1. queue' = queue
  BY DEF Skip, Resolve, NoProjection, NoSubscription, NobodyToBill, Charge,
         Note, NoteBackfill, Mark, ChargeFails, MarkFails
<1>2. Published' = Published BY <1>1, QueueStays
<1>3. job[l] # Idle
  BY Busy DEF Steps, Skip, Resolve, NoProjection, Unresolved, NoSubscription,
              NobodyToBill, Charge, Note, NoteBackfill, Mark, ChargeFails, MarkFails
<1>4. m \in Published /\ m \in Messages /\ Says[m].room \in Rooms /\ p \in 0..MaxPlans /\ job[l].again \in BOOLEAN
  BY <1>3, Holding DEF Jobs
<1>5. ASSUME NEW step \in Steps, Go(l, step) PROVE JobsTyped'
  BY <1>2, <1>3, <1>5, GoesTyped
<1>6. CASE Skip(l)
  <2>1. JobsTyped' BY <1>5, <1>6 DEF Skip, Steps
  <2>2. RestTyped' BY <1>0, <1>2, <1>6 DEF Skip, RestTyped, counts, queue, memory, account
  <2> QED BY <2>1, <2>2, NextTypeParts
<1>7. CASE Resolve(l)
  <2>1. CachedPlan(l, m) \in 0..MaxPlans /\ plan \in 0..MaxPlans
    BY <1>0, <1>4 DEF RestTyped, CachedPlan, Loop
  <2>2. JobsTyped'
    <3>1. At("charge", m, CachedPlan(l, m), job[l].again) \in Jobs
          /\ At("charge", m, plan, job[l].again) \in Jobs
      BY <1>4, <2>1 DEF At, Jobs, Steps
    <3>2. \/ job' = [job EXCEPT ![l] = At("charge", m, CachedPlan(l, m), job[l].again)]
          \/ job' = [job EXCEPT ![l] = At("charge", m, plan, job[l].again)]
      BY <1>7 DEF Resolve, Message, TypeOK
    <3> QED BY <1>2, <3>1, <3>2, JobStepTyped
  <2>3. cached' \in [Replicas -> [Rooms -> 0..MaxPlans]] /\ recalled' \in [Replicas -> 0..MaxPlans]
    <3>1. CASE UNCHANGED memory BY <1>0, <3>1 DEF memory, RestTyped
    <3>2. CASE Remember(l, m, plan)
      <4>1. l[1] \in Replicas BY DEF Loop
      <4>2. CASE Backfill(m)
        <5>1. recalled' = [recalled EXCEPT ![l[1]] = plan] /\ cached' = cached
          BY <3>2, <4>2 DEF Remember
        <5> QED BY <1>0, <2>1, <4>1, <5>1 DEF RestTyped
      <4>3. CASE ~Backfill(m)
        <5>1. cached' = [cached EXCEPT ![l[1]][Says[m].room] = plan] /\ recalled' = recalled
          BY <3>2, <4>3 DEF Remember
        <5>2. cached[l[1]] \in [Rooms -> 0..MaxPlans] BY <1>0, <4>1 DEF RestTyped
        <5>3. [cached[l[1]] EXCEPT ![Says[m].room] = plan] \in [Rooms -> 0..MaxPlans]
          BY <2>1, <5>2
        <5>4. cached' = [cached EXCEPT ![l[1]] = [cached[l[1]] EXCEPT ![Says[m].room] = plan]]
          BY <5>1
        <5> QED BY <1>0, <4>1, <5>1, <5>3, <5>4 DEF RestTyped
      <4> QED BY <4>2, <4>3
    <3> QED BY <1>7, <3>1, <3>2 DEF Resolve, Message
  <2>4. RestTyped' BY <1>0, <1>2, <1>7, <2>3 DEF Resolve, RestTyped, counts, queue, account
  <2> QED BY <2>2, <2>4, NextTypeParts
<1>8. CASE NoProjection(l)
  <2>1. JobsTyped' BY <1>2, <1>3, <1>8, FailTyped DEF NoProjection
  <2>2. RestTyped' BY <1>0, <1>2, <1>8 DEF NoProjection, RestTyped, counts, queue, memory, account
  <2> QED BY <2>1, <2>2, NextTypeParts
<1>9. CASE NoSubscription(l) \/ NobodyToBill(l)
  <2>1. JobsTyped' BY <1>5, <1>9 DEF NoSubscription, NobodyToBill, Steps
  <2>2. Count(m) BY <1>9 DEF NoSubscription, NobodyToBill, Message
  <2>3. unbilled' \subseteq Published' /\ uncounted' \subseteq Published' /\ faults' \in 0..MaxFaults
    BY <1>2, <1>4, <2>2, CountTyped
  <2>4. RestTyped'
    BY <1>0, <1>2, <1>9, <2>3
    DEF NoSubscription, NobodyToBill, RestTyped, queue, memory, account
  <2> QED BY <2>1, <2>4, NextTypeParts
<1>10. CASE Charge(l)
  <2>1. JobsTyped' BY <1>5, <1>10 DEF Charge, Steps
  <2>2. credits' \in 0..MaxCredits BY <1>4, <1>10, SettleTyped DEF Charge, Message
  <2>3. RestTyped' BY <1>0, <1>2, <1>10, <2>2 DEF Charge, RestTyped, counts, queue, memory
  <2> QED BY <2>1, <2>3, NextTypeParts
<1>11. CASE Note(l) \/ NoteBackfill(l)
  <2>1. JobsTyped' BY <1>5, <1>11 DEF Note, NoteBackfill, Steps
  <2>2. cached' \in [Replicas -> [Rooms -> 0..MaxPlans]] /\ recalled' = recalled
    <3>1. CASE cached' = cached BY <1>0, <1>11, <3>1 DEF RestTyped, Note, NoteBackfill, memory
    <3>2. CASE cached' = [cached EXCEPT ![l[1]][Says[m].room] = 0] /\ recalled' = recalled
      BY <1>0, <1>4, <3>2, Numbers DEF RestTyped, Loop
    <3> QED BY <1>11, <3>1, <3>2 DEF Note, NoteBackfill, Message, memory
  <2>3. Count(m) BY <1>11 DEF Note, NoteBackfill, Message
  <2>4. unbilled' \subseteq Published' /\ uncounted' \subseteq Published' /\ faults' \in 0..MaxFaults
    BY <1>2, <1>4, <2>3, CountTyped
  <2>5. RestTyped'
    BY <1>0, <1>2, <1>11, <2>2, <2>4 DEF Note, NoteBackfill, RestTyped, queue, account
  <2> QED BY <2>1, <2>5, NextTypeParts
<1>12. CASE Mark(l)
  <2>1. JobsTyped' BY <1>5, <1>12 DEF Mark, Steps
  <2>2. RestTyped'
    BY <1>0, <1>2, <1>4, <1>12 DEF Mark, Message, RestTyped, counts, queue, memory, account
  <2> QED BY <2>1, <2>2, NextTypeParts
<1>13. CASE ChargeFails(l)
  <2>1. JobsTyped' BY <1>2, <1>3, <1>13, FailTyped DEF ChargeFails
  <2>2. credits' \in 0..MaxCredits
    <3>1. CASE UNCHANGED <<ledger, credits>> BY <1>0, <3>1 DEF RestTyped
    <3>2. CASE Settle(m, p) BY <1>4, <3>2, SettleTyped
    <3> QED BY <1>13, <3>1, <3>2 DEF ChargeFails, Message
  <2>3. RestTyped' BY <1>0, <1>2, <1>13, <2>2, FaultTyped DEF ChargeFails, RestTyped, counts, queue, memory
  <2> QED BY <2>1, <2>3, NextTypeParts
<1>14. CASE MarkFails(l)
  <2>1. JobsTyped' BY <1>5, <1>14 DEF MarkFails, Steps
  <2>2. RestTyped'
    BY <1>0, <1>2, <1>4, <1>14, FaultTyped
    DEF MarkFails, Message, RestTyped, counts, queue, memory, account
  <2> QED BY <2>1, <2>2, NextTypeParts
<1> QED BY <1>6, <1>7, <1>8, <1>9, <1>10, <1>11, <1>12, <1>13, <1>14

\* The steps around the loops.
LEMMA AroundTyped ==
    ASSUME TypeOK, (\E r \in Replicas : Crash(r) \/ CacheExpires(r)) \/ World
    PROVE  TypeOK'
<1>0. RestTyped BY TypeParts
<1>1. queue' = queue BY DEF Crash, CacheExpires, World, Lapse, Renew, TopUp, Forgotten
<1>2. Published' = Published BY <1>1, QueueStays
<1>3. JobsTyped'
  <2>1. Jobs' = Jobs BY <1>2 DEF Jobs
  <2>2. CASE job' = job BY <2>1, <2>2 DEF TypeOK, JobsTyped
  <2>3. CASE \E r \in Replicas : Crash(r) BY <2>1, <2>3 DEF Crash, TypeOK, JobsTyped
  <2> QED BY <2>2, <2>3 DEF CacheExpires, World, Lapse, Renew, TopUp, Forgotten
<1>4. 0 \in 0..MaxPlans /\ 0 \in 0..MaxCredits /\ MaxCredits \in 0..MaxCredits BY Numbers
<1>5. ASSUME NEW r \in Replicas, Crash(r) \/ CacheExpires(r) PROVE RestTyped'
  <2>1. cached' \in [Replicas -> [Rooms -> 0..MaxPlans]] /\ recalled' \in [Replicas -> 0..MaxPlans]
    <3>1. cached \in [Replicas -> [Rooms -> 0..MaxPlans]] /\ recalled \in [Replicas -> 0..MaxPlans]
      BY <1>0 DEF RestTyped
    <3>2. /\ cached' = [cached EXCEPT ![r] = [c \in Rooms |-> 0]]
          /\ recalled' = [recalled EXCEPT ![r] = 0]
      BY <1>5 DEF Crash, CacheExpires
    <3>3. [c \in Rooms |-> 0] \in [Rooms -> 0..MaxPlans] BY <1>4
    <3> QED BY <1>4, <3>1, <3>2, <3>3
  <2>2. faults' \in 0..MaxFaults /\ turns' \in 0..MaxTurns
    BY <1>0, <1>5, FaultTyped, TurnTyped DEF Crash, CacheExpires, RestTyped
  <2> QED BY <1>0, <1>2, <1>5, <2>1, <2>2 DEF Crash, CacheExpires, RestTyped, counts, queue, account
<1>6. ASSUME World PROVE RestTyped'
  <2>1. turns' \in 0..MaxTurns BY <1>6, TurnTyped DEF World, Lapse, Renew, TopUp, Forgotten
  <2>2. plan' \in 0..MaxPlans /\ plans' \in 0..MaxPlans /\ credits' \in 0..MaxCredits
    BY <1>0, <1>4, <1>6, Numbers DEF World, Lapse, Renew, TopUp, Forgotten, RestTyped, account
  <2> QED BY <1>0, <1>2, <1>6, <2>1, <2>2
          DEF World, Lapse, Renew, TopUp, Forgotten, RestTyped, counts, queue, memory
<1> QED BY <1>3, <1>5, <1>6, NextTypeParts

THEOREM TypeCorrect == Spec => []TypeOK
<1>1. ASSUME TypeOK, [Next]_vars PROVE TypeOK'
  <2>1. ASSUME NEW l \in Loop, Working(l) \/ Trouble(l) PROVE TypeOK'
    BY <1>1, <2>1, QueueStepTyped, HandlerStepTyped DEF Working, Trouble
  <2>2. CASE (\E r \in Replicas : Crash(r) \/ CacheExpires(r)) \/ World BY <1>1, <2>2, AroundTyped
  <2>3. CASE UNCHANGED vars
    <3>1. queue' = queue BY <2>3 DEF vars
    <3>2. Published' = Published BY <3>1, QueueStays
    <3>3. RestTyped /\ JobsTyped BY <1>1, TypeParts
    <3>4. RestTyped' BY <2>3, <3>2, <3>3 DEF vars, counts, queue, memory, account, RestTyped
    <3>5. JobsTyped' BY <2>3, <3>2, <3>3 DEF vars, JobsTyped, Jobs
    <3> QED BY <3>4, <3>5, NextTypeParts
  <2> QED BY <1>1, <2>1, <2>2, <2>3 DEF Next
<1> QED BY <1>1, InitTyped, PTL DEF Spec

-----------------------------------------------------------------------------
(* What is owed to a message stays settled. *)

\* No step takes a charge, a parked entry, a count or a mark back.
Grows ==
    /\ Published' = Published /\ ledger \subseteq ledger'
    /\ parked \subseteq parked' /\ turnedDown \subseteq turnedDown'
    /\ \A c \in Rooms : mark[c] # "runs" => mark'[c] # "runs"

LEMMA OwedStays ==
    ASSUME TypeOK, Grows, NEW m \in Published, Owed(m)
    PROVE  Owed(m)'
<1>1. Says[m].room \in Rooms BY WellFormed, Said DEF TypeOK
<1>2. Paid(m) => Paid(m)' BY DEF Grows, Paid
<1> QED BY <1>1, <1>2 DEF Grows, Owed, Unpaid, Exempt, Backfill

LEMMA FitStays ==
    ASSUME TypeOK, Grows, NEW k \in Loop, Fits(job[k]), job'[k] = job[k]
    PROVE  Fits(job[k])'
<1> SUFFICES ASSUME job[k] # Idle PROVE Fits(job[k])' BY DEF Fits, Idle
<1>1. job[k].msg \in Published BY DEF Fits
<1>2. job[k].at = "ack" => Owed(job[k].msg)' BY <1>1, OwedStays DEF Fits
<1> QED BY <1>1, <1>2 DEF Fits, Grows, Skipped, ChunkBilled

\* One loop steps, and what it is about to do fits its message.
LEMMA JobsStay ==
    ASSUME TypeOK, JobOK, Grows, NEW l \in Loop, \A k \in Loop \ {l} : job'[k] = job[k],
           Fits(job[l])'
    PROVE  JobOK'
BY FitStays DEF JobOK, Loop

LEMMA SettledStays ==
    ASSUME TypeOK, NothingForFree, Grows, state' = state
    PROVE  NothingForFree'
BY OwedStays DEF NothingForFree, Grows

LEMMA CountGrows ==
    ASSUME NEW m, Count(m) PROVE m \in turnedDown' /\ turnedDown \subseteq turnedDown'
BY DEF Count, turnedDown

LEMMA LedgerStays ==
    ASSUME LedgerOK, ledger' = ledger, Published' = Published
    PROVE  LedgerOK'
BY DEF LedgerOK, Skipped, ChunkBilled, Key, Work, ChargeType, Seconds, TranslationSeconds

\* A failed handler leaves nothing to be done but the count of its deliveries.
LEMMA FailFits ==
    ASSUME TypeOK, JobOK, NEW l \in Loop, job[l] # Idle, Fail(l), Published' = Published
    PROVE  Fits(job[l])' /\ \A k \in Loop \ {l} : job'[k] = job[k]
<1>1. job' = [job EXCEPT ![l] = IF job[l].again THEN [job[l] EXCEPT !.at = "failed"] ELSE Idle]
  BY DEF Fail, TypeOK
<1>2. job'[l] = Idle \/ (job'[l].msg = job[l].msg /\ job'[l].at = "failed")
  BY <1>1, Holding DEF TypeOK, Jobs
<1>3. job[l].msg \in Published BY Holding
<1> QED BY <1>1, <1>2, <1>3 DEF Fits, TypeOK

LEMMA GoFits ==
    ASSUME TypeOK, JobOK, NEW l \in Loop, job[l] # Idle, NEW step \in Steps, Go(l, step)
    PROVE  /\ job'[l].msg = job[l].msg /\ job'[l].at = step
           /\ \A k \in Loop \ {l} : job'[k] = job[k]
<1>1. job' = [job EXCEPT ![l] = [job[l] EXCEPT !.at = step]] BY DEF Go, TypeOK
<1> QED BY <1>1, Holding DEF TypeOK, Jobs

LEMMA IdleFits ==
    ASSUME TypeOK, NEW l \in Loop, job' = [job EXCEPT ![l] = Idle]
    PROVE  Fits(job[l])' /\ \A k \in Loop \ {l} : job'[k] = job[k]
BY DEF TypeOK, Fits

-----------------------------------------------------------------------------
(* The account stays right. *)

LEMMA QueueStepRight ==
    ASSUME TypeOK, Right, NEW l \in Loop,
           (\E m \in Published : Read(l, m) \/ Reclaim(l, m)) \/ Ack(l) \/ Park(l) \/ AckFails(l)
    PROVE  Right'
<1> USE DEF Right
<1>1. ASSUME NEW m \in Published, Read(l, m) PROVE Right'
  <2>1. Grows BY <1>1 DEF Read, Grows, Published, TypeOK, counts, turnedDown
  <2>2. Fits(job[l])' /\ \A k \in Loop \ {l} : job'[k] = job[k]
    BY <1>1, <2>1 DEF Read, Fits, At, TypeOK, Grows
  <2>3. NothingForFree'
    <3> SUFFICES ASSUME NEW n \in Published, state'[n] = "settled" PROVE Owed(n)'
      BY <2>1 DEF NothingForFree, Grows
    <3>1. state[n] = "settled" BY <1>1 DEF Read, TypeOK
    <3> QED BY <2>1, <3>1, OwedStays DEF NothingForFree
  <2>4. LedgerOK' BY <1>1, <2>1, LedgerStays DEF Read, Grows
  <2> QED BY <2>1, <2>2, <2>3, <2>4, JobsStay
<1>2. ASSUME NEW m \in Published, Reclaim(l, m) PROVE Right'
  <2>1. Grows BY <1>2 DEF Reclaim, Grows, Published, counts, turnedDown
  <2>2. Fits(job[l])' /\ \A k \in Loop \ {l} : job'[k] = job[k]
    BY <1>2, <2>1 DEF Reclaim, Fits, At, TypeOK, Grows
  <2>3. NothingForFree' BY <1>2, <2>1, SettledStays DEF Reclaim
  <2>4. LedgerOK' BY <1>2, <2>1, LedgerStays DEF Reclaim, Grows
  <2> QED BY <2>1, <2>2, <2>3, <2>4, JobsStay
<1>3. CASE Ack(l)
  <2>0. job[l] # Idle /\ job[l].msg \in Published /\ job[l].at = "ack"
    BY <1>3, Busy, Holding DEF Ack, Steps, Now
  <2>1. Grows BY <1>3, <2>0 DEF Ack, Grows, Published, TypeOK, counts, turnedDown
  <2>2. Fits(job[l])' /\ \A k \in Loop \ {l} : job'[k] = job[k] BY <1>3, IdleFits DEF Ack
  <2>3. NothingForFree'
    <3> SUFFICES ASSUME NEW n \in Published, state'[n] = "settled" PROVE Owed(n)'
      BY <2>1 DEF NothingForFree, Grows
    <3>1. CASE n = job[l].msg
      <4>1. Owed(n) BY <2>0, <3>1 DEF JobOK, Fits
      <4> QED BY <2>1, <4>1, OwedStays
    <3>2. CASE n # job[l].msg
      <4>1. state[n] = "settled" BY <1>3, <3>2 DEF Ack, Message, TypeOK
      <4> QED BY <2>1, <4>1, OwedStays DEF NothingForFree
    <3> QED BY <3>1, <3>2
  <2>4. LedgerOK' BY <1>3, <2>1, LedgerStays DEF Ack, Grows
  <2> QED BY <2>1, <2>2, <2>3, <2>4, JobsStay
<1>4. CASE Park(l)
  <2>0. job[l] # Idle /\ job[l].msg \in Published BY <1>4, Busy, Holding DEF Park, Steps
  <2>1. Grows BY <1>4 DEF Park, Grows, Published, counts, turnedDown
  <2>2. Fits(job[l])' /\ \A k \in Loop \ {l} : job'[k] = job[k]
    <3>1. CASE Go(l, "ack") /\ parked' = parked \cup {job[l].msg}
      <4>1. ASSUME NEW n \in Published, n = job[l].msg PROVE Owed(n)' BY <3>1, <4>1 DEF Owed
      <4>2. job'[l].msg = job[l].msg /\ job'[l].at = "ack" /\ \A k \in Loop \ {l} : job'[k] = job[k]
        BY <3>1, <2>0, GoFits DEF Steps
      <4> QED BY <4>1, <4>2, <2>0, <2>1 DEF Fits, Grows
    <3>2. CASE job' = [job EXCEPT ![l] = Idle] BY <3>2, IdleFits
    <3> QED BY <1>4, <3>1, <3>2 DEF Park, Message
  <2>3. NothingForFree' BY <1>4, <2>1, SettledStays DEF Park
  <2>4. LedgerOK' BY <1>4, <2>1, LedgerStays DEF Park, Grows
  <2> QED BY <2>1, <2>2, <2>3, <2>4, JobsStay
<1>5. CASE AckFails(l)
  <2>1. Grows BY <1>5 DEF AckFails, Grows, Published, queue, counts, turnedDown
  <2>2. Fits(job[l])' /\ \A k \in Loop \ {l} : job'[k] = job[k] BY <1>5, IdleFits DEF AckFails
  <2>3. NothingForFree' BY <1>5, <2>1, SettledStays DEF AckFails, queue
  <2>4. LedgerOK' BY <1>5, <2>1, LedgerStays DEF AckFails, Grows
  <2> QED BY <2>1, <2>2, <2>3, <2>4, JobsStay
<1> QED BY <1>1, <1>2, <1>3, <1>4, <1>5

\* A handler's step is right when the row it may write is and its next step fits.
LEMMA HandlerStepRight ==
    ASSUME TypeOK, Right, NEW l \in Loop,
           \/ Skip(l) \/ Resolve(l) \/ NoProjection(l) \/ NoSubscription(l)
           \/ NobodyToBill(l) \/ Charge(l) \/ Note(l) \/ NoteBackfill(l) \/ Mark(l) \/ ChargeFails(l) \/ MarkFails(l)
    PROVE  Right'
<1> PICK m : m = job[l].msg OBVIOUS
<1> PICK p : p = job[l].plan OBVIOUS
<1> DEFINE Others == \A k \in Loop \ {l} : job'[k] = job[k]
<1> USE DEF Right
<1>1. queue' = queue
  BY DEF Skip, Resolve, NoProjection, NoSubscription, NobodyToBill, Charge,
         Note, NoteBackfill, Mark, ChargeFails, MarkFails
<1>2. state' = state /\ parked' = parked BY <1>1 DEF queue
<1>3. Published' = Published BY <1>1, QueueStays
<1>4. job[l] # Idle
  BY Busy DEF Steps, Skip, Resolve, NoProjection, Unresolved, NoSubscription,
              NobodyToBill, Charge, Note, NoteBackfill, Mark, ChargeFails, MarkFails
<1>5. m \in Published /\ m \in Messages /\ Says[m].room \in Rooms /\ Published \subseteq Messages
  BY <1>4, Holding, WellFormed DEF TypeOK
<1>6. ASSUME Grows, LedgerOK', Fits(job[l])', Others PROVE Right'
  BY <1>2, <1>6, SettledStays, JobsStay
<1>7. ASSUME NEW step \in Steps, Go(l, step) PROVE job'[l].msg = m /\ job'[l].at = step /\ Others
  BY <1>4, <1>7, GoFits
<1>8. ASSUME ledger' = ledger, turnedDown \subseteq turnedDown', mark' = mark PROVE Grows /\ LedgerOK'
  BY <1>2, <1>3, <1>8, LedgerStays DEF Grows
<1>9. CASE Skip(l)
  <2>1. Grows /\ LedgerOK' BY <1>8, <1>9 DEF Skip, counts, turnedDown
  <2>2. job'[l].msg = m /\ job'[l].at = "ack" /\ Others BY <1>7, <1>9 DEF Skip, Steps
  <2>3. Skipped(m) => Exempt(m) BY DEF Skipped, Exempt, ChunkBilled
  <2>4. Owed(m)' BY <1>9, <2>3 DEF Skip, Message, Owed, Exempt, Backfill
  <2>5. Fits(job[l])' BY <1>3, <1>5, <2>2, <2>4 DEF Fits
  <2> QED BY <1>6, <2>1, <2>2, <2>5
<1>10. CASE Resolve(l)
  <2>1. Grows /\ LedgerOK' BY <1>8, <1>10 DEF Resolve, counts, turnedDown
  <2>2. PICK q : job' = [job EXCEPT ![l] = At("charge", m, q, job[l].again)]
    BY <1>10 DEF Resolve, Message, TypeOK
  <2>3. job'[l].msg = m /\ job'[l].at = "charge" /\ Others BY <2>2 DEF TypeOK, At
  <2>4. ~Skipped(m) BY <1>10 DEF Resolve, Message
  <2>5. Fits(job[l])' BY <1>3, <1>5, <2>3, <2>4 DEF Fits, Skipped, ChunkBilled
  <2> QED BY <1>6, <2>1, <2>3, <2>5
<1>11. CASE NoProjection(l)
  <2>1. Grows /\ LedgerOK' BY <1>8, <1>11 DEF NoProjection, counts, turnedDown
  <2>2. Fits(job[l])' /\ Others BY <1>3, <1>4, <1>11, FailFits DEF NoProjection
  <2> QED BY <1>6, <2>1, <2>2
<1>12. ASSUME Grows, LedgerOK', m \in turnedDown', Backfill(m) \/ mark'[Says[m].room] # "runs",
             Go(l, "ack")
       PROVE  Right'
  <2>1. job'[l].msg = m /\ job'[l].at = "ack" /\ Others BY <1>7, <1>12 DEF Steps
  <2>2. Owed(m)' BY <1>12 DEF Owed, Unpaid, Backfill
  <2>3. Fits(job[l])' BY <1>3, <1>5, <2>1, <2>2 DEF Fits
  <2> QED BY <1>6, <1>12, <2>1, <2>3
<1>13. ASSUME Grows, LedgerOK', m \in turnedDown', ~Skipped(m), Go(l, "mark") PROVE Right'
  <2>1. job'[l].msg = m /\ job'[l].at = "mark" /\ Others BY <1>7, <1>13 DEF Steps
  <2>2. Fits(job[l])' BY <1>3, <1>5, <1>13, <2>1 DEF Fits, Skipped, ChunkBilled
  <2> QED BY <1>6, <1>13, <2>1, <2>2
<1>14. CASE NoSubscription(l) \/ NobodyToBill(l)
  <2>1. Count(m) /\ ~Skipped(m) BY <1>14 DEF NoSubscription, NobodyToBill, Unresolved, Message
  <2>2. m \in turnedDown' /\ turnedDown \subseteq turnedDown' BY <2>1, CountGrows
  <2>3. Grows /\ LedgerOK' BY <1>8, <1>14, <2>2 DEF NoSubscription, NobodyToBill
  <2>4. Go(l, "mark") \/ (Backfill(m) /\ Go(l, "ack"))
    BY <1>14 DEF NoSubscription, NobodyToBill, Message
  <2> QED BY <1>12, <1>13, <2>1, <2>2, <2>3, <2>4
<1>15. CASE Note(l) \/ NoteBackfill(l)
  <2>1. Count(m) BY <1>15 DEF Note, NoteBackfill, Message
  <2>2. m \in turnedDown' /\ turnedDown \subseteq turnedDown' BY <2>1, CountGrows
  <2>3. Grows /\ LedgerOK' BY <1>8, <1>15, <2>2 DEF Note, NoteBackfill
  <2>4. ~Skipped(m) BY <1>4, <1>15 DEF Note, NoteBackfill, Now, JobOK, Fits
  <2>5. Go(l, "mark") \/ (Backfill(m) /\ Go(l, "ack")) BY <1>15 DEF Note, NoteBackfill, Message
  <2> QED BY <1>12, <1>13, <2>2, <2>3, <2>4, <2>5
<1>16. CASE Mark(l) \/ MarkFails(l)
  <2>1. m \in turnedDown BY <1>4, <1>16 DEF Mark, MarkFails, Now, JobOK, Fits
  <2>2. ledger' = ledger /\ turnedDown' = turnedDown /\ Go(l, "ack") BY <1>16 DEF Mark, MarkFails, turnedDown, counts
  <2>3. mark'[Says[m].room] # "runs"
        /\ \A c \in Rooms : mark[c] # "runs" => mark'[c] # "runs"
    BY <1>5, <1>16 DEF Mark, MarkFails, Message, TypeOK
  <2>4. Grows /\ LedgerOK' BY <1>2, <1>3, <2>2, <2>3, LedgerStays DEF Grows
  <2> QED BY <1>12, <2>1, <2>2, <2>3, <2>4
<1>17. CASE Charge(l)
  <2>1. ~Skipped(m) BY <1>4, <1>17 DEF Charge, Now, JobOK, Fits
  <2>2. LedgerOK' /\ ledger \subseteq ledger' /\ (~Refused(m, p) => Paid(m)')
    BY <1>3, <1>5, <1>17, <2>1, SettleIsRight DEF Charge, Message
  <2>3. Grows BY <1>2, <1>3, <1>17, <2>2 DEF Charge, Grows, counts, turnedDown
  <2>4. CASE Refused(m, p)
    <3>1. Go(l, "expired") \/ Go(l, "refused") BY <1>17, <2>4 DEF Charge, Message
    <3>2. job'[l].msg = m /\ job'[l].at \in {"expired", "refused"} /\ Others BY <1>7, <3>1 DEF Steps
    <3>3. Fits(job[l])' BY <1>3, <1>5, <2>1, <3>2 DEF Fits, Skipped, ChunkBilled
    <3> QED BY <1>6, <2>2, <2>3, <3>2, <3>3
  <2>5. CASE ~Refused(m, p)
    <3>1. Go(l, "ack") BY <1>17, <2>5 DEF Charge, Message
    <3>2. job'[l].msg = m /\ job'[l].at = "ack" /\ Others BY <1>7, <3>1 DEF Steps
    <3>3. Owed(m)' BY <2>2, <2>5 DEF Owed
    <3>4. Fits(job[l])' BY <1>3, <1>5, <3>2, <3>3 DEF Fits
    <3> QED BY <1>6, <2>2, <2>3, <3>2, <3>4
  <2> QED BY <2>4, <2>5
<1>18. CASE ChargeFails(l)
  <2>1. ~Skipped(m) BY <1>4, <1>18 DEF ChargeFails, Now, JobOK, Fits
  <2>2. LedgerOK' /\ ledger \subseteq ledger'
    <3>1. CASE Settle(m, p) BY <1>3, <1>5, <2>1, <3>1, SettleIsRight
    <3>2. CASE ledger' = ledger BY <1>3, <3>2, LedgerStays
    <3> QED BY <1>18, <3>1, <3>2 DEF ChargeFails, Message
  <2>3. Grows BY <1>2, <1>3, <1>18, <2>2 DEF ChargeFails, Grows, counts, turnedDown
  <2>4. Fits(job[l])' /\ Others BY <1>3, <1>4, <1>18, FailFits DEF ChargeFails
  <2> QED BY <1>6, <2>2, <2>3, <2>4
<1> QED BY <1>9, <1>10, <1>11, <1>14, <1>15, <1>16, <1>17, <1>18

LEMMA AroundRight ==
    ASSUME TypeOK, Right, (\E r \in Replicas : Crash(r) \/ CacheExpires(r)) \/ World \/ UNCHANGED vars
    PROVE  Right'
<1> USE DEF Right
<1>1. queue' = queue /\ ledger' = ledger /\ turnedDown' = turnedDown /\ mark' = mark
  BY DEF Crash, CacheExpires, World, Lapse, Renew, TopUp, Forgotten, vars, counts, turnedDown
<1>2. state' = state /\ parked' = parked BY <1>1 DEF queue
<1>3. Published' = Published BY <1>1, QueueStays
<1>4. Grows BY <1>1, <1>2, <1>3 DEF Grows
<1>5. \A l \in Loop : job'[l] = job[l] \/ job'[l] = Idle
  BY DEF Crash, CacheExpires, World, Lapse, Renew, TopUp, Forgotten, vars
<1>6. ASSUME NEW l \in Loop PROVE Fits(job[l])'
  <2>1. CASE job'[l] = job[l] BY <1>4, <2>1, FitStays DEF JobOK
  <2>2. CASE job'[l] = Idle BY <2>2 DEF Fits, Idle
  <2> QED BY <1>5, <2>1, <2>2
<1>7. JobOK' BY <1>6 DEF JobOK, Loop
<1>8. NothingForFree' BY <1>2, <1>4, SettledStays
<1> QED BY <1>1, <1>3, <1>7, <1>8, LedgerStays

THEOREM AccountIsRight == Spec => []Right
<1>1. ASSUME Init PROVE Right
  <2>1. LedgerOK BY <1>1 DEF Init, LedgerOK
  <2>2. JobOK BY <1>1 DEF Init, JobOK, Fits
  <2>3. NothingForFree BY <1>1 DEF Init, NothingForFree, Published
  <2> QED BY <2>1, <2>2, <2>3 DEF Right
<1>2. ASSUME TypeOK, Right, [Next]_vars PROVE Right'
  <2>1. ASSUME NEW l \in Loop, Working(l) \/ Trouble(l) PROVE Right'
    BY <1>2, <2>1, QueueStepRight, HandlerStepRight DEF Working, Trouble
  <2> QED BY <1>2, <2>1, AroundRight DEF Next
<1> QED BY <1>1, <1>2, TypeCorrect, PTL DEF Spec

\* A piece of work is charged at most once, however many messages, redeliveries
\* and replicas ask for it.
THEOREM ChargedAtMostOnce == Spec => []ChargedOnce
<1>1. TypeOK /\ Right => ChargedOnce
  BY LedgerIsOnce, WellFormed DEF TypeOK, Right
<1> QED BY <1>1, TypeCorrect, AccountIsRight, PTL

\* Whichever message of a chunk or a segment is charged, it is for the seconds of
\* all of it, and a dub for those of the voice that was settled.
THEOREM AllOfItIsCharged == Spec => []ChargedInFull
<1>1. TypeOK /\ Right => ChargedInFull
  BY LedgerIsInFull, WellFormed DEF TypeOK, Right
<1> QED BY <1>1, TypeCorrect, AccountIsRight, PTL

\* What was delivered is paid for, parked, or counted and its room stopped.
THEOREM NothingLeavesForFree == Spec => []NothingForFree
<1>1. Right => NothingForFree BY DEF Right
<1> QED BY <1>1, AccountIsRight, PTL
=============================================================================
