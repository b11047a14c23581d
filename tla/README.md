# WarpTalk AI in TLA+

TLA+ models of the WarpTalk AI workers: the Python processes that turn the audio of a
meeting into text, translations, dubbed speech, charges and minutes. Each module is
translated from the source file it names; `PROJECT.json` gives the source lines behind
every definition, the runs, the mutants that show each property bites, the hazards, and
the theorems.

## 1. The system

Every stage is a separate process group. Stages talk over **Redis Streams** with consumer
groups, and share small facts through Redis keys and hashes:

    LiveKit --> livekit_ingress_worker --audio:frames / audio:chunks--> stt_worker
      --stt:results--> translation_worker --translate:results--> tts_worker --> LiveKit
      stt:results also feeds transcript_clean, suggestion, ai_assistant, far-side naming
      translate:results / tts:results --> billing_worker --> Postgres

| Component | State it keeps | Operations | What is hard | Module |
|---|---|---|---|---|
| `shared/base_worker.py` consume loop | the group's pending list (Redis), one message in hand, a reclaimed batch, the shutdown event | read, process under a timeout, acknowledge, reclaim, count deliveries, dead-letter, restart | replicas taking over each other's work on nothing but idle time; crash or lost reply between any two steps | `WorkerQueue` |
| `shared/redis_client.py` `consume_pipelined` | in-flight tasks and ids | read while earlier messages run, reclaim between reads | a message queued in this process looks abandoned; the reclaim pass races completions | `PipelinedQueue` |
| `shared/redis_client.py` `publish`, `_trim_stream_safely` | stream contents, group cursors | append, bound a stream without dropping unread or pending entries | group staleness judged from ids; separate calls while groups read | `StreamTrim` |
| `shared/base_worker.py` routes | per-room route cache, paused and translation-active flags, their age | pub/sub updates, snapshot, staleness read-through | lossy notifications; a cached "no consent" or "text only" outlives its truth | `RouteState` |
| `livekit_ingress_worker` rooms | ownership leases, room sessions | claim, renew and give up rooms; join and leave | two pods in one room; a lease that expires under a live session | `RoomLease` |
| `stt_worker` | realtime sessions per speaker, their buffers, held frames, marks | feed frames, commit turns, reconnect and replay, publish | two streams of one turn, sessions replaced beside both, redelivery | `SpeechStream` |
| `translation_worker` | tickets per speaker, lanes per language, claims | split, translate, wait for the turn, claim, publish | order and completeness when messages overlap, fail and come again | `Translation` |
| `tts_worker` sentences | locks per track, contexts and slots at the vendor, retries | speak on a context or in one shot | a slot lost on one path stops every dub; half-said sentences | `Dubbing` |
| `tts_worker` tracks | bots per speaker, language and voice | join, speak, announce, leave | a bot that stays mutes the speaker for its listeners | `InterpreterTracks` |
| `tts_worker` clones | capture buffers, scores, calls under way, the entry of a voice, the vendor's account | capture, clone, upgrade, withdraw, delete, sweep | answers out of order, consent on three paths, voices nobody names | `VoiceClones` |
| `billing_worker` settlement | the ledger, idempotency keys | price, charge, replay, park | the same work under many messages; a transaction whose answer is lost | `Settlement` |
| `billing_worker` suspension | suspension keys, suspended rooms | stop and restore rooms | handlers racing the watch loop | `CreditSuspension` |
| `ai_assistant_worker` | transcript buffers, summary claims, chat streams | accumulate, summarise once, answer, stop | the end marker, duplicate summaries | - |
| `transcript_clean_worker`, `suggestion_worker` | open sentences; budgets and cooldowns | group and clean; decide and publish | timers and claims | - |
| `embedding_worker`, `retranscribe_worker`, `security_worker`, `metrics_exporter` | vector store points; none | index, merge, scan, read | writes that overwrite themselves, pure functions | - |

What makes a component correct is stated by the properties of its module. Hazards, each
at the line where it bites and with the properties about it, are in `PROJECT.json`.

## 2. Plan

Ordered by how much of the system rests on the part.

1. The queue every worker stands on: `WorkerQueue` against `AtLeastOnce`, `PipelinedQueue`,
   `StreamTrim`. Done, proved.
2. What replicas share through Redis: `CreditSuspension`, `RoomLease`, `RouteState`. Done;
   the safety properties of the last two proved. Those of the first are liveness.
3. Charges: `Settlement`. Done, proved.
4. The stages of a meeting: `SpeechStream`, `Translation`, `Dubbing`, `InterpreterTracks`,
   `VoiceClones`. Done; their safety properties proved.
5. Next: summaries (buffer, claim, end marker), suggestions and clean transcript.

The modules meet at the streams. `Translation`, `Dubbing`, `SpeechStream` and `Settlement`
each contain as much of the queue as their handlers see - a message is handled, fails, is
handled again, or is taken over - and leave its mechanics to `WorkerQueue` and
`PipelinedQueue`. `Dubbing` hands sentences to `InterpreterTracks`; `Settlement` sets what
`CreditSuspension` stops; the consent `VoiceClones` reads is what `RouteState` says of it.

## 3. Modules and the code they model

A Redis, database, vendor or LiveKit call is a step of its own wherever the code awaits it;
what runs between two awaits of one task is one step. Where two awaits are taken together
the module says so.

**`WorkerQueue`** - `BaseWorker._consume_loop` over `RedisStreamClient.consume`. `Deliver`
is XREADGROUP, `Reclaim` XAUTOCLAIM with the delivery counts and idle times Redis keeps,
`TakeReclaimed` the next entry of the claimed batch, `Succeed`/`Fail` what `process()` does
under `wait_for`, `CountAttempts` XPENDING, `Park` the dead-letter publish, `Ack` XACK.
`RedisFails`, `ReplyLost` (Redis acted, the answer was lost, and `_retry` asks again),
`Crash`, `Sigterm` and `Restart` may strike between any two. `pc` is where a worker stands
in the loop; time is discrete. `MinIdle` is `_reclaim_min_idle_ms`, `Lag` the time a worker
may take beside its attempts. `Hand(w)` is what a worker was handed and has not finished with.

**`AtLeastOnce`** - what the docstrings promise of every queue: who has what in hand, and what
is sent, handled, parked and settled. `WorkerQueue` implements it under the mapping sent =
`published`, held = `Hand` of each worker, handled = `done`, parked = `parked`, settled = what
was read and is no longer pending. That a message has one holder is no part of it: the code
does not keep that (section 7).

**`PipelinedQueue`** - `consume_pipelined` as the dubbing worker uses it: the reading side
(recovery pass, capacity, read, drain) beside handlers that wait in line for the lock of
their key. `inFlight` is `_in_flight_ids`; `line[w][k]` is the FIFO of the lock of key `k`;
`spoken` is the position by which a reclaimed sentence is judged late; `retry`/`stage` are
the entry in hand of the recovery pass. `ReplyLost` is a call that Redis carried out and
whose answer never came: `_retry` reads or claims again and the first lot stays pending.

**`StreamTrim`** - `RedisStreamClient.publish` and `_trim_stream_safely`: XADD, XLEN, XINFO
GROUPS, one XPENDING per group, XTRIM, each a step, while groups are created, read and
settle. An entry's id is its number and `stamp` the time inside that id. `Judged` is the
verdict on one group (`Ignore` a stale or finished one, else require what it needs).

**`CreditSuspension`** - the suspension half of `BillingSettlementWorker`: a refused charge
runs `Mark` (SET NX), `Extend`, `WriteState` and `Announce`; the watch loop of every
replica wakes, asks the database per room (`Ask`), and extends or clears and announces. `Take`
looks into the cache, `Resolve` asks the database and `Store` writes its answer into the cache;
`sub` is then what is charged and, once refused as ended, forgotten (`Remember`). Meetings go on
for ever: `MaxEvents` bounds the events between two ticks only.

**`RoomLease`** - who owns the bot of a room in `livekit_ingress_worker`: events, dials with
`SET NX`, renewals, the idle sweep, deferred rooms, `_yield_room`, release when empty, the
end of the meeting, crash, rolling restart and rediscovery. `work`/`by` are the room lock
and its holder.

**`RouteState`** - the route caches of `BaseWorker` and the translation, text-only and
consent gates. A payload is the speaker's routes, the translation flag and the room status, of
which any may be missing (`Heard` then leaves what is known); `written` is the last one. `Ask` is the caller of a gate; `Decide` answers from memory or goes to `Read`; `...Known`
applies the answer of the GET and decides again.

**`Settlement`** - the charging half of `BillingSettlementWorker` with `billing_worker/db.py`.
A message says what `Fields` lists; `Key` is the idempotency key of each stream, `Price` the
rounding up to ten seconds, `Skipped` what is never charged. A loop resolves the room's
subscription (cached), calls the database function, and acknowledges, records the refusal or
gives up. The count of what goes unbilled is best effort: it may fail (`uncounted`), and the
entry is acknowledged all the same. The function itself is not in the repository: `Charge` is what its caller passes and
expects, including a commit whose answer is lost. `Work(m)` names the speech behind a
message, which the worker does not see; the assumptions say how producers number it.

**`SpeechStream`** - one speaker of `stt_worker` in flash mode. `stream` carries the frames of
turns and `chunks` the turns themselves. The frame loop and the chunk handler are two tasks
(`app`, `hand`) around the speaker's lock; `mode` is what becomes of a frame while it is taken.
`sock` is the vendor's side of each session: its buffer, the turn the worker believes in it.
An append reads what it decides on before an await and uses it after (`cleared`, `queued`,
`sent`); a clear may fail (`Clear`), and empties the buffer whoever is sending into it.
`overtaken`, `replaced` and `torn` are history and name what `FromTheBeginning` excepts: turns of
an append under way when the lock or the session changed hands, turns being streamed when the
track's session replaced theirs, and sessions whose buffer is no one's.

**`Translation`** - one speaker of `translation_worker`. `ticket`, `tail`, `over`, `waived` are
the chain by which a message waits for the speaker's previous one; a `lane` per message,
delivery and language works through the sentences; `claims` are the keys in Redis. `dropped`,
`stranded`, `doubt` are history and name the exceptions: judged out of scope, claimed by nobody
who will publish it, left open by Redis. An answer to the claim or to the publication may be
lost while `_retry` repeats the call (`ClaimUnheard`, `PublishTwice`).

**`Dubbing`** - the sentences of one room in `tts_worker`, one process. `job` is what is being
done about each sentence, `context` the vendor's contexts, `free` the slots of the plan,
`open` the context a track may continue. Opening, speaking, retrying, the one-shot fallback,
publication, eviction of an idle context, the sweep, the end of the room and a crash are
actions; so are the slice in flight whose bytes are not counted yet (`SliceDone`), the drain
that is cut short in it, an answer without audio and a result `_retry` appends twice. `cuts`
and `repeats` are history and name what `SaidOnce` excepts.

**`InterpreterTracks`** - `livekit_publisher.py` with its callers in `worker.py`: `bot` is the
participant in use on each track, `joins` the joins under way, `kind` what a track was last said
to speak in. A bot leaves by idle time, pause, an unused variant (`Start`), or, in a bridged
room, when its language is no target any more (`Reconcile`): it is out of the map at once, is
disconnected in the background (`parting`), and stays if that fails (`stuck`), as does whoever
connected in a join that broke off. A refused frame closes the bot first and then joins another,
once for each slice of a stream and once for a sentence pushed whole. The pass that reconciles
is one action for each read it awaits; it leaves a room alone in which nobody listens, and
`bridge` is the cached answer of `_is_bridge_room`.

**`VoiceClones`** - one person in `_consume_audio_for_cloning`, `_clone_and_cache`, the far-side
functions and the deletion of voices, one worker process. `mem` is what the worker remembers
of the person (seconds heard, score, rung of the ladder, upgrades used, refusals), `calls`
the clones under way, `reader` where each of the three paths stands in its look at the
consent, `key` the entry that names the voice, `account` what the vendor holds: the name
tells who may delete a voice, and `secs`, `since` and `born` are history (its length, and the
withdrawals before its sample and before the voice). `asked`, `misjudged` and `orphaned` remember
what became of voices because of a withdrawal, a read that failed, an answer that was lost.
Seconds are rungs of the ladder, scores three grades.

The `MC...` modules hold the values of constants only. The `...Proofs` modules hold the
theorems of the module they extend. Three of them also prove those of a second component of
the same worker, client or room, of which they hold an instance: `RedisStreamProofs` extends
`WorkerQueue` and instantiates `StreamTrim` (`Trim!`), `TTSWorkerProofs` extends `VoiceClones`
and instantiates `PipelinedQueue` (`Pipe!`), `RoomBotsProofs` extends `InterpreterTracks` and
instantiates `RoomLease` (`Room!`). The instances are the whole modules, on constants and
variables of their own: nothing ties the two systems of a proof module together. An instance brings no
assumptions on its constants with it, so those theorems have the component's as hypothesis
(`Trim!TrimConstants`, `Pipe!PipelineConstants`, `Room!LeaseConstants`); its run checks that
they hold there. A few names are mapped: `MaxFailed` and `failed` are the component's
`MaxFaults` and `faults`, `holder` its `bot`.

Every module has a `TypeOK`, checked while it was written; no run spends a property on it. It
is proved of seven modules; the invariants behind the theorems of `Translation`,
`PipelinedQueue`, `RoomLease` and `SpeechStream` type the variables those theorems speak of.

## 4. Runs and bounds

| Run | Shows | Why the bounds are enough |
|---|---|---|
| `worker_queue` | nothing lost, only tails change hands, parking, refinement, everything settles | two replicas contend for everything there is to contend for; a claim of two has a tail, and with the attempt at twice the margin, as against the code's four to one, the tail outlasts the threshold: it is run twice and after its acknowledgement in this run. The code's ratio (3.8 million states) was checked once, for safety. The whole safety part is proved for all values |
| `pipelined` | a key's sentences in order, own work stays pending, everything settles | two places, three messages, two of one key: capacity is reached with a line of two behind one lock. Both safety properties are proved for all values |
| `stream_trim` | nothing needed is trimmed, dead groups do not hold | two groups, one live beside one dead; four entries over a length of one; a clock past staleness. Both are proved for all values |
| `credit_suspension` | what cannot be paid for stops for good, a payment restores for good | two replicas, one stream each, one room, endless events, two changes of state, one fault; both streams in one replica, so that one handler's answer is cached after another's refusal evicted it, were checked once |
| `room_lease` | no eviction, a meeting is heard, an empty room is left | two replicas; the lease of three sweeps and grace of two leave room for one missed renewal, the most the code claims to bear. The first is proved for any number of failures with a lease of three sweeps or more, as long as no two renewals in a row fail; two faults (3 million states) were checked once for it |
| `route_state` | consent recent, skips confirmed, restarts heard | two changes, one miss and one fault reach every order of key, broadcast and gate; payloads carry everything, the routes alone or the status alone. Four sets of fields and the fourth kind of routes (27 million states) were checked once; all three properties are proved for all values |
| `settlement` | charged once, charged in full, nothing for free | two replicas; ten pairs of messages, one for each way in which two results are about the same work or only look so; one lapse, renewal or top-up and one fault. All three are proved for all values |
| `dubbing` | slots come back, nothing is said twice or dropped but for named causes, order per track | one slot, three contexts: every second context must wait or evict; two sentences of one track, or of two, with one fault, and one sentence with two. All four are proved for all values |
| `interpreter_tracks` | one participant per track, a track tells whose voice, a language leaves | one language beside the fallback, two voices and two kinds; two sentences, one change, one fault (two changes, 3.2 million states, were checked once, and three faults without a change). The first two are proved for all values |
| `speech_stream` | a turn is transcribed from its beginning, lines go out once, everything settles | two turns with three pieces: a turn of two pieces before or after another; one fault at any point. At most four sessions are opened, so the bound of five never binds. Two faults (17 million states) were checked once and hold too. The first two are proved for all values |
| `translation` | no piece twice, none missing unless its claim was stranded, in turn, everything settles | scenes of one fault with three messages or two languages, and of two faults with two; three messages with two faults (4.2 million states) were checked once, but for the last. The first three are proved for all values |
| `voice_clones` | belief is true, only the withdrawn are destroyed, no voice arrives unwanted, no provisional voice returns, who withdraws is forgotten | a ladder of one provisional, one sufficient and one better rung; three voices, so that one is replaced twice; two changes and one fault at any point. Four voices, three changes, and two faults (1.2 million states), were checked once. All but the last are proved for all values |

Every bound is a constant named `Max...`, `Num...` or a small set, and stands in a guard.
Deadlock is checked in `worker_queue`, `pipelined`, `credit_suspension`, `room_lease` and
`route_state`; the other systems stop when their messages, turns, days or bounds are used up.
`stream_trim` and `settlement` use the symmetry of groups and of replicas and have no liveness
property.

Faults of every kind at every point share one budget. It is one in most runs; a second one
gives the combinations listed in section 7.

## 5. Fairness

- `WorkerQueue`: weak fairness of each worker's step and of the clock. A running process
  runs its loop and a dead one is restarted (`restart: unless-stopped`).
- `PipelinedQueue`: weak fairness of tasks that can run; strong fairness of the recovery
  pass, of reads and of the clock, because the loop comes back to each of them
  periodically and two recovery passes are at least an interval apart.
- `CreditSuspension`, `RoomLease`: weak fairness of progress as a whole. A clock step waits
  until everything that can run in its interval has run, so one condition starves nothing.
- `InterpreterTracks`: weak fairness of the two periodic passes, of what a sentence in hand
  goes on to do and of each disconnect, all of which end one way or the other.
- `SpeechStream`: weak fairness of the frame loop, of the handler and of the reclaiming of
  failed chunks; `Translation`: of reading, of each message's handler and of each lane. Every
  wait in that code has a timeout.
- `VoiceClones`: weak fairness of each call, of each reader once it looks and of the watcher.
  Nobody has to speak, be dubbed or consent, and neither the room nor the day has to end.

Faults, losses and changes of the environment have no fairness. They are bounded, so every
liveness property says what happens once they cease.

## 6. What is proved

All theorems are of the specification and for every value of the constants; the
assumptions on constants are the modules' `ASSUME`s and those named below.

- `RedisStreamProofs`, of `WorkerQueue`: `TypeCorrect`, `NothingIsLost`. The invariant `SafeInv` adds that
  what a worker has in hand was delivered and that what it is about to acknowledge was
  handled or parked; without it an acknowledgement could drop a message nobody handled.
  `QueueImplementsPromise` and `ParkedForItsDeliveries` assume no timing either: a message may
  be in several hands. For the first, `Shaped` says what a worker has in hand at each point of
  its loop, so that an acknowledgement lets go of one entry and a claim finds empty hands. For
  parking, every delivery of a pending message is accounted for (`Counted`): an attempt that
  ended, one a worker still has before it (`Triers`), or a fault. `OnlyTailsChangeHands` assumes
  `MarginOK`, `Timeout + Lag < MinIdle`, which the code's 120 and 150 s satisfy: the idle time
  Redis counts for an entry in hand is no more than the worker's own clock until it begins its
  second attempt (`Prompt`, `Undisputed`). There is no bound on the size of a claim in it.
- `RedisStreamProofs`, of `StreamTrim`: `TrimTypeCorrect`, `NothingNeededIsTrimmed`, `TheDeadHoldNothing`.
  `LookOK` says that what a publisher has looked up stays a lower bound of what its groups need
  while they read on. For the second theorem, `TidyOK`: while a publish that began with no live
  group far behind goes on, each group is dead or needs nothing far behind the entry appended
  (`Close`), and every answer it holds is of a group it will ignore or near that entry. It
  rests on `Clock`, that ids grow with the clock: a group whose answer is fresh enough to count
  is not dead by its later reads.
- `RouteStateProofs`: `TypeCorrect`, `RestartedWorkerHears`, `SkipsAreConfirmed`,
  `ConsentIsNeverOld`. `GateInv`: the key is the last payload or nothing, so a payload on its
  way whose routes are not the room's is younger than a unit of time (`Fresh`); and cached
  routes that are not are no younger than the change or than the last failed read (`CacheOK`),
  whatever older answer was applied after a newer one.
- `SettlementProofs`: `TypeCorrect`, `ChargedAtMostOnce`, `AllOfItIsCharged`,
  `NothingLeavesForFree`. The ledger is keyed, so a row twice for one piece of work means two
  keys for it: `LedgerOK` and the lemmas on `Key` show a key to be the name of one piece of work
  under the producers' numbering (`WorkIsNamed`, `NamesAreUnique`). `JobOK` says that what a loop
  is about to do is owed. That a row is for all of its work needs one assumption more,
  `SpeechIsTimed`: the sentences of a chunk carry the length of that chunk, as
  `stt_worker` publishes them, and the timing of a segment is that length.
- `TranslationProofs`: `PublishedOnce`, `CompleteWhenAcknowledged`, `SpokenInTurn`. `Guarded`,
  for each piece Redis is sure of: who publishes it has its claim, alone, and it is not out yet;
  and a piece that is out keeps its claim, because only a lane that has not published gives a
  claim back. Complete: every claim is answered for by a piece that is out, a lane about to
  publish it, or a step that stranded it (`Answered`), and what a lane has behind it
  was claimed (`Progress`). In turn: the ticket of a message is the one read before it, unless
  that one was over (`Ticketed`), so a good ticket is passed along the chain (`Ordered`).
- `DubbingProofs`: `TypeCorrect`, `EverySlotComesBack`, `EverySentenceIsSaidOnce`,
  `NoSentenceIsDropped`, `SaidInOrder`. Three groups of conjuncts, each kept by itself but for
  the types and the publisher's lock. `SlotInv`: who waits for a slot waits for a context of its
  own that has none (`Unslotted`), an ended context has none, and a held one is used, timed or
  being ended (`Kindled`); the sets whose sizes are counted are finite at every moment, so neither
  the sentences nor the contexts need be. `VoiceInv`: whoever is heard holds the publisher's
  lock (`Locked`), the opening was heard as often as a drain was cut, and once more when
  `spoken` says so or its slice is in flight (`Once`), and each step past a voice left its
  trace outside (`Accounted`). `OrderInv`: of two sentences in hand on
  one track one waits for the other (`InLine`), what came later waits for a first delivery
  (`Later`), and the position a track has reached bounds what was said on it (`Marked`), so a
  redelivered sentence that was not found late is the foremost (`Foremost`).
- `RoomBotsProofs`, of `InterpreterTracks`: `TypeCorrect`, `NobodyIsThrownOut`, `VoiceIsTold`. `Joining`: a join
  is that of the sentence which holds the track's lock, alone, and the track's bot is gone, as it
  is while a refused one is being closed.
  `Telling`: while a sentence is being said its kind of voice is the last the track was set to,
  and a bot that is there told the room so, in whichever order announcement, join and
  replacement came.
- `TTSWorkerProofs`, of `VoiceClones`: `TypeCorrect`, `NobodyIsTakenForCloned`, `FullVoiceStays`,
  `OnlyWithdrawersAreForgotten`, `NoVoiceArrivesUnwanted`. Only one call of a speaker at their own
  seat is under way (`OneCall`); a score without a voice is the score of the call that makes the first
  (`Grounded`), which takes it back if it fails; and a provisional rung is stood on only while
  nothing better is in use or being made (`Climbing`, `Below`), which needs that the ladder
  ascends. For the far side, `Since` follows the number of withdrawals at which a sample
  was begun through capture, call, voice and entry: if it is still the present one, its person
  consents and no path is withdrawing it. The sample is dated at the read of the consent
  (`CaptureAsk`), not at its first audio: with the later date, and samples shorter than the time
  between the two, the invariant does not hold. `Arrival` is about the other end: a call whose
  consent was read again, and the entry it writes, have it or were made before a withdrawal.

- `TTSWorkerProofs`, of `PipelinedQueue`: `PipelineLosesNothing`, `EveryPlaceIsWorked`,
  `PipelineKeepsOwnWork`, `EverySentenceInOrder`. A line holds messages of its key, each once
  (`KeyLines`), and what waits in the lines of a process is exactly what it has in flight and
  has not finished, with the retry at its lock (`Tracked`); no message is in flight in two
  processes, and none is retried where it is in flight (`Apart`). That the reading side passes
  over its own entries is what keeps `Apart`. `EverySentenceInOrder` assumes that the stream
  brings a key's sentences in the order of their positions. In a line, what was read stands behind
  older entries and retries only (`InLineOrder`), so what is begun has passed none of those in
  flight; a retry is in no such order and is compared when it holds the lock (`Foremost`). `EveryPlaceIsWorked` is the safety half of a full pipeline emptying again.
- `RoomBotsProofs`, of `RoomLease`: `NoBotEvicted`, for any number of failures and leases with
  `3 <= Lease`. While no connection is lost, no two renewals in a row fail and the meeting goes
  on, a replica that holds the room owns its lease and its bot is the one in the room (`Owned`),
  and the lease has lost at most one sweep for the renewal that failed and one for the one that
  is due (`Covered`). So it runs out under no holder, and whoever dials has claimed it. The
  room's lock (`Locking`) orders the sweep's renewals and yields with the dials. The hypothesis is
  the code's own reckoning: three sweeps for one renewal that fails
  (`livekit_ingress_worker/worker.py:169`).

- `SpeechStreamProofs`: `OneDeliveryPublishes`, `CommitsTheBeginning`. For the first, `Once`: what is
  published is marked, by one delivery, and by this one while its handler is past the look at
  the mark. For the second: a handler beside an append that is being sent is one it overtook
  (`Alone`); a session that took the place of another finds the turn over or excepted
  (`Elsewhere`); and the buffer of the speaker's session is the beginning of the turn being
  streamed, of the append under way or of the handler's (`Buffered`), so what is popped and sent
  goes on with it (`InHand`).

Only model-checked: every liveness property, which is out of the prover's reach. These are all
that is checked of `CreditSuspension`, whose two properties say what follows a refusal and a
payment.

## 7. Disagreements and observations

The following formulas are definitions of their modules that the code violates. No run lists
them; adding one to the configuration of its module gives the counterexample.

- `WorkerQueue.OneRunner` and `WorkerQueue.NoRunAfterSettled`, at the run's own bounds: up to ten
  entries are claimed at once (`shared/redis_client.py:787`) and worked off one by one, so the
  tail of a claim looks abandoned to the next replica, which runs it beside the first or
  acknowledges it under it (`shared/base_worker.py:905`, "certainly not being processed").
- `PipelinedQueue.NoRunAfterSettled`: an entry is run again because its own handler finished
  during the recovery pass (`shared/base_worker.py:1027`, against the comment at 1028).
- `StreamTrim.FreshEntriesKept`: a live group is judged dead by the age of the last entry it
  read (`shared/redis_client.py:354`), so after a quiet hour a burst is trimmed under it;
  `redis_client.py:324` and `tests/test_redis_stream_lifecycle.py:153` say it is not.
- `RoomLease.EndedRoomNotQueued`: a finished room comes back into the queue of rooms to dial
  (`shared/base_worker.py:550`; `livekit_ingress_worker/worker.py:1374`, 904, 750).
- `RoomLease.MeetingIsHeard` with two faults: a replica loses its connection while its release of
  an empty room is on its way and people come back, and forgets the room
  (`livekit_ingress_worker/worker.py:1616`); the other one, restarted without reading which rooms
  are live, missed their coming.
- `RouteState.TranslationFollows` (with fairness of the backend, listener and callers): a
  missed broadcast is never made up for by the translation gate
  (`shared/base_worker.py:482`, against 392, 398 and 670).
- `Dubbing.ZeroIsSilence`: a drain that times out cancels the pump in its first slice, and what
  was heard of it is never counted (`tts_worker/livekit_publisher.py:280`, 366; the docstring at 186
  says zero means that nothing was published), so the listener hears the opening again.
- `Dubbing.NothingVanishes`: a one-shot answered without audio is neither published nor parked, and
  its message is acknowledged (`tts_worker/worker.py:2715`; the comment at 2648 is about that loss).
- `InterpreterTracks.MarkedLeaves`: a bot marked to leave after its sentence is no longer marked
  once its next slice or sentence began (`tts_worker/livekit_publisher.py:361`, 715).
- `InterpreterTracks.NobodyStays`: a bot whose disconnect failed, or whose join broke off after it
  had connected, is out of the map but not of the room, where its track mutes the speaker; nobody
  tries again (`tts_worker/livekit_publisher.py:849`, against 711).
- `SpeechStream.NothingButItsTurn`, in each of the four ways `FromTheBeginning` excepts. The prewarm
  of a track replaces a session in use (`stt_worker/model.py:1844`) and a turn streamed to the old
  one goes on in the new (`stt_worker/worker.py:716` takes the new epoch without comparing it), so
  what was appended before is lost. A renewal waits until the buffer is quiet, but not for an append
  that is being sent to the old session (`stt_worker/model.py:1753`). A clear that fails leaves the
  buffer (3170), and one that a late frame makes while a handler sends empties what that handler sent
  (`stt_worker/worker.py:642`): the append that makes it waits for no lock. A cancelled
  handler leaves what it had sent. `stt_worker/worker.py:645` and `model.py:3121` make none of these exceptions.
- `Translation.NothingMissing`: a claim may be left with nobody to publish its piece, which every
  delivery then passes over for the key's two hours. A crash or a cancellation between claim and
  publication leaves one, a failed delete (`translation_worker/worker.py:737`), and a SET NX whose
  answer is lost, which `_retry` repeats (`shared/redis_client.py:968`, 1027); and one delivery
  passes over what a superseded one holds and then fails to publish. The docstring at 717
  has a failed publish "retried rather than lost". `dropped` is excepted here too, and
  counts a sentence whose second judgement failed (901).
- `VoiceClones.BlipIsNotWithdrawal`: a voice just made is destroyed when its person's consent merely
  cannot be read (`tts_worker/worker.py:3930`, against the docstring at 3887).
- `VoiceClones.WithdrawnIsForgotten` without `orphaned`: an HDEL that landed and failed has taken the
  pointer away, so nobody finds the voice to ask for its deletion; the sweep does (4037).
- `SpeechStream.WholeTurn`: a turn whose last frames come after its chunk is committed without
  them when an earlier append is known to have gone through (`stt_worker/worker.py:1404`, against 645 and 632;
  `livekit_ingress_worker/worker.py:2241`, 2255).

Seen while modelling, and not stated as formulas.

Queue and rooms:

- A room may be stopped and nobody told: a failed call, or a lost reply to the SET NX, between the
  key and the announcement (`billing_worker/worker.py:503`) leaves a key that every later refusal
  finds, against the comments at 475 and 107.
- A room let go on an answer from before the lapse runs unpaid until its next billable event
  (`billing_worker/worker.py:604`, 619): `UnpaidRoomStops` is about what happens for good.
- A handler sets `ai_service_suspended` and later `ai_service_state`; the watch loop deletes
  both in one call and announces a resume if either was there. Two replicas that let the
  room go around such a handler announce one resume twice.
- A handler that resolved its subscription before a payment may set the suspension key just
  after a watch loop let the room go; it is corrected at the next interval or expires.
- A backfill that nobody pays for leaves no trace when its count fails too
  (`billing_worker/worker.py:568`); a live result or a dub still stops its room.
- A check that always raises ends the watch pass: rooms after it wait for the next one.
- The recovery pass of `consume_pipelined` is awaited by the reading side: new messages of
  every key wait for a reclaimed one, although places are free.
- A reclaimed entry that is passed over as in flight has still been counted as a delivery.
- A group at `0-0` stops every trim until it has read something; a group created between
  XINFO and XTRIM is not asked what it needs.
- A late `_release_room_ownership` may release a claim the same process has made anew. The
  sweep gives a lost room's claim up outside the room's lock, so with two events and one lost
  connection a dial can evict a holder: `NoEviction` is stated up to the first lost connection.
  Deferred rooms are dialled one after the other before the next renewal.
- A GET answered before a change and applied after its broadcast puts the older payload
  back, which the comment at `shared/base_worker.py:435` excludes. A consent a broadcast brings
  while the read of an unknown room fails is answered `not_opted_in` once.

Speech:

- A retry inside `transcribe` (`stt_worker/model.py:2055`) repeats sentences that were already
  emitted early; the line at `stt_worker/worker.py:1135` says they are published once.
- The mark that a chunk is published is set before the publication (`stt_worker/worker.py:1151`):
  a failure or crash in between loses its lines.

Translation:

- A message that publishes nothing ends without having waited, so the next one overtakes the one
  before it (`translation_worker/worker.py:453` against 127).
- When one language of a message fails, the other's lane goes on after the ticket is released.
- A last sentence that is suppressed publishes no `is_final_chunk` marker (913).
- `semaphore.locked()` is asked before the tasks created earlier have run (340).
- The pool of realtime sockets loses a slot when a translation is cancelled while it closes an
  over-age socket or connects (`translation_worker/translator.py:498` and 511):
  `except Exception` does not catch the cancellation, which a speculation gets after 1.5 s
  (`worker.py:347`). A second socket may be opened for a slot that is being reconnected.

Dubbing and clones (`tts_worker/worker.py`):

- A result whose answer is lost is appended again by `_retry` (`shared/redis_client.py:1021`): billing
  sees it twice, under one key.
- A sentence skipped because its room is paused publishes no `final_chunk_processed` (1800).
- `_cleanup_room` (1288) drops the key's lock, so handlers of an old and a new lane may share a
  context; a half-said sentence cancelled by the timeout is delivered and said again.
- A voice renamed whose announcement then failed is a `profile-` voice nobody knows: neither
  the sweep nor the profile owns it (4332).
- A consent withdrawn and given again while the first rung is at the vendor leaves the
  provisional voice for the whole meeting; a kill switch turned off and on seeds the score to
  beat downwards (3237).
- A speaker's own clone in flight at the moment of withdrawal is cached, announced and
  carried over; far-side clones ask again.
- The expiry of the far-side hash is refreshed by every new far-side clone, so an old pointer may
  outlive the 24 hours the sweep waits (`shared/config.py:865`).
- With two replicas of the dubbing worker, a short clone of one may land after a long one of the
  other, and two clones of one far-side name overwrite each other's pointer. Compose runs one.

## 8. Not modelled

Left out of the modules, with the reason:

- `WorkerQueue`: the pass-over of entries in flight, which is in `PipelinedQueue`.
- `StreamTrim`: the TTL refresh. `RouteState`: the voice fields of a route and the pause flag of
  the transcript. `RoomLease`: the back-off of failed dials and the parallel rediscovery,
  abstracted to one dial at a time.
- `SpeechStream`: the text and its filters, the second pass, far-side dedupe, the warm pool and
  the language override; opening by a chunk is one step; a retried publish of a chunk whose
  answer was lost (`livekit_ingress_worker/worker.py:2816`) is not a second chunk.
- `Translation`: speculation, context, glossaries and passthrough; the expiry of a claim.
- `Dubbing`: catch-up speed and prosody (prosody continuity and streaming to LiveKit are taken
  as on); a reclaimed entry's wait is one step. `InterpreterTracks`: the grace of a declared
  change; "auto" stands for a language not dubbed; the 30 seconds a "no" about the bridge is good for.
- `VoiceClones`: uploads and previews of a profile, catalogs, the attribution of captions to
  far-side people, the wait for a first clone, the lock of the sweep, the backend that deletes a
  profile of somebody who withdrew at their own seat. A chunk from that seat reads consent,
  switch, voice and its language, awaiting each, and acts on them in one step: one process
  takes the chunks in turn, and a change or the end of a call between two of those reads is as if it
  came before or after the chunk. What happens within a day,
  the twelve hours of the entry and the twenty-four of the sweep are one step (`DayPasses`),
  which waits for calls and requests; `CaptureTake` waits while a withdrawal is under way, since
  a sample takes seconds of speech and a withdrawal two Redis calls.

Components without a module:

- Heartbeats, pruning of consumers and `consume_concurrent`: no decision of the system rests on
  them, or they repeat what the queue modules show (their notes say which).
- Signal processing (gates, voice activity, sample quality), prompts and answers of models,
  pattern matching, configuration, metrics, tools and spikes: real numbers, text, pure
  functions or pure reads.
- Summaries, chat and its tools, knowledge facts, clean transcript, suggestions, embedding,
  retranscription, backfill: each handles one message at a time on the queue of `WorkerQueue`,
  which is modelled; their own state (the meeting's buffer and its claim, budgets and cooldowns,
  the open sentence) is small beside their text processing. Summaries are first in line.

The modules cover the parts where order, failure and concurrency decide, about a seventh of the
implementation's lines. The rest is largely text, prompts, schemas and signal code.
