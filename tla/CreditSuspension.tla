------------------------- MODULE CreditSuspension -------------------------
(***************************************************************************)
(* What BillingSettlementWorker does when a workspace cannot pay: a refused *)
(* charge marks the room and the workspace suspended in Redis, tells the   *)
(* room once, and a watch loop keeps the marks alive until the workspace   *)
(* can pay again.  Handlers of several streams and replicas mark, the      *)
(* watch loops of all replicas extend and clear, and each Redis or         *)
(* database call is a step of its own.                                     *)
(*                                                                         *)
(* One unit of time is the interval of the watch loop; calls are short     *)
(* against it.  Meetings go on for ever: only the events between two ticks *)
(* are bounded.                                                            *)
(***************************************************************************)
EXTENDS Integers, FiniteSets

CONSTANTS
    Replicas,
    Handlers, Home, \* stream handlers and the replica each runs in
    Rooms,          \* rooms of one workspace
    Ttl,            \* SUSPENSION_TTL_SECONDS, in watch intervals
    MaxSubs,        \* bound: subscriptions ever bought
    MaxChanges,     \* bound: expiries, renewals, suspensions and resumes
    MaxEvents,      \* bound: billable events in an interval
    MaxFaults,      \* bound: failed calls and crashes
    NoRoom

Subs == 1..MaxSubs

ASSUME SuspensionConstants ==
    /\ Home \in [Handlers -> Replicas]
    /\ NoRoom \notin Rooms
    /\ Ttl \in Nat \ {0} /\ MaxSubs \in Nat \ {0}
    /\ MaxChanges \in Nat /\ MaxEvents \in Nat /\ MaxFaults \in Nat

VARIABLES
    active,     \* the workspace's active subscription, 0 for none
    bought,     \* subscriptions bought so far
    refused,    \* its service state is "suspended"
    flag,       \* TTL left of each room's ai_service_suspended, 0 when absent
    state,      \* the same of its ai_service_state
    wsFlag,     \* the same of the workspace's keys
    stopped,    \* _suspended_rooms of each replica
    cache,      \* _subscription_cache, 0 for no entry
    step, room, \* of each handler
    sub,        \* the subscription it charges; once refused, the one to forget
    newly,      \* it set the room's key itself
    watch, at,  \* of each watch loop, and the room it looks at
    todo,       \* rooms it has yet to look at
    removed,    \* its DELETE removed something
    due,        \* its sleep is over
    changes, faults,
    events      \* since the last tick

dbVars    == <<active, bought, refused, changes>>
keyVars   == <<flag, state, wsFlag>>
taskVars  == <<step, room, sub, newly, events>>
watchVars == <<watch, at, todo, removed, due>>
vars == <<dbVars, keyVars, stopped, cache, taskVars, watchVars, faults>>

Steps   == {"idle", "resolve", "store", "charge", "remember", "mark", "extend", "state", "announce"}
Watches == {"sleep", "next", "decide", "refresh", "clear", "workspace", "announce"}

Init ==
    /\ active = 1 /\ bought = 1 /\ refused \in BOOLEAN /\ changes = 0
    /\ flag = [r \in Rooms |-> 0] /\ state = [r \in Rooms |-> 0] /\ wsFlag = 0
    /\ stopped = [p \in Replicas |-> {}]
    /\ cache = [p \in Replicas |-> [r \in Rooms |-> 0]]
    /\ step = [h \in Handlers |-> "idle"]
    /\ room = [h \in Handlers |-> NoRoom]
    /\ sub = [h \in Handlers |-> 0]
    /\ newly = [h \in Handlers |-> FALSE]
    /\ watch = [p \in Replicas |-> "sleep"]
    /\ at = [p \in Replicas |-> NoRoom]
    /\ todo = [p \in Replicas |-> {}]
    /\ removed = [p \in Replicas |-> FALSE]
    /\ due = [p \in Replicas |-> FALSE]
    /\ events = 0 /\ faults = 0

Payable == active # 0 /\ ~refused

-----------------------------------------------------------------------------
(* The workspace.                                                           *)

Change ==
    /\ changes < MaxChanges /\ changes' = changes + 1
    /\ UNCHANGED <<keyVars, stopped, cache, taskVars, watchVars, faults>>

Lapse   == active # 0 /\ active' = 0 /\ refused' = FALSE /\ UNCHANGED bought /\ Change
Suspend == active # 0 /\ ~refused /\ refused' = TRUE /\ UNCHANGED <<active, bought>> /\ Change
Resume  == refused /\ refused' = FALSE /\ UNCHANGED <<active, bought>> /\ Change
Renew   ==
    /\ active = 0 /\ bought < MaxSubs
    /\ bought' = bought + 1 /\ active' = bought + 1
    /\ UNCHANGED refused /\ Change

-----------------------------------------------------------------------------
(* Settling one billable event.                                             *)

\* A billable result of a room arrives; one translated just before the room was
\* stopped may still do so.  _resolve_subscription looks into the cache first, where
\* an entry may have passed its TTL.
Take(h, r) ==
    /\ step[h] = "idle" /\ events < MaxEvents
    /\ events' = events + 1
    /\ room' = [room EXCEPT ![h] = r]
    /\ \/ /\ cache[Home[h]][r] # 0
          /\ sub' = [sub EXCEPT ![h] = cache[Home[h]][r]]
          /\ step' = [step EXCEPT ![h] = "charge"]
       \/ step' = [step EXCEPT ![h] = "resolve"] /\ UNCHANGED sub
    /\ UNCHANGED <<dbVars, keyVars, stopped, cache, newly, watchVars, faults>>

\* The active subscription of the workspace; none is a refusal, and is not cached.
Resolve(h) ==
    /\ step[h] = "resolve"
    /\ sub' = [sub EXCEPT ![h] = active]
    /\ step' = [step EXCEPT ![h] = IF active = 0 THEN "remember" ELSE "store"]
    /\ UNCHANGED <<dbVars, keyVars, stopped, cache, room, newly, events, watchVars, faults>>

Store(h) ==
    /\ step[h] = "store"
    /\ cache' = [cache EXCEPT ![Home[h]][room[h]] = sub[h]]
    /\ step' = [step EXCEPT ![h] = "charge"]
    /\ UNCHANGED <<dbVars, keyVars, stopped, room, sub, newly, events, watchVars, faults>>

Done(h) ==
    /\ step' = [step EXCEPT ![h] = "idle"]
    /\ room' = [room EXCEPT ![h] = NoRoom]
    /\ sub' = [sub EXCEPT ![h] = 0]
    /\ newly' = [newly EXCEPT ![h] = FALSE]

\* settle_usage_charge.
Charge(h) ==
    /\ step[h] = "charge"
    /\ IF sub[h] = active /\ ~refused
       THEN Done(h)
       ELSE /\ step' = [step EXCEPT ![h] = "remember"]
            /\ sub' = [sub EXCEPT ![h] = IF @ = active THEN 0 ELSE @]
            /\ UNCHANGED <<room, newly>>
    /\ UNCHANGED <<dbVars, keyVars, stopped, cache, events, watchVars, faults>>

\* _note_settlement, once the refusal is counted: one because the subscription ended
\* forgets what is cached.  _suspend_room: the replica's watch loop looks after the room.
Remember(h) ==
    /\ step[h] = "remember"
    /\ cache' = IF sub[h] = 0 THEN cache ELSE [cache EXCEPT ![Home[h]][room[h]] = 0]
    /\ stopped' = [stopped EXCEPT ![Home[h]] = @ \cup {room[h]}]
    /\ step' = [step EXCEPT ![h] = "mark"]
    /\ UNCHANGED <<dbVars, keyVars, room, sub, newly, events, watchVars, faults>>

\* Mutant: in a workspace that is marked already there is nothing left to mark.
MarkUnlessWorkspace(h) ==
    /\ step[h] = "mark"
    /\ LET r == room[h]
           new == flag[r] = 0 /\ wsFlag = 0 IN
          /\ newly' = [newly EXCEPT ![h] = new]
          /\ step' = [step EXCEPT ![h] = IF new THEN "state" ELSE "extend"]
          /\ flag' = [flag EXCEPT ![r] = IF new THEN Ttl ELSE @]
    /\ UNCHANGED <<dbVars, state, wsFlag, stopped, cache, room, sub, events, watchVars,
                   faults>>

\* SET NX of the room's key decides who announces it.
Mark(h) ==
    /\ step[h] = "mark"
    /\ LET r == room[h] IN
          /\ newly' = [newly EXCEPT ![h] = flag[r] = 0]
          /\ step' = [step EXCEPT ![h] = IF flag[r] = 0 THEN "state" ELSE "extend"]
          /\ flag' = [flag EXCEPT ![r] = IF @ = 0 THEN Ttl ELSE @]
    /\ UNCHANGED <<dbVars, state, wsFlag, stopped, cache, room, sub, events, watchVars,
                   faults>>

\* EXPIRE of a key that is there; of one that is not it does nothing.
Extended(ttl) == IF ttl = 0 THEN 0 ELSE Ttl

Extend(h) ==
    /\ step[h] = "extend"
    /\ flag' = [flag EXCEPT ![room[h]] = Extended(@)]
    /\ step' = [step EXCEPT ![h] = "state"]
    /\ UNCHANGED <<dbVars, state, wsFlag, stopped, cache, room, sub, newly, events, watchVars,
                   faults>>

\* The state key and the keys of the workspace, one after the other: one step, since
\* each only adds a key that the next pass which can pay removes.
WriteState(h) ==
    /\ step[h] = "state"
    /\ state' = [state EXCEPT ![room[h]] = Ttl]
    /\ wsFlag' = Ttl
    /\ IF newly[h]
       THEN step' = [step EXCEPT ![h] = "announce"] /\ UNCHANGED <<room, sub, newly>>
       ELSE Done(h)
    /\ UNCHANGED <<dbVars, flag, stopped, cache, events, watchVars, faults>>

\* TranslationCreditsExhausted: what a room is told decides nothing here.
Announce(h) ==
    /\ step[h] = "announce"
    /\ Done(h)
    /\ UNCHANGED <<dbVars, keyVars, stopped, cache, events, watchVars, faults>>

-----------------------------------------------------------------------------
(* The watch loop: _recheck_suspended_rooms.                                *)

StartPass(p) ==
    /\ watch[p] = "sleep" /\ due[p]
    /\ todo' = [todo EXCEPT ![p] = stopped[p]]
    /\ watch' = [watch EXCEPT ![p] = IF stopped[p] = {} THEN "sleep" ELSE "next"]
    /\ due' = [due EXCEPT ![p] = FALSE]
    /\ UNCHANGED <<dbVars, keyVars, stopped, cache, taskVars, at, removed, faults>>

\* On to the next room, or the pass is over.
NextRoom(p) ==
    /\ watch' = [watch EXCEPT ![p] = IF todo[p] = {} THEN "sleep" ELSE "next"]
    /\ at' = [at EXCEPT ![p] = NoRoom]

\* Mutant: it asks for the subscription the room was stopped on.
AskOld(p) ==
    /\ watch[p] = "next"
    /\ \E r \in todo[p] :
          /\ todo' = [todo EXCEPT ![p] = @ \ {r}]
          /\ at' = [at EXCEPT ![p] = r]
    /\ watch' = [watch EXCEPT ![p] = IF active = 1 /\ ~refused THEN "decide" ELSE "refresh"]
    /\ UNCHANGED <<dbVars, keyVars, stopped, cache, taskVars, removed, due, faults>>

\* _workspace_payment_state: of the workspace's active subscription, a renewal too.  Two
\* queries in one step: what changes between them is a change before or after both.
Ask(p) ==
    /\ watch[p] = "next"
    /\ \E r \in todo[p] :
          /\ todo' = [todo EXCEPT ![p] = @ \ {r}]
          /\ at' = [at EXCEPT ![p] = r]
    /\ watch' = [watch EXCEPT ![p] = IF Payable THEN "decide" ELSE "refresh"]
    /\ UNCHANGED <<dbVars, keyVars, stopped, cache, taskVars, removed, due, faults>>

\* Still cannot pay: keep the keys alive.  The EXPIREs are one step: what comes
\* between them sets a key to Ttl or removes it, after them as well as before.
Refresh(p) ==
    /\ watch[p] = "refresh"
    /\ flag' = [flag EXCEPT ![at[p]] = Extended(@)]
    /\ state' = [state EXCEPT ![at[p]] = Extended(@)]
    /\ wsFlag' = Extended(wsFlag)
    /\ NextRoom(p)
    /\ UNCHANGED <<dbVars, stopped, cache, taskVars, todo, removed, due, faults>>

\* Can pay: forget the room and what was cached for it.
LetGo(p) ==
    /\ watch[p] = "decide"
    /\ stopped' = [stopped EXCEPT ![p] = @ \ {at[p]}]
    /\ cache' = [cache EXCEPT ![p][at[p]] = 0]
    /\ watch' = [watch EXCEPT ![p] = "clear"]
    /\ UNCHANGED <<dbVars, keyVars, taskVars, at, todo, removed, due, faults>>

\* DELETE of both keys of the room answers how many were there.
Clear(p) ==
    /\ watch[p] = "clear"
    /\ LET r == at[p] IN
          /\ removed' = [removed EXCEPT ![p] = flag[r] > 0 \/ state[r] > 0]
          /\ flag' = [flag EXCEPT ![r] = 0]
          /\ state' = [state EXCEPT ![r] = 0]
    /\ watch' = [watch EXCEPT ![p] = "workspace"]
    /\ UNCHANGED <<dbVars, wsFlag, stopped, cache, taskVars, at, todo, due, faults>>

ClearWorkspace(p) ==
    /\ watch[p] = "workspace"
    /\ wsFlag' = 0
    /\ IF removed[p]
       THEN watch' = [watch EXCEPT ![p] = "announce"] /\ UNCHANGED at
       ELSE NextRoom(p)
    /\ UNCHANGED <<dbVars, flag, state, stopped, cache, taskVars, todo, removed, due, faults>>

\* TranslationCreditsRestored
AnnounceResume(p) ==
    /\ watch[p] = "announce"
    /\ NextRoom(p)
    /\ removed' = [removed EXCEPT ![p] = FALSE]
    /\ UNCHANGED <<dbVars, keyVars, stopped, cache, taskVars, todo, due, faults>>

-----------------------------------------------------------------------------
(* Faults and time.                                                         *)

Fault == faults < MaxFaults /\ faults' = faults + 1

\* SET NX is carried out, its reply is lost, and _retry is told that the key is there.
MarkReplyLost(h) ==
    /\ Fault /\ step[h] = "mark"
    /\ flag' = [flag EXCEPT ![room[h]] = IF @ = 0 THEN Ttl ELSE @]
    /\ step' = [step EXCEPT ![h] = "extend"]
    /\ UNCHANGED <<dbVars, state, wsFlag, stopped, cache, room, sub, newly, events, watchVars>>

\* A call of the handler fails: what is left of marking the room is dropped.
HandlerFails(h) ==
    /\ Fault /\ step[h] # "idle"
    /\ Done(h)
    /\ UNCHANGED <<dbVars, keyVars, stopped, cache, events, watchVars>>

Sleep(p) ==
    /\ watch' = [watch EXCEPT ![p] = "sleep"]
    /\ at' = [at EXCEPT ![p] = NoRoom]
    /\ todo' = [todo EXCEPT ![p] = {}]
    /\ removed' = [removed EXCEPT ![p] = FALSE]

\* A call of the watch loop fails: the pass ends there, for every room.
WatchFails(p) ==
    /\ Fault /\ watch[p] # "sleep"
    /\ Sleep(p)
    /\ UNCHANGED <<dbVars, keyVars, stopped, cache, taskVars, due>>

\* The replica restarts and remembers no room it stopped.
Crash(p) ==
    /\ Fault
    /\ stopped' = [stopped EXCEPT ![p] = {}]
    /\ cache' = [cache EXCEPT ![p] = [r \in Rooms |-> 0]]
    /\ Sleep(p)
    /\ step' = [h \in Handlers |-> IF Home[h] = p THEN "idle" ELSE step[h]]
    /\ room' = [h \in Handlers |-> IF Home[h] = p THEN NoRoom ELSE room[h]]
    /\ sub' = [h \in Handlers |-> IF Home[h] = p THEN 0 ELSE sub[h]]
    /\ newly' = [h \in Handlers |-> IF Home[h] = p THEN FALSE ELSE newly[h]]
    /\ UNCHANGED <<dbVars, keyVars, events, due>>

Less(ttl) == IF ttl = 0 THEN 0 ELSE ttl - 1

\* Thirty seconds: whatever is under way ends within them, keys age.
Tick ==
    /\ \A h \in Handlers : step[h] = "idle"
    /\ \A p \in Replicas : watch[p] = "sleep" /\ ~due[p]
    /\ flag' = [r \in Rooms |-> Less(flag[r])]
    /\ state' = [r \in Rooms |-> Less(state[r])]
    /\ wsFlag' = Less(wsFlag)
    /\ due' = [p \in Replicas |-> TRUE]
    /\ events' = 0
    /\ UNCHANGED <<dbVars, stopped, cache, step, room, sub, newly, watch, at, todo, removed, faults>>

-----------------------------------------------------------------------------
Settle(h) ==
    \/ Resolve(h) \/ Store(h) \/ Charge(h) \/ Remember(h) \/ Mark(h) \/ Extend(h) \/ WriteState(h)
    \/ Announce(h)

Watch(p) ==
    \/ StartPass(p) \/ Ask(p) \/ Refresh(p) \/ LetGo(p) \/ Clear(p)
    \/ ClearWorkspace(p) \/ AnnounceResume(p)

Next ==
    \/ Lapse \/ Suspend \/ Resume \/ Renew \/ Tick
    \/ \E h \in Handlers : Settle(h) \/ HandlerFails(h) \/ MarkReplyLost(h) \/ \E r \in Rooms : Take(h, r)
    \/ \E p \in Replicas :
          Watch(p) \/ WatchFails(p) \/ Crash(p)

Spec == Init /\ [][Next]_vars

\* Whatever can run does, in any order, and time passes: a Tick waits for all of it,
\* so nothing is starved.
Progress == (\E h \in Handlers : Settle(h)) \/ (\E p \in Replicas : Watch(p)) \/ Tick

Fairness == WF_vars(Progress)

FairSpec == Spec /\ Fairness

-----------------------------------------------------------------------------
\* Every variable keeps its type.
TypeOK ==
    /\ active \in 0..MaxSubs /\ bought \in Subs /\ refused \in BOOLEAN
    /\ flag \in [Rooms -> 0..Ttl] /\ state \in [Rooms -> 0..Ttl] /\ wsFlag \in 0..Ttl
    /\ stopped \in [Replicas -> SUBSET Rooms]
    /\ cache \in [Replicas -> [Rooms -> 0..MaxSubs]]
    /\ step \in [Handlers -> Steps] /\ room \in [Handlers -> Rooms \cup {NoRoom}]
    /\ \A h \in Handlers : (step[h] = "idle") = (room[h] = NoRoom)
    /\ sub \in [Handlers -> 0..MaxSubs] /\ newly \in [Handlers -> BOOLEAN]
    /\ watch \in [Replicas -> Watches] /\ at \in [Replicas -> Rooms \cup {NoRoom}]
    /\ \A p \in Replicas : watch[p] \notin {"sleep", "next"} => at[p] \in Rooms
    /\ todo \in [Replicas -> SUBSET Rooms] /\ removed \in [Replicas -> BOOLEAN]
    /\ due \in [Replicas -> BOOLEAN]

\* A workspace that can pay for good gets its rooms back for good, whatever crashed or
\* failed: the marks do not outlive the refusal, and no charge of the meetings that go
\* on is refused for ever over a subscription that ended, whoever still had it cached.
PaidRoomsRun == <>[]Payable => <>[](wsFlag = 0 /\ \A r \in Rooms : flag[r] = 0)

\* A room whose workspace cannot pay any more is stopped and stays so, unless nothing of
\* it is billed any more: a loop that asked before the lapse may let it go once, a
\* restart may forget it, but not for ever.
UnpaidRoomStops ==
    <>[]~Payable =>
        \A r \in Rooms :
            []<>(flag[r] > 0 \/ \E h \in Handlers : room[h] = r) => <>[](flag[r] > 0)
=============================================================================
