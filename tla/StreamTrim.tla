---------------------------- MODULE StreamTrim ----------------------------
(***************************************************************************)
(* How RedisStreamClient.publish bounds a stream: append, and then, if the *)
(* stream is over stream_maxlen, ask every consumer group what it still    *)
(* needs and trim below the earliest of it.  Each question is a call of    *)
(* its own, so other publishers append and trim, and groups read and       *)
(* acknowledge, in between.                                                *)
(***************************************************************************)
EXTENDS Naturals, FiniteSets

CONSTANTS
    Groups, Publishers,
    NumEntries,     \* bound: entries ever appended
    MaxLen,         \* stream_maxlen
    StaleAfter,     \* stream_group_stale_after_seconds
    MaxTime         \* bound of the clock

Ids == 1..NumEntries

ASSUME TrimConstants ==
    /\ NumEntries \in Nat /\ MaxLen \in Nat \ {0}
    /\ StaleAfter \in Nat \ {0} /\ MaxTime \in Nat

VARIABLES
    now,
    newest,     \* the last id appended
    stamp,      \* the wall-clock part of each id
    entries,    \* what the stream holds
    groups,     \* the consumer groups that exist
    last,       \* last-delivered-id of each, 0 for 0-0
    pend,       \* pending entries of each
    step,       \* how far each publish is
    looked,     \* the groups XINFO GROUPS listed to it
    seen,       \* their last-delivered-id at that time
    left,       \* those it has yet to judge
    required,   \* what the groups judged so far need
    ignored,    \* and those of them taken for dead
    mine,       \* the id it appended
    tidy        \* history: it started with no live group far behind, none came (back) since

streamVars == <<newest, stamp, entries>>
groupVars  == <<groups, last, pend>>
lookVars   == <<looked, seen, left, required, ignored>>
vars == <<now, streamVars, groupVars, step, lookVars, mine, tidy>>

Steps == {"idle", "len", "groups", "judge"}

Init ==
    /\ now = 0 /\ newest = 0 /\ entries = {}
    /\ stamp = [m \in Ids |-> 0]
    /\ groups = {}
    /\ last = [g \in Groups |-> 0]
    /\ pend = [g \in Groups |-> {}]
    /\ step = [p \in Publishers |-> "idle"]
    /\ looked = [p \in Publishers |-> {}]
    /\ seen = [p \in Publishers |-> [g \in Groups |-> 0]]
    /\ left = [p \in Publishers |-> {}]
    /\ required = [p \in Publishers |-> {}]
    /\ ignored = [p \in Publishers |-> {}]
    /\ mine = [p \in Publishers |-> 0]
    /\ tidy = [p \in Publishers |-> FALSE]

-----------------------------------------------------------------------------
(* The groups.                                                              *)

\* For the properties: a group that has read, but nothing recent.
Dead(g) == last[g] > 0 /\ stamp[last[g]] + StaleAfter < now

\* ensure_consumer_group: from the start of what is retained.
CreateGroup(g) ==
    /\ g \notin groups
    /\ groups' = groups \cup {g}
    /\ last' = [last EXCEPT ![g] = 0]
    /\ pend' = [pend EXCEPT ![g] = {}]
    /\ tidy' = [p \in Publishers |-> FALSE]
    /\ UNCHANGED <<now, streamVars, step, lookVars, mine>>

Unread(g) == {m \in entries : m > last[g]}

Deliver(g) ==
    /\ g \in groups
    /\ \E m \in Unread(g) :
          /\ \A n \in Unread(g) : m <= n
          /\ last' = [last EXCEPT ![g] = m]
          /\ pend' = [pend EXCEPT ![g] = @ \cup {m}]
    /\ tidy' = [p \in Publishers |-> tidy[p] /\ ~Dead(g)]
    /\ UNCHANGED <<now, streamVars, groups, step, lookVars, mine>>

Settle(g, m) ==
    /\ m \in pend[g]
    /\ pend' = [pend EXCEPT ![g] = @ \ {m}]
    /\ UNCHANGED <<now, streamVars, groups, last, step, lookVars, mine, tidy>>

Needs(g, m) == g \in groups /\ (m > last[g] \/ m \in pend[g])

-----------------------------------------------------------------------------
(* A publish.                                                               *)

\* Mutant: no group is ever taken for dead.
NeverStale(id) == FALSE

\* _group_is_stale
Stale(id) == now - stamp[id] > StaleAfter

\* A group within MaxLen of the newest entry, unread and pending counted alike.
KeepsUp(g) == \A m \in Ids : m <= newest /\ Needs(g, m) => m + MaxLen > newest

\* XADD
Append(p) ==
    /\ step[p] = "idle" /\ newest < NumEntries
    /\ newest' = newest + 1
    /\ stamp' = [stamp EXCEPT ![newest + 1] = now]
    /\ entries' = entries \cup {newest + 1}
    /\ mine' = [mine EXCEPT ![p] = newest + 1]
    /\ tidy' = [tidy EXCEPT ![p] =
          \A g \in groups : last[g] > 0 /\ (Dead(g) \/ KeepsUp(g))]
    /\ step' = [step EXCEPT ![p] = "len"]
    /\ UNCHANGED <<now, groupVars, lookVars>>

\* The publish returns: what it looked up is forgotten.
Return(p) ==
    /\ step' = [step EXCEPT ![p] = "idle"]
    /\ looked' = [looked EXCEPT ![p] = {}]
    /\ seen' = [seen EXCEPT ![p] = [g \in Groups |-> 0]]
    /\ left' = [left EXCEPT ![p] = {}]
    /\ required' = [required EXCEPT ![p] = {}]
    /\ ignored' = [ignored EXCEPT ![p] = {}]
    /\ mine' = [mine EXCEPT ![p] = 0]

CheckLength(p) ==
    /\ step[p] = "len"
    /\ IF Cardinality(entries) <= MaxLen
       THEN Return(p) /\ tidy' = [tidy EXCEPT ![p] = FALSE]
       ELSE /\ step' = [step EXCEPT ![p] = "groups"]
            /\ UNCHANGED <<lookVars, mine, tidy>>
    /\ UNCHANGED <<now, streamVars, groupVars>>

\* XINFO GROUPS
Look(p) ==
    /\ step[p] = "groups"
    /\ looked' = [looked EXCEPT ![p] = groups]
    /\ seen' = [seen EXCEPT ![p] = [g \in Groups |-> IF g \in groups THEN last[g] ELSE 0]]
    /\ left' = [left EXCEPT ![p] = groups]
    /\ required' = [required EXCEPT ![p] = {}]
    /\ ignored' = [ignored EXCEPT ![p] = {}]
    /\ step' = [step EXCEPT ![p] = "judge"]
    /\ UNCHANGED <<now, streamVars, groupVars, mine, tidy>>

\* A group that has read nothing yet: nothing is trimmed at all.
GiveUp(p) ==
    /\ step[p] = "judge"
    /\ \E g \in left[p] : seen[p][g] = 0
    /\ Return(p) /\ tidy' = [tidy EXCEPT ![p] = FALSE]
    /\ UNCHANGED <<now, streamVars, groupVars>>

Judged(p, g) ==
    /\ step[p] = "judge" /\ g \in left[p] /\ seen[p][g] > 0
    /\ left' = [left EXCEPT ![p] = @ \ {g}]
    /\ UNCHANGED <<now, streamVars, groupVars, step, looked, seen, mine, tidy>>

\* Its last read is too long ago: it no longer holds anything.
Ignore(p, g) ==
    /\ Judged(p, g) /\ Stale(seen[p][g])
    /\ ignored' = [ignored EXCEPT ![p] = @ \cup {g}]
    /\ UNCHANGED required

\* Mutant: only what was not delivered is needed.
RequireUnread(p, g) ==
    /\ Judged(p, g) /\ ~Stale(seen[p][g])
    /\ required' = [required EXCEPT ![p] = @ \cup {seen[p][g]}]
    /\ UNCHANGED ignored

\* XPENDING: from its earliest pending entry, or from its last read.
Require(p, g) ==
    /\ Judged(p, g) /\ ~Stale(seen[p][g])
    /\ \E r \in pend[g] \cup {seen[p][g]} :
          /\ \A m \in pend[g] \cup {seen[p][g]} : r <= m
          /\ required' = [required EXCEPT ![p] = @ \cup {r}]
    /\ UNCHANGED ignored

Answered(p) == step[p] = "judge" /\ left[p] = {}

\* XTRIM MINID, exact: everything below the earliest id required.
TrimBelowRequired(p) ==
    /\ Answered(p) /\ required[p] # {}
    /\ entries' = {m \in entries : \E r \in required[p] : r <= m}
    /\ Return(p)
    /\ UNCHANGED <<now, newest, stamp, groupVars, tidy>>

\* XTRIM MAXLEN ~: nobody reads; whole nodes go, so more than MaxLen may stay.
TrimToLength(p) ==
    /\ Answered(p) /\ required[p] = {}
    /\ \E cut \in 0..newest :
          /\ entries' = {m \in entries : m > cut}
          /\ Cardinality(entries') >= MaxLen \/ cut = 0
    /\ Return(p)
    /\ UNCHANGED <<now, newest, stamp, groupVars, tidy>>

\* A call fails for good, or the process dies: what was appended stays.
Abort(p) ==
    /\ step[p] # "idle"
    /\ Return(p) /\ tidy' = [tidy EXCEPT ![p] = FALSE]
    /\ UNCHANGED <<now, streamVars, groupVars>>

Tick ==
    /\ now < MaxTime /\ now' = now + 1
    /\ UNCHANGED <<streamVars, groupVars, step, lookVars, mine, tidy>>

-----------------------------------------------------------------------------
Publish(p) ==
    \/ Append(p) \/ CheckLength(p) \/ Look(p) \/ GiveUp(p)
    \/ \E g \in Groups : Ignore(p, g) \/ Require(p, g)
    \/ TrimBelowRequired(p) \/ TrimToLength(p) \/ Abort(p)

Consume(g) == CreateGroup(g) \/ Deliver(g) \/ \E m \in Ids : Settle(g, m)

Next ==
    \/ Tick
    \/ \E p \in Publishers : Publish(p)
    \/ \E g \in Groups : Consume(g)

Spec == Init /\ [][Next]_vars

-----------------------------------------------------------------------------
\* Every variable keeps its type.
TypeOK ==
    /\ now \in 0..MaxTime /\ newest \in 0..NumEntries
    /\ stamp \in [Ids -> 0..MaxTime] /\ entries \subseteq 1..newest
    /\ groups \subseteq Groups /\ last \in [Groups -> 0..newest]
    /\ pend \in [Groups -> SUBSET (1..newest)]
    /\ step \in [Publishers -> Steps]
    /\ looked \in [Publishers -> SUBSET Groups]
    /\ seen \in [Publishers -> [Groups -> 0..newest]]
    /\ left \in [Publishers -> SUBSET Groups]
    /\ required \in [Publishers -> SUBSET (1..newest)]
    /\ ignored \in [Publishers -> SUBSET Groups]
    /\ mine \in [Publishers -> 0..newest] /\ tidy \in [Publishers -> BOOLEAN]

\* Trimming removes nothing a group still has to read or acknowledge, unless the
\* group was taken for dead or came into being after the publisher had looked,
\* whatever others append, trim, read and acknowledge in the meantime
\* (_trim_stream_without_losing_unconsumed_entries).
NeededKept ==
    [][\A p \in Publishers, g \in Groups :
          Answered(p) /\ step'[p] = "idle" /\ g \in looked[p] \ ignored[p]
             => \A m \in entries \ entries' : ~Needs(g, m)]_vars

\* A group nobody reads any more does not hold the stream: when every other group
\* keeps up as a publish starts, the exact trim at its end leaves at most MaxLen
\* older entries and the one last read.
DeadGroupsDoNotHold ==
    [][\A p \in Publishers :
          Answered(p) /\ step'[p] = "idle" /\ required[p] # {} /\ tidy'[p]
             => Cardinality({m \in entries' : m < mine[p]}) <= MaxLen + 1]_vars

\* "A consumer that is behind but still advancing must not have its unread entries
\* deleted": what is trimmed unread is at least as old as the limit that declares
\* a group dead.
FreshEntriesKept ==
    [][\A p \in Publishers, g \in Groups :
          Answered(p) /\ step'[p] = "idle" /\ g \in looked[p]
             => \A m \in entries \ entries' : m > last[g] => stamp[m] + StaleAfter < now]_vars
=============================================================================
