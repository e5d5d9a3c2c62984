------------------------------ MODULE Delivery ------------------------------
(***************************************************************************)
(* Outbound delivery.  Two timer chains of the host, the active poll (1 s, *)
(* sessions whose container runs) and the sweep poll (60 s, all sessions), *)
(* drain messages_out of one session after the other: they read the rows   *)
(* without an entry in the delivered table, hand each to the channel's     *)
(* adapter, and record the outcome.  The two chains interleave wherever    *)
(* one of them awaits an adapter.  The platform takes a message at some    *)
(* moment of that wait, which may end without the host hearing of it.      *)
(***************************************************************************)
EXTENDS Naturals

CONSTANTS
    Sessions,
    Rows,          \* messages_out rows; their order is that of timestamp
    Owner,         \* the session of each row
    CodaRows,      \* the rows on the coda channel
    MaxAttempts,   \* MAX_DELIVERY_ATTEMPTS
    MaxFaults      \* bound on crashes, hangs, lost answers and failed reads

Polls == {"active", "sweep"}

ASSUME RowsAssumption   == Rows \subseteq Nat /\ CodaRows \subseteq Rows
ASSUME OwnerAssumption  == Owner \in [Rows -> Sessions]
ASSUME BoundsAssumption == MaxAttempts \in Nat \ {0} /\ MaxFaults \in Nat

VARIABLES
    written,       \* the rows in messages_out
    record,        \* the delivered table: "none", "delivered" or "failed"
    running,       \* sessions whose container_status is running
    managed,       \* sessions with coda_managed = 1
    channel,       \* the channel's adapter has been started
    attempts,      \* deliveryAttempts, in memory
    inflight,      \* inflightDeliveries, in memory
    pc,            \* where each poll stands
    todo,          \* the sessions a poll still has to drain
    stale,         \* the coda_managed flags the poll has read with them
    queue,         \* the rows of its drain not attempted yet, none between drains
    sends,         \* history: how often the platform took each row
    faults         \* faults so far

dbVars   == <<written, record, running, managed>>
pollVars == <<pc, todo, stale, queue>>
vars == <<dbVars, channel, attempts, inflight, pollVars, sends, faults>>

TypeOK ==
    /\ written \in SUBSET Rows
    /\ record \in [Rows -> {"none", "delivered", "failed"}]
    /\ running \in SUBSET Sessions
    /\ managed \in SUBSET Sessions
    /\ channel \in BOOLEAN
    /\ attempts \in [Rows -> 0 .. MaxAttempts - 1]
    /\ inflight \in SUBSET Sessions
    /\ pc \in [Polls -> {"waiting", "next", "sending", "accepted", "hung"}]
    /\ todo \in [Polls -> SUBSET Sessions]
    /\ stale \in [Polls -> SUBSET Sessions]
    /\ queue \in [Polls -> SUBSET Rows]
    /\ sends \in [Rows -> Nat]
    /\ faults \in 0..MaxFaults

Init ==
    /\ written = {} /\ record = [r \in Rows |-> "none"]
    /\ running = {} /\ managed = {}
    /\ channel \in BOOLEAN
    /\ attempts = [r \in Rows |-> 0]
    /\ inflight = {}
    /\ pc = [p \in Polls |-> "waiting"]
    /\ todo = [p \in Polls |-> {}] /\ stale = [p \in Polls |-> {}]
    /\ queue = [p \in Polls |-> {}]
    /\ sends = [r \in Rows |-> 0]
    /\ faults = 0

Fault == faults < MaxFaults /\ faults' = faults + 1

-----------------------------------------------------------------------------
(* The other parties.                                                      *)

\* The agent container writes its next row; coda rows answer the plugin, which
\* has marked the session before.
Write(r) ==
    /\ Owner[r] \in running
    /\ \A n \in Rows : n < r => n \in written
    /\ r \notin written
    /\ r \in CodaRows => Owner[r] \in managed
    /\ written' = written \cup {r}
    /\ UNCHANGED <<record, running, managed, channel, attempts, inflight, pollVars, sends, faults>>

\* markContainerRunning and markContainerStopped.
ContainerStarts(s) ==
    /\ s \notin running
    /\ running' = running \cup {s}
    /\ UNCHANGED <<written, record, managed, channel, attempts, inflight, pollVars, sends, faults>>

ContainerStops(s) ==
    /\ s \in running
    /\ running' = running \ {s}
    /\ UNCHANGED <<written, record, managed, channel, attempts, inflight, pollVars, sends, faults>>

\* The plugin's start request on a session that other wirings share (the flag
\* matters only where there are coda rows).
PluginStart(s) ==
    /\ s \notin managed /\ \E r \in CodaRows : Owner[r] = s
    /\ managed' = managed \cup {s}
    /\ UNCHANGED <<written, record, running, channel, attempts, inflight, pollVars, sends, faults>>

\* The host is restarted: its memory is lost, both chains start over.  An
\* adapter without credentials, or whose setup fails, is left out.
HostRestart ==
    /\ Fault
    /\ channel' \in BOOLEAN
    /\ attempts' = [r \in Rows |-> 0]
    /\ inflight' = {}
    /\ pc' = [p \in Polls |-> "waiting"]
    /\ todo' = [p \in Polls |-> {}] /\ stale' = [p \in Polls |-> {}]
    /\ queue' = [p \in Polls |-> {}]
    /\ UNCHANGED <<dbVars, sends>>

-----------------------------------------------------------------------------
(* A poll.                                                                 *)

\* pollActive, pollSweep: the session rows are read once for the whole round.
PollStarts(p) ==
    /\ pc[p] = "waiting"
    /\ todo' = [todo EXCEPT ![p] = IF p = "active" THEN running ELSE Sessions]
    /\ stale' = [stale EXCEPT ![p] = managed]
    /\ pc' = [pc EXCEPT ![p] = "next"]
    /\ UNCHANGED <<dbVars, channel, attempts, inflight, queue, sends, faults>>

PollEnds(p) ==
    /\ pc[p] = "next"
    /\ todo[p] = {}
    /\ pc' = [pc EXCEPT ![p] = "waiting"]
    /\ stale' = [stale EXCEPT ![p] = {}]
    /\ UNCHANGED <<dbVars, channel, attempts, inflight, todo, queue, sends, faults>>

\* A session the other poll is draining is skipped.
Skip(p, s) ==
    /\ pc[p] = "next"
    /\ s \in todo[p] \cap inflight
    /\ todo' = [todo EXCEPT ![p] = @ \ {s}]
    /\ UNCHANGED <<dbVars, channel, attempts, inflight, pc, stale, queue, sends, faults>>

\* Mutation: no cursor ownership filter.
OwnedByAnyone(p, s) == {r \in Rows : Owner[r] = s}

\* applyCursorOwnershipFilter, on the flag the poll has read with the session.
OwnedByHost(p, s) ==
    {r \in Rows : Owner[r] = s /\ (s \in stale[p] => r \notin CodaRows)}

\* Mutation: the delivered table is not consulted.
AllWritten(p, s) == written \cap OwnedByHost(p, s)

Undelivered(p, s) == {r \in written \cap OwnedByHost(p, s) : record[r] = "none"}

\* Mutation: inflightDeliveries is not consulted.
DrainUnguarded(p, s) ==
    /\ pc[p] = "next"
    /\ s \in todo[p]
    /\ todo' = [todo EXCEPT ![p] = @ \ {s}]
    /\ IF Undelivered(p, s) = {}
       THEN UNCHANGED <<inflight, pc, queue>>
       ELSE /\ inflight' = inflight \cup {s}
            /\ pc' = [pc EXCEPT ![p] = "sending"]
            /\ queue' = [queue EXCEPT ![p] = Undelivered(p, s)]
    /\ UNCHANGED <<dbVars, channel, attempts, stale, sends, faults>>

\* Mutation: the entry of a session without undelivered rows is not removed.
DrainLeaky(p, s) ==
    /\ pc[p] = "next"
    /\ s \in todo[p] \ inflight
    /\ todo' = [todo EXCEPT ![p] = @ \ {s}]
    /\ inflight' = inflight \cup {s}
    /\ IF Undelivered(p, s) = {}
       THEN UNCHANGED <<pc, queue>>
       ELSE /\ pc' = [pc EXCEPT ![p] = "sending"]
            /\ queue' = [queue EXCEPT ![p] = Undelivered(p, s)]
    /\ UNCHANGED <<dbVars, channel, attempts, stale, sends, faults>>

\* deliverSessionMessages, drainSession up to the first await: the undelivered
\* rows are read once; without any the session is left in the same turn.
Drain(p, s) ==
    /\ pc[p] = "next"
    /\ s \in todo[p] \ inflight
    /\ todo' = [todo EXCEPT ![p] = @ \ {s}]
    /\ IF Undelivered(p, s) = {}
       THEN UNCHANGED <<inflight, pc, queue>>
       ELSE /\ inflight' = inflight \cup {s}
            /\ pc' = [pc EXCEPT ![p] = "sending"]
            /\ queue' = [queue EXCEPT ![p] = Undelivered(p, s)]
    /\ UNCHANGED <<dbVars, channel, attempts, stale, sends, faults>>

\* A database error reading a session ends the round of the poll.
DrainFails(p, s) ==
    /\ pc[p] = "next"
    /\ s \in todo[p] \ inflight
    /\ Fault
    /\ pc' = [pc EXCEPT ![p] = "waiting"]
    /\ todo' = [todo EXCEPT ![p] = {}] /\ stale' = [stale EXCEPT ![p] = {}]
    /\ UNCHANGED <<dbVars, channel, attempts, inflight, queue, sends>>

\* The session the poll drains, if any: that of the rows in its queue.
Draining(p) == {Owner[r] : r \in queue[p]}

\* r is the row the poll is delivering, the oldest left in its queue.
Delivering(p, r) ==
    /\ pc[p] \in {"sending", "accepted"}
    /\ r \in queue[p]
    /\ \A n \in queue[p] : r <= n

\* On to the next row of the drain, or to the next session.
Advance(p, r) ==
    /\ queue' = [queue EXCEPT ![p] = @ \ {r}]
    /\ IF queue[p] = {r}
       THEN pc' = [pc EXCEPT ![p] = "next"] /\ inflight' = inflight \ Draining(p)
       ELSE pc' = [pc EXCEPT ![p] = "sending"] /\ UNCHANGED inflight

\* The platform takes the row.
Accept(p, r) ==
    /\ pc[p] = "sending"
    /\ Delivering(p, r)
    /\ channel /\ r \notin CodaRows
    /\ sends' = [sends EXCEPT ![r] = @ + 1]
    /\ pc' = [pc EXCEPT ![p] = "accepted"]
    /\ UNCHANGED <<dbVars, channel, attempts, inflight, todo, stale, queue, faults>>

\* deliverMessage returns: the adapter has answered, or there is none for the
\* channel.  markDelivered.
Returns(p, r) ==
    /\ Delivering(p, r)
    /\ pc[p] = "accepted" \/ (~channel /\ r \notin CodaRows)
    /\ record' = [record EXCEPT ![r] = "delivered"]
    /\ attempts' = [attempts EXCEPT ![r] = 0]
    /\ Advance(p, r)
    /\ UNCHANGED <<written, running, managed, channel, todo, stale, sends, faults>>

\* Mutation: a row is attempted once more than MAX_DELIVERY_ATTEMPTS.
GivesUpLate(r) == attempts[r] >= MaxAttempts

GivesUp(r) == attempts[r] + 1 >= MaxAttempts

\* deliverMessage throws: the platform refuses, the destination is unknown or
\* not allowed (the coda channel never is), or the answer is lost.
Throws(p, r) ==
    /\ Delivering(p, r)
    /\ IF pc[p] = "accepted" THEN Fault ELSE UNCHANGED faults
    /\ record' = IF GivesUp(r) THEN [record EXCEPT ![r] = "failed"] ELSE record
    /\ attempts' = [attempts EXCEPT ![r] = IF GivesUp(r) THEN 0 ELSE @ + 1]
    /\ Advance(p, r)
    /\ UNCHANGED <<written, running, managed, channel, todo, stale, sends>>

\* The adapter never answers: no timeout bounds the wait.
Hangs(p, r) ==
    /\ pc[p] = "sending"
    /\ Delivering(p, r)
    /\ channel /\ r \notin CodaRows
    /\ Fault
    /\ pc' = [pc EXCEPT ![p] = "hung"]
    /\ UNCHANGED <<dbVars, channel, attempts, inflight, todo, stale, queue, sends>>

-----------------------------------------------------------------------------
PollStep(p) ==
    \/ PollStarts(p) \/ PollEnds(p)
    \/ \E s \in Sessions : Skip(p, s) \/ Drain(p, s)
    \/ \E r \in Rows : Accept(p, r) \/ Returns(p, r) \/ Throws(p, r)

PollFault(p) ==
    \/ \E s \in Sessions : DrainFails(p, s)
    \/ \E r \in Rows : Hangs(p, r)

Environment ==
    \/ \E r \in Rows : Write(r)
    \/ \E s \in Sessions : ContainerStarts(s) \/ ContainerStops(s) \/ PluginStart(s)
    \/ HostRestart

Next == Environment \/ \E p \in Polls : PollStep(p) \/ PollFault(p)

Spec == Init /\ [][Next]_vars

\* The timers fire and adapters answer, except where Hangs says otherwise.
FairSpec == Spec /\ \A p \in Polls : WF_vars(PollStep(p))

-----------------------------------------------------------------------------
(* Properties.                                                             *)

\* The two polls never drain the same session at once, so no row is in the
\* hands of two deliveries ("both call the channel adapter ... the user has
\* already seen the message twice").
OneDrainPerSession ==
    \A p, q \in Polls : p # q => Draining(p) \cap Draining(q) = {}

\* A row in a queue has no outcome yet: the list a drain works through, read
\* before all its awaits, never goes stale.
QueuedRowsAreOpen ==
    \A p \in Polls : \A r \in queue[p] : record[r] = "none"

\* What the users see: see OutboxContract.
outcome == [r \in Rows |-> IF r \in written THEN record[r] ELSE "unwritten"]

Contract == INSTANCE OutboxContract WITH outcome <- outcome, sends <- sends

\* A row with an outcome is never handed to the platform again and keeps its
\* outcome, through crashes and lost answers alike.
ImplementsOutbox == Contract!Spec

\* The platform takes a row more than once only after a crash or a lost answer.
DuplicatesOnlyByFault == \A r \in Rows : sends[r] <= 1 + faults

\* The host settles no coda row: those of a managed session are skipped, and a
\* poll that began before the session was managed fails one attempt at most.
CodaRowsStayWithPlugin == \A r \in CodaRows : record[r] = "none"

\* A hung adapter call keeps r from being delivered: r's own session is being
\* drained by the hung poll, or no other poll would come to it.
Blocked(r) ==
    \/ \E p \in Polls : pc[p] = "hung" /\ Owner[r] \in Draining(p)
    \/ pc["sweep"] = "hung" /\ Owner[r] \notin running
    \/ \A p \in Polls : pc[p] = "hung"

\* Every row gets an outcome, through refusals, crashes and failed reads; one
\* hung call delays its own session and what only the hung poll would visit.
RowsSettleUnlessBlocked ==
    \A r \in Rows \ CodaRows :
        r \in written ~> (record[r] # "none" \/ Blocked(r))

=============================================================================
