-------------------------- MODULE SessionLifecycle --------------------------
(***************************************************************************)
(* One session of the host: its messages_in rows (inbound.db, written by   *)
(* the host only), its processing_ack rows (outbound.db, written by the    *)
(* container only), its heartbeat file, and the three parties that work on *)
(* them: the host's event loop (router, wake, close events), the host's    *)
(* 60-second sweep, and the agent container's poll loop.                   *)
(*                                                                         *)
(* The host is single threaded: between two awaits of the sweep no other   *)
(* handler of the host runs (HostFree).  The container is another process  *)
(* and interleaves with every step.                                        *)
(*                                                                         *)
(* Time is abstract.  A row is "due" once its process_after has elapsed, a *)
(* claim is "old" once it exceeds the stuck tolerance, the heartbeat is    *)
(* "expired" once it exceeds the absolute ceiling; each of the three may   *)
(* happen at any moment after the event that starts its clock.             *)
(***************************************************************************)
EXTENDS Naturals, Sequences, FiniteSets

CONSTANTS
    Msgs,        \* message ids; their order is the order of messages_in.seq
    Arrivals,    \* the [kind, trigger] pairs messages may arrive with
    MaxTries,    \* MAX_TRIES of the sweep
    Limit,       \* maxMessagesPerPrompt of the container
    MaxFaults    \* bound on crashes, hangs and failed spawns together

Kinds == {"chat", "clear", "task", "system"}

ASSUME MsgsAssumption     == Msgs \subseteq Nat /\ IsFiniteSet(Msgs)
ASSUME ArrivalsAssumption == Arrivals \subseteq [kind : Kinds, trigger : {0, 1}]
ASSUME BoundsAssumption   == MaxTries \in Nat /\ Limit \in Nat /\ MaxFaults \in Nat

VARIABLES
    (* inbound.db *)
    arrival,     \* what each message is (kind and trigger columns)
    status,      \* messages_in.status, "absent" before the row exists
    tries,       \* messages_in.tries
    due,         \* process_after is NULL or has elapsed
    (* outbound.db and the heartbeat file *)
    ack,         \* processing_ack.status, "none" when there is no row
    old,         \* claims older than the stuck tolerance
    signs,       \* claims after which the heartbeat file was touched
    hb,          \* the heartbeat file: absent, recent, or past the ceiling
    (* the host process *)
    up,          \* the host process runs
    active,      \* activeContainers has an entry for the session
    waking,      \* wakePromises has an entry: a spawn is in flight
    sweep,       \* where the sweep stands in this session
    (* the container process *)
    cpc,         \* where its poll loop stands
    batch,       \* processingIds of the iteration
    follow,      \* newIds of the follow-up poll
    prompts,     \* prompts given to the query, not answered by a result yet
    hung,        \* the agent has stopped producing events
    (* history *)
    handed,      \* messages given to the agent, run as a command or gated
    faults       \* faults so far

hostVars == <<up, active, waking, sweep>>
rowVars  == <<status, tries, due>>
ackVars  == <<ack, old, signs, hb>>
runVars  == <<cpc, batch, follow, prompts, hung>>
vars     == <<arrival, rowVars, ackVars, hostVars, runVars, handed, faults>>

Statuses    == {"absent", "pending", "completed", "failed"}
Alive       == {"booting", "idle", "claimed", "scripts", "query", "pushing"}
SweepStages == {"idle", "due", "waking", "check", "kill", "reset"}

RowTypeOK ==
    /\ arrival \in [Msgs -> Arrivals]
    /\ status \in [Msgs -> Statuses]
    /\ tries \in [Msgs -> 0..MaxTries]
    /\ due \in [Msgs -> BOOLEAN]

AckTypeOK ==
    /\ ack \in [Msgs -> {"none", "processing", "completed"}]
    /\ old \in SUBSET Msgs
    /\ signs \in SUBSET Msgs
    /\ hb \in {"absent", "recent", "expired"}

FlagTypeOK ==
    /\ up \in BOOLEAN
    /\ active \in BOOLEAN
    /\ waking \in BOOLEAN
    /\ hung \in BOOLEAN

RunTypeOK ==
    /\ sweep \in SweepStages
    /\ cpc \in Alive \cup {"none", "exited"}
    /\ batch \in SUBSET Msgs
    /\ follow \in SUBSET Msgs
    /\ prompts \in Seq(SUBSET Msgs)

TypeOK ==
    /\ RowTypeOK /\ AckTypeOK /\ FlagTypeOK /\ RunTypeOK
    /\ handed \in SUBSET Msgs
    /\ faults \in 0..MaxFaults

Init ==
    /\ arrival \in [Msgs -> Arrivals]
    /\ status = [m \in Msgs |-> "absent"]
    /\ tries = [m \in Msgs |-> 0]
    /\ due = [m \in Msgs |-> TRUE]
    /\ ack = [m \in Msgs |-> "none"]
    /\ old = {} /\ signs = {} /\ hb = "absent"
    /\ up = TRUE /\ active = FALSE /\ waking = FALSE /\ sweep = "idle"
    /\ cpc = "none" /\ batch = {} /\ follow = {} /\ prompts = <<>> /\ hung = FALSE
    /\ handed = {}
    /\ faults = 0

-----------------------------------------------------------------------------
(* Queries over the two databases.                                         *)

Kind(m)    == arrival[m].kind
Trigger(m) == arrival[m].trigger = 1

\* status = 'pending' and process_after elapsed: what the container reads.
DueRows == {m \in Msgs : status[m] = "pending" /\ due[m]}

\* countDueMessages: what makes the host wake a container.
WakeRows == {m \in DueRows : Trigger(m)}

\* getPendingMessages: the newest Limit due rows, then minus acknowledged ones.
Window  == {m \in DueRows : Cardinality({n \in DueRows : n > m}) < Limit}

\* Mutation: rows are not filtered against processing_ack.
PendingUnfiltered == Window

Pending == {m \in Window : ack[m] = "none"}

\* The poll loop skips MCP responses; the follow-up poll skips /clear as well.
Pollable   == {m \in Pending : Kind(m) # "system"}
Followable == {m \in Pollable : Kind(m) # "clear"}

Claims == {m \in Msgs : ack[m] = "processing"}

\* Marking a set of rows in a table.
Mark(table, S, value) == [m \in Msgs |-> IF m \in S THEN value ELSE table[m]]

Fault == faults < MaxFaults /\ faults' = faults + 1

-----------------------------------------------------------------------------
(* The host's event loop.                                                  *)

HostFree == up /\ sweep \in {"idle", "waking"}

\* Mutation: neither activeContainers nor wakePromises is consulted.
WakeAlways == waking' = TRUE

\* wakeContainer: a no-op when the container runs or its spawn is in flight.
Wake == waking' = (waking \/ ~active)

\* The router (or a task action) inserts the next row; all but scheduled tasks
\* with trigger = 1 wake the container in the same synchronous block.
Insert(m) ==
    /\ HostFree
    /\ \A n \in Msgs : status[n] = "absent" <=> n >= m
    /\ status' = [status EXCEPT ![m] = "pending"]
    /\ due' = [due EXCEPT ![m] = Kind(m) # "task"]
    /\ IF Trigger(m) /\ Kind(m) # "task" THEN Wake ELSE UNCHANGED waking
    /\ UNCHANGED <<arrival, tries, ackVars, up, active, sweep, runVars, handed, faults>>

\* spawnContainer ends: the heartbeat file is removed and the process started.
\* A sweep that awaits the wake goes on in the same turn.
SpawnDone ==
    /\ HostFree
    /\ waking
    /\ waking' = FALSE
    /\ active' = TRUE
    /\ hb' = "absent" /\ signs' = {}
    /\ cpc' = "booting"
    /\ sweep' = IF sweep = "waking" THEN "check" ELSE sweep
    /\ UNCHANGED <<arrival, rowVars, ack, old, up, batch, follow, prompts, hung, handed, faults>>

\* spawnContainer throws: the exception ends the sweep that awaits it.
SpawnFails ==
    /\ HostFree
    /\ waking
    /\ Fault
    /\ waking' = FALSE
    /\ sweep' = "idle"
    /\ UNCHANGED <<arrival, rowVars, ackVars, up, active, runVars, handed>>

\* The child process's 'close' (or 'error') event.
Close ==
    /\ HostFree
    /\ active
    /\ cpc = "exited"
    /\ active' = FALSE
    /\ cpc' = "none"
    /\ UNCHANGED <<arrival, rowVars, ackVars, up, waking, sweep, batch, follow, prompts, hung,
                   handed, faults>>

\* The host process dies; containers go on without it.
HostCrash ==
    /\ up
    /\ Fault
    /\ up' = FALSE /\ active' = FALSE /\ waking' = FALSE /\ sweep' = "idle"
    /\ cpc' = IF cpc = "exited" THEN "none" ELSE cpc
    /\ UNCHANGED <<arrival, rowVars, ackVars, batch, follow, prompts, hung, handed>>

Forget == batch' = {} /\ follow' = {} /\ prompts' = <<>> /\ hung' = FALSE

\* Startup: cleanupOrphans stops this install's containers before anything else.
HostStart ==
    /\ ~up
    /\ up' = TRUE
    /\ cpc' = "none" /\ Forget
    /\ UNCHANGED <<arrival, rowVars, ackVars, active, waking, sweep, handed, faults>>

-----------------------------------------------------------------------------
(* The host's sweep of this session.                                       *)

\* Mutation: the sync takes every acknowledgement for a completed one.
SweepSyncAny ==
    /\ up
    /\ sweep = "idle"
    /\ status' = Mark(status, {m \in Msgs : ack[m] # "none"}, "completed")
    /\ sweep' = "due"
    /\ UNCHANGED <<arrival, tries, due, ackVars, up, active, waking, runVars, handed, faults>>

\* syncProcessingAcks: completed acknowledgements reach messages_in.
SweepSync ==
    /\ up
    /\ sweep = "idle"
    /\ status' = Mark(status, {m \in Msgs : ack[m] = "completed"}, "completed")
    /\ sweep' = "due"
    /\ UNCHANGED <<arrival, tries, due, ackVars, up, active, waking, runVars, handed, faults>>

\* Mutation: the sweep leaves waking to the router.
SweepWakeNever ==
    /\ sweep = "due"
    /\ sweep' = "check"
    /\ UNCHANGED <<arrival, rowVars, ackVars, up, active, waking, runVars, handed, faults>>

\* Due rows and nothing running: await a wake (or join the one in flight).
SweepWake ==
    /\ sweep = "due"
    /\ IF WakeRows # {} /\ ~active
       THEN sweep' = "waking" /\ Wake
       ELSE sweep' = "check" /\ UNCHANGED waking
    /\ UNCHANGED <<arrival, rowVars, ackVars, up, active, runVars, handed, faults>>

\* decideStuckAction: past the ceiling, or a claim with no sign of life since.
StuckClaims == {m \in Claims : m \in old /\ m \notin signs}

\* Mutation: no absolute ceiling.
StuckClaimsOnly == StuckClaims # {}

Stuck == hb = "expired" \/ StuckClaims # {}

\* Mutation: the claims of a stuck container are reset without killing it.
SweepCheckNoKill ==
    /\ sweep = "check"
    /\ sweep' = IF active /\ ~Stuck THEN "idle" ELSE "reset"
    /\ UNCHANGED <<arrival, rowVars, ackVars, up, active, waking, runVars, handed, faults>>

\* Nothing running goes to the cleanup; a stuck container is killed first.
SweepCheck ==
    /\ sweep = "check"
    /\ sweep' = CASE ~active           -> "reset"
                  [] active /\ Stuck   -> "kill"
                  [] active /\ ~Stuck  -> "idle"
    /\ UNCHANGED <<arrival, rowVars, ackVars, up, active, waking, runVars, handed, faults>>

\* killContainer: docker stop returns with the container gone; the entry of
\* activeContainers stays until the close event.
SweepKill ==
    /\ sweep = "kill"
    /\ sweep' = "reset"
    /\ cpc' = "exited" /\ Forget
    /\ UNCHANGED <<arrival, rowVars, ackVars, up, active, waking, handed, faults>>

\* resetStuckProcessingRows: leftover claims of pending rows that are not
\* already scheduled for a retry are rescheduled, or failed after MAX_TRIES.
Leftover  == {m \in Claims : status[m] = "pending" /\ due[m]}

\* Mutation: off by one against MAX_TRIES.
GivenUpLate == {m \in Leftover : tries[m] > MaxTries}

GivenUp   == {m \in Leftover : tries[m] >= MaxTries}
Retriable == Leftover \ GivenUp

SweepReset ==
    /\ sweep = "reset"
    /\ sweep' = "idle"
    /\ status' = Mark(status, GivenUp, "failed")
    /\ tries' = [m \in Msgs |-> IF m \in Retriable THEN tries[m] + 1 ELSE tries[m]]
    /\ due' = Mark(due, Retriable, FALSE)
    /\ UNCHANGED <<arrival, ackVars, up, active, waking, runVars, handed, faults>>

-----------------------------------------------------------------------------
(* Time.                                                                   *)

BackoffElapses(m) ==
    /\ ~due[m]
    /\ due' = [due EXCEPT ![m] = TRUE]
    /\ UNCHANGED <<arrival, status, tries, ackVars, hostVars, runVars, handed, faults>>

ClaimAges(m) ==
    /\ m \in Claims \ old
    /\ old' = old \cup {m}
    /\ UNCHANGED <<arrival, rowVars, ack, signs, hb, hostVars, runVars, handed, faults>>

HeartbeatExpires ==
    /\ hb = "recent"
    /\ hb' = "expired"
    /\ UNCHANGED <<arrival, rowVars, ack, old, signs, hostVars, runVars, handed, faults>>

-----------------------------------------------------------------------------
(* The agent container.                                                    *)

\* markProcessing: a claim starts now, whatever was known of an earlier one.
Claim(S) ==
    /\ ack' = Mark(ack, S, "processing")
    /\ old' = old \ S
    /\ signs' = signs \ S

\* touchHeartbeat: later than every claim on the table at that moment.
Touch(claims) == hb' = "recent" /\ signs' = claims

\* Mutation: the claims of the previous container stay.
BootUncleared ==
    /\ cpc = "booting"
    /\ cpc' = "idle"
    /\ UNCHANGED <<arrival, rowVars, ackVars, hostVars, batch, follow, prompts, hung, handed, faults>>

\* runPollLoop starts: clearStaleProcessingAcks.
Boot ==
    /\ cpc = "booting"
    /\ cpc' = "idle"
    /\ ack' = Mark(ack, Claims, "none")
    /\ old' = {} /\ signs' = {}
    /\ UNCHANGED <<arrival, rowVars, hb, hostVars, batch, follow, prompts, hung, handed, faults>>

\* One iteration: nothing happens unless the batch holds a trigger = 1 row.
Poll ==
    /\ cpc = "idle"
    /\ \E m \in Pollable : Trigger(m)
    /\ Claim(Pollable)
    /\ batch' = Pollable
    /\ cpc' = "claimed"
    /\ UNCHANGED <<arrival, rowVars, hb, hostVars, follow, prompts, hung, handed, faults>>

\* /clear commands are answered and completed at once.
Commands ==
    /\ cpc = "claimed"
    /\ LET cmds == {m \in batch : Kind(m) = "clear"} IN
       /\ ack' = Mark(ack, cmds, "completed")
       /\ batch' = batch \ cmds
       /\ handed' = handed \cup cmds
       /\ cpc' = IF batch = cmds THEN "idle" ELSE "scripts"
    /\ UNCHANGED <<arrival, rowVars, old, signs, hb, hostVars, follow, prompts, hung, faults>>

Tasks == {m \in batch : Kind(m) = "task"}

\* A task script starts or ends and touches the heartbeat.
ScriptRuns ==
    /\ cpc = "scripts"
    /\ Tasks # {}
    /\ Touch(Claims)
    /\ UNCHANGED <<arrival, rowVars, ack, old, hostVars, runVars, handed, faults>>

\* The scripts are done: skipped tasks are completed, the rest starts a query.
StartQuery(skipped) ==
    /\ cpc = "scripts"
    /\ ack' = Mark(ack, skipped, "completed")
    /\ handed' = handed \cup batch
    /\ batch' = batch \ skipped
    /\ IF skipped # {} THEN Touch(Claims) ELSE UNCHANGED <<signs, hb>>
    /\ IF batch = skipped
       THEN cpc' = "idle" /\ UNCHANGED prompts
       ELSE cpc' = "query" /\ prompts' = <<batch \ skipped>>
    /\ UNCHANGED <<arrival, rowVars, old, hostVars, follow, hung, faults>>

\* The 500 ms timer of processQuery: rows that arrived meanwhile are claimed ...
FollowUpClaim ==
    /\ cpc = "query"
    /\ Followable # {}
    /\ Claim(Followable)
    /\ follow' = Followable
    /\ cpc' = "pushing"
    /\ UNCHANGED <<arrival, rowVars, hb, hostVars, batch, prompts, hung, handed, faults>>

\* ... pushed into the open query, and completed without waiting for a result.
FollowUpPush ==
    /\ cpc = "pushing"
    /\ prompts' = Append(prompts, follow)
    /\ handed' = handed \cup follow
    /\ ack' = Mark(ack, follow, "completed")
    /\ follow' = {}
    /\ cpc' = "query"
    /\ UNCHANGED <<arrival, rowVars, old, signs, hb, hostVars, batch, hung, faults>>

\* The agent works on the first open prompt: an init, progress or error event.
Event ==
    /\ cpc = "query" /\ ~hung
    /\ prompts # <<>>
    /\ Touch(Claims)
    /\ UNCHANGED <<arrival, rowVars, ack, old, hostVars, runVars, handed, faults>>

\* A result event answers it and completes the initial batch; the query stays
\* open for follow-ups.
Result ==
    /\ cpc = "query" /\ ~hung
    /\ prompts # <<>>
    /\ prompts' = Tail(prompts)
    /\ Touch(Claims)
    /\ ack' = Mark(ack, batch, "completed")
    /\ UNCHANGED <<arrival, rowVars, old, hostVars, cpc, batch, follow, hung, handed, faults>>

\* The stream closes or throws: an error reply at most, and the batch completed.
QueryEnds ==
    /\ cpc = "query" /\ ~hung
    /\ ack' = Mark(ack, batch, "completed")
    /\ cpc' = "idle" /\ Forget
    /\ UNCHANGED <<arrival, rowVars, old, signs, hb, hostVars, handed, faults>>

\* The agent goes silent with a turn open.
Hang ==
    /\ cpc = "query" /\ ~hung
    /\ prompts # <<>>
    /\ Fault
    /\ hung' = TRUE
    /\ UNCHANGED <<arrival, rowVars, ackVars, hostVars, cpc, batch, follow, prompts, handed>>

\* The container process dies.
Dies ==
    /\ cpc \in Alive
    /\ Fault
    /\ cpc' = IF up THEN "exited" ELSE "none"
    /\ Forget
    /\ UNCHANGED <<arrival, rowVars, ackVars, hostVars, handed>>

-----------------------------------------------------------------------------
HostStep ==
    \/ \E m \in Msgs : Insert(m)
    \/ SpawnDone \/ SpawnFails \/ Close \/ HostCrash \/ HostStart

SweepStep == SweepSync \/ SweepWake \/ SweepCheck \/ SweepKill \/ SweepReset

TimeStep == HeartbeatExpires \/ \E m \in Msgs : BackoffElapses(m) \/ ClaimAges(m)

ContainerStep ==
    \/ Boot \/ Poll \/ Commands \/ ScriptRuns
    \/ \E skipped \in SUBSET Tasks : StartQuery(skipped)
    \/ FollowUpClaim \/ FollowUpPush
    \/ Event \/ Result \/ QueryEnds \/ Hang \/ Dies

Next == HostStep \/ SweepStep \/ TimeStep \/ ContainerStep

Spec == Init /\ [][Next]_vars

-----------------------------------------------------------------------------
(* Fairness.  The container's loop and timers, the host's event loop (a    *)
(* queued event is handled even though sweeps keep starting) and the clock *)
(* go on; an agent that does not hang ends its turn.  Nothing obliges      *)
(* messages to arrive, agents to hang or processes to fail.                *)

ContainerFairness ==
    /\ WF_vars(Boot) /\ WF_vars(Poll) /\ WF_vars(Commands)
    /\ WF_vars(\E skipped \in SUBSET Tasks : StartQuery(skipped))
    /\ WF_vars(FollowUpClaim) /\ WF_vars(FollowUpPush)
    /\ WF_vars(Result)

HostFairness ==
    /\ WF_vars(HostStart)
    /\ SF_vars(SpawnDone) /\ SF_vars(Close)
    /\ WF_vars(SweepStep)

TimeFairness ==
    /\ WF_vars(HeartbeatExpires)
    /\ \A m \in Msgs : WF_vars(BackoffElapses(m)) /\ WF_vars(ClaimAges(m))

FairSpec == Spec /\ ContainerFairness /\ HostFairness /\ TimeFairness

-----------------------------------------------------------------------------
(* Properties.                                                             *)

\* At most one container works on the session: none is being created while an
\* earlier one, known to this host process or orphaned by a crashed one, still
\* exists (wakePromises, activeContainers and cleanupOrphans together).
OneContainer == waking => cpc = "none"

\* Once a container has started its poll loop, every claim on the table is its
\* own: none left by a predecessor can hide a row from its polls.
NoOrphanClaims ==
    cpc \in Alive \ {"booting"} => Claims \subseteq batch \cup follow

\* A row only becomes completed after some container took it up: it reached
\* the agent in a prompt, ran as /clear, or was gated by its own script.
CompletedWasHandedOver == \A m \in Msgs : status[m] = "completed" => m \in handed

\* A row is rescheduled or failed only while no container works on it, so a
\* retry never runs beside the attempt it replaces.
RescheduledOnlyWhenDead ==
    [][\A m \in Msgs :
          (tries'[m] # tries[m] \/ (status'[m] = "failed" /\ status[m] # "failed"))
             => cpc \notin Alive]_vars

\* What the session promises about a message: see MessageContract.
stage == [m \in Msgs |->
            CASE status[m] = "absent" -> "unsent"
              [] status[m] = "failed" -> "dead"
              [] status[m] = "completed" -> "done"
              [] status[m] = "pending" /\ ack[m] = "completed" -> "done"
              [] status[m] = "pending" /\ ack[m] = "processing" -> "taken"
              [] OTHER -> "waiting"]

Contract == INSTANCE MessageContract WITH stage <- stage

\* Rows move through the life of MessageContract and no other: completed and
\* failed are final, and nothing is completed or failed without being claimed.
ImplementsContract == Contract!Spec

\* A row that may wake the agent (an answer to ask_user_question is read by the
\* tool that asked, not by the poll loop).
MayWake(m) == Trigger(m) /\ Kind(m) # "system"

Settled(m) == status[m] \in {"completed", "failed"}

\* A row given up while its claim is still on the table.
AbandonedClaim == \E n \in Claims : status[n] = "failed"

\* Every row that may wake the agent leaves pending, through agent hangs,
\* container and host crashes, failed spawns and backoff, unless some row given
\* up earlier has left its claim behind (see TriggeredRowsLeavePending).
TriggeredRowsSettle ==
    \A m \in Msgs :
        (status[m] = "pending" /\ MayWake(m)) ~> (Settled(m) \/ AbandonedClaim)

\* The same without the exception: what "reset to pending with backoff, existing
\* retry machinery does the rest" promises.
TriggeredRowsLeavePending ==
    \A m \in Msgs : (status[m] = "pending" /\ MayWake(m)) ~> Settled(m)

\* A container whose agent has gone silent with a turn open is replaced, also
\* when only pushed follow-ups (completed already) wait for the answer.
HungContainerIsReplaced == hung ~> ~hung

=============================================================================
