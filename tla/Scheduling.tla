----------------------------- MODULE Scheduling -----------------------------
(***************************************************************************)
(* Scheduled tasks of one session.  The agent schedules, cancels, pauses,  *)
(* resumes and updates tasks by writing system rows to outbound.db, which  *)
(* the host's delivery applies to inbound.db, at least once and in order   *)
(* except for the ones it has to retry.  A recurring task is a series of   *)
(* task rows: when the sweep has synced the end of an occurrence it inserts *)
(* the next one and takes the recurrence away from the finished row.       *)
(*                                                                         *)
(* Delivery and sweep are two chains of one process and interleave at the  *)
(* sweep's awaits; the container is another process.  Cron times, tries    *)
(* and backoff are abstract: a pending row may be taken up at any moment,  *)
(* and a row left claimed by a dead container may be given up.             *)
(***************************************************************************)
EXTENDS Naturals, FiniteSets

CONSTANTS
    Rows,          \* task rows; their order is that of messages_in.seq
    Series,        \* series ids: the row ids schedule_task may choose
    NoSeries,      \* the series_id of no row
    Commands,      \* indices of the agent's commands, in the order it gives them
    MaxAttempts,   \* MAX_DELIVERY_ATTEMPTS
    MaxFaults      \* bound on crashes and database errors

Recurrences == {"none", "cron", "invalid"}

Orders == [op : {"schedule", "update"}, series : Series, recur : Recurrences]
          \cup [op : {"cancel", "pause", "resume"}, series : Series]

NoOrder == [op |-> "unwritten"]

ASSUME RowsAssumption     == Rows \subseteq Nat /\ IsFiniteSet(Rows)
ASSUME SeriesAssumption   == NoSeries \notin Series
ASSUME CommandsAssumption == Commands \subseteq Nat
ASSUME BoundsAssumption   == MaxAttempts \in Nat \ {0} /\ MaxFaults \in Nat

VARIABLES
    (* inbound.db *)
    series,      \* messages_in.series_id
    status,      \* messages_in.status, "absent" before the row exists
    recur,       \* messages_in.recurrence: NULL, a cron expression, or unparsable
    (* outbound.db *)
    ack,         \* processing_ack.status, "none" when there is no row
    order,       \* the system rows of the agent
    outcome,     \* the delivered table: "open", "delivered" or "failed"
    (* the container process *)
    alive,       \* it runs
    seen,        \* rows its poll has read and not yet claimed
    (* the host process *)
    drain,       \* commands the running drain has yet to apply
    attempts,    \* deliveryAttempts
    sweep,       \* where the sweep stands in this session
    todo,        \* finished recurring rows the sweep has read
    (* history *)
    ended,       \* series ended by a cancel or an update that found them
    stopped,     \* series a cancel has found with nothing but live rows
    pausing,     \* whether a pause is in force, and how it came about
    faults       \* faults so far

rowVars  == <<series, status, recur>>
outVars  == <<order, outcome>>
runVars  == <<ack, alive, seen>>
hostVars == <<drain, attempts, sweep, todo>>
pastVars == <<ended, stopped, pausing>>
vars     == <<rowVars, outVars, runVars, hostVars, pastVars, faults>>

TypeOK ==
    /\ series \in [Rows -> Series \cup {NoSeries}]
    /\ status \in [Rows -> {"absent", "pending", "paused", "completed", "failed"}]
    /\ recur \in [Rows -> Recurrences]
    /\ ack \in [Rows -> {"none", "processing", "completed"}]
    /\ order \in [Commands -> Orders \cup {NoOrder}]
    /\ outcome \in [Commands -> {"open", "delivered", "failed"}]
    /\ alive \in BOOLEAN
    /\ seen \in SUBSET Rows
    /\ drain \in SUBSET Commands
    /\ attempts \in [Commands -> 0 .. MaxAttempts - 1]
    /\ sweep \in {"idle", "synced", "reset", "recurring"}
    /\ todo \in SUBSET Rows
    /\ ended \in SUBSET Series
    /\ stopped \in SUBSET Series
    /\ pausing \in [Series -> {"no", "late", "held"}]
    /\ faults \in 0..MaxFaults

Init ==
    /\ series = [r \in Rows |-> NoSeries]
    /\ status = [r \in Rows |-> "absent"]
    /\ recur = [r \in Rows |-> "none"]
    /\ ack = [r \in Rows |-> "none"]
    /\ order = [c \in Commands |-> NoOrder]
    /\ outcome = [c \in Commands |-> "open"]
    /\ alive = TRUE /\ seen = {}
    /\ drain = {} /\ attempts = [c \in Commands |-> 0]
    /\ sweep = "idle" /\ todo = {}
    /\ ended = {} /\ stopped = {} /\ pausing = [s \in Series |-> "no"]
    /\ faults = 0

Fault == faults < MaxFaults /\ faults' = faults + 1

-----------------------------------------------------------------------------
(* Queries over the two databases.                                         *)

RowsOf(s) == {r \in Rows : series[r] = s}

\* What cancel_task, pause_task and update_task reach.
Live(s) == {r \in RowsOf(s) : status[r] \in {"pending", "paused"}}

\* getCompletedRecurring: finished rows that still carry a recurrence.
Finished == {r \in Rows : status[r] = "completed" /\ recur[r] # "none"}

\* The container works on the row, or has and the host does not know yet.
Busy(r) ==
    \/ r \in seen \/ ack[r] = "processing"
    \/ ack[r] = "completed" /\ status[r] # "completed"

IsNextRow(r) ==
    /\ status[r] = "absent"
    /\ \A n \in Rows : n < r => status[n] # "absent"

\* The capacity of the model (the code never deletes a row): a recurrence leaves
\* room for the series still to be scheduled.
Room == Cardinality({r \in Rows : status[r] = "absent"})
            > Cardinality({s \in Series : RowsOf(s) = {}})

\* The next element of a list read once and worked through in order.
IsNextOf(x, list) == x \in list /\ \A y \in list : x <= y

Mark(table, S, value) == [r \in Rows |-> IF r \in S THEN value ELSE table[r]]

-----------------------------------------------------------------------------
(* The agent container.                                                    *)

\* The agent's next command; it names a series it has scheduled itself.
Command(c, o) ==
    /\ alive
    /\ order[c] = NoOrder
    /\ \A d \in Commands : d < c => order[d] # NoOrder
    /\ LET scheduled == {order[d].series : d \in {e \in Commands :
                                                    order[e].op = "schedule"}}
       IN (o.op = "schedule") <=> (o.series \notin scheduled)
    /\ order' = [order EXCEPT ![c] = o]
    /\ UNCHANGED <<rowVars, outcome, runVars, hostVars, pastVars, faults>>

\* The poll reads the due rows without an acknowledgement ...
Read ==
    /\ alive /\ seen = {}
    /\ \E S \in SUBSET {r \in Rows : status[r] = "pending" /\ ack[r] = "none"} :
          S # {} /\ seen' = S
    /\ UNCHANGED <<rowVars, outVars, ack, alive, hostVars, pastVars, faults>>

\* ... and claims them.
Claim ==
    /\ seen # {}
    /\ ack' = Mark(ack, seen, "processing")
    /\ seen' = {}
    /\ UNCHANGED <<rowVars, outVars, alive, hostVars, pastVars, faults>>

Complete(r) ==
    /\ alive
    /\ ack[r] = "processing"
    /\ ack' = [ack EXCEPT ![r] = "completed"]
    /\ UNCHANGED <<rowVars, outVars, alive, seen, hostVars, pastVars, faults>>

ContainerDies ==
    /\ alive
    /\ Fault
    /\ alive' = FALSE /\ seen' = {}
    /\ UNCHANGED <<rowVars, outVars, ack, hostVars, pastVars>>

\* A new container clears the claims of its predecessor.
ContainerBoots ==
    /\ ~alive
    /\ alive' = TRUE
    /\ ack' = Mark(ack, {r \in Rows : ack[r] = "processing"}, "none")
    /\ UNCHANGED <<rowVars, outVars, seen, hostVars, pastVars, faults>>

-----------------------------------------------------------------------------
(* Delivery: the action handlers.                                          *)

\* insertTask: the id of the first row is the series id, so that a replayed
\* schedule_task violates the primary key.
Schedule(o) ==
    \E r \in Rows :
        /\ IsNextRow(r)
        /\ RowsOf(o.series) = {}
        /\ series' = [series EXCEPT ![r] = o.series]
        /\ status' = [status EXCEPT ![r] = "pending"]
        /\ recur' = [recur EXCEPT ![r] = o.recur]
        /\ ended' = IF o.recur = "cron" THEN ended ELSE ended \cup {o.series}
        /\ UNCHANGED <<stopped, pausing>>

\* Mutation: the recurrence stays on the cancelled row.
CancelKeepsRecurrence(o) ==
    /\ status' = Mark(status, Live(o.series), "completed")
    /\ IF Live(o.series) # {}
       THEN ended' = ended \cup {o.series}
            /\ stopped' = stopped \cup
                  (IF RowsOf(o.series) \cap Finished = {} THEN {o.series} ELSE {})
       ELSE UNCHANGED <<ended, stopped>>
    /\ UNCHANGED <<series, recur, pausing>>

Cancel(o) ==
    /\ status' = Mark(status, Live(o.series), "completed")
    /\ recur' = Mark(recur, Live(o.series), "none")
    /\ IF Live(o.series) # {}
       THEN ended' = ended \cup {o.series}
            /\ stopped' = stopped \cup
                  (IF RowsOf(o.series) \cap Finished = {} THEN {o.series} ELSE {})
       ELSE UNCHANGED <<ended, stopped>>
    /\ UNCHANGED <<series, pausing>>

\* A pause is late when an occurrence is in the container's hands, or finished
\* without its successor.
Pause(o) ==
    LET rows  == {r \in Live(o.series) : status[r] = "pending"}
        late  == \/ RowsOf(o.series) \cap Finished # {}
                 \/ \E r \in RowsOf(o.series) : Busy(r)
    IN  /\ status' = Mark(status, rows, "paused")
        /\ pausing' = IF rows = {} THEN pausing
                      ELSE [pausing EXCEPT ![o.series] = IF late THEN "late" ELSE "held"]
        /\ UNCHANGED <<series, recur, ended, stopped>>

Resume(o) ==
    /\ status' = Mark(status, {r \in RowsOf(o.series) : status[r] = "paused"}, "pending")
    /\ pausing' = [pausing EXCEPT ![o.series] = "no"]
    /\ UNCHANGED <<series, recur, ended, stopped>>

\* updateTask, as far as the recurrence goes: "none" ends the series with the
\* live occurrence.
Update(o) ==
    /\ recur' = Mark(recur, Live(o.series), o.recur)
    /\ ended' = IF Live(o.series) # {} /\ o.recur # "cron" THEN ended \cup {o.series} ELSE ended
    /\ UNCHANGED <<series, status, stopped, pausing>>

Apply(o) ==
    CASE o.op = "schedule" -> Schedule(o)
      [] o.op = "cancel"   -> Cancel(o)
      [] o.op = "pause"    -> Pause(o)
      [] o.op = "resume"   -> Resume(o)
      [] o.op = "update"   -> Update(o)

-----------------------------------------------------------------------------
(* Delivery: the drain of the outbound rows.                               *)

\* The undelivered rows are read once.
DrainStarts ==
    /\ drain = {}
    /\ drain' = {c \in Commands : order[c] # NoOrder /\ outcome[c] = "open"}
    /\ drain' # {}
    /\ UNCHANGED <<rowVars, outVars, runVars, attempts, sweep, todo, pastVars, faults>>

\* The handler of the row's action returns; markDelivered.
Delivers(c) ==
    /\ IsNextOf(c, drain)
    /\ Apply(order[c])
    /\ outcome' = [outcome EXCEPT ![c] = "delivered"]
    /\ attempts' = [attempts EXCEPT ![c] = 0]
    /\ drain' = drain \ {c}
    /\ UNCHANGED <<order, runVars, sweep, todo, faults>>

GivesUp(c) == attempts[c] + 1 >= MaxAttempts

\* Mutation: a failed attempt is not counted.
ThrowsUncounted(c) ==
    /\ IsNextOf(c, drain)
    /\ IF order[c].op = "schedule" /\ RowsOf(order[c].series) # {}
       THEN UNCHANGED faults ELSE Fault
    /\ drain' = drain \ {c}
    /\ UNCHANGED <<rowVars, outVars, runVars, attempts, sweep, todo, pastVars>>

\* The handler throws: a schedule_task is applied a second time, or the database
\* refuses.  The drain goes on with the rows after it.
Throws(c) ==
    /\ IsNextOf(c, drain)
    /\ IF order[c].op = "schedule" /\ RowsOf(order[c].series) # {}
       THEN UNCHANGED faults ELSE Fault
    /\ outcome' = IF GivesUp(c) THEN [outcome EXCEPT ![c] = "failed"] ELSE outcome
    /\ attempts' = [attempts EXCEPT ![c] = IF GivesUp(c) THEN 0 ELSE @ + 1]
    /\ drain' = drain \ {c}
    /\ UNCHANGED <<rowVars, order, runVars, sweep, todo, pastVars>>

\* The memory of the host is lost, and its containers are stopped at startup.
Restarts ==
    /\ alive' = FALSE /\ seen' = {}
    /\ drain' = {} /\ attempts' = [c \in Commands |-> 0]
    /\ sweep' = "idle" /\ todo' = {}

HostRestart ==
    /\ Fault
    /\ Restarts
    /\ UNCHANGED <<rowVars, outVars, ack, pastVars>>

\* The host dies between the handler and markDelivered.
DiesAfterApply(c) ==
    /\ IsNextOf(c, drain)
    /\ Apply(order[c])
    /\ Fault
    /\ Restarts
    /\ UNCHANGED <<outVars, ack>>

-----------------------------------------------------------------------------
(* The sweep of the session.                                               *)

\* syncProcessingAcks, whatever the status of the row; a wake may be awaited.
SweepSync ==
    /\ sweep = "idle"
    /\ status' = Mark(status, {r \in Rows : ack[r] = "completed"}, "completed")
    /\ sweep' = "synced"
    /\ UNCHANGED <<series, recur, outVars, runVars, drain, attempts, todo, pastVars, faults>>

\* resetStuckProcessingRows, when no container runs: any leftover claim of a
\* pending row may be the one that has used up its tries.
SweepReset ==
    /\ sweep = "synced"
    /\ \E given \in SUBSET {r \in Rows : ack[r] = "processing" /\ status[r] = "pending"} :
          /\ given # {} => ~alive
          /\ status' = Mark(status, given, "failed")
    /\ sweep' = "reset"
    /\ UNCHANGED <<series, recur, outVars, runVars, drain, attempts, todo, pastVars, faults>>

\* handleRecurrence: the finished rows are read once, before all its awaits.
SweepList ==
    /\ sweep = "reset"
    /\ sweep' = "recurring"
    /\ todo' = Finished
    /\ UNCHANGED <<rowVars, outVars, runVars, drain, attempts, pastVars, faults>>

\* insertRecurrence.
InsertNext(r) ==
    \E n \in Rows :
        /\ IsNextRow(n) /\ Room
        /\ series' = [series EXCEPT ![n] = series[r]]
        /\ status' = [status EXCEPT ![n] = "pending"]
        /\ recur' = [recur EXCEPT ![n] = recur[r]]

\* Mutation: the finished row keeps its recurrence.
RecurKeeps(r) == IF recur[r] = "cron" THEN InsertNext(r) ELSE UNCHANGED rowVars

\* The next occurrence is inserted and the finished row loses its recurrence; an
\* unparsable expression is logged and left for the next sweep.
Recur(r) ==
    IF recur[r] = "cron"
    THEN \E n \in Rows :
            /\ IsNextRow(n) /\ Room
            /\ series' = [series EXCEPT ![n] = series[r]]
            /\ status' = [status EXCEPT ![n] = "pending"]
            /\ recur' = [recur EXCEPT ![n] = recur[r], ![r] = "none"]
    ELSE UNCHANGED rowVars

\* Mutation: an unparsable expression ends the loop.
SweepRecurAborts(r) ==
    /\ sweep = "recurring"
    /\ IsNextOf(r, todo)
    /\ Recur(r)
    /\ todo' = IF recur[r] = "cron" THEN todo \ {r} ELSE {}
    /\ UNCHANGED <<outVars, runVars, drain, attempts, sweep, pastVars, faults>>

SweepRecur(r) ==
    /\ sweep = "recurring"
    /\ IsNextOf(r, todo)
    /\ Recur(r)
    /\ todo' = todo \ {r}
    /\ UNCHANGED <<outVars, runVars, drain, attempts, sweep, pastVars, faults>>

\* Mutation: the recurrence is cleared before the next row is inserted.
SweepRecurHalfCleared(r) ==
    /\ sweep = "recurring"
    /\ IsNextOf(r, todo) /\ recur[r] = "cron"
    /\ Fault
    /\ recur' = [recur EXCEPT ![r] = "none"]
    /\ todo' = todo \ {r}
    /\ UNCHANGED <<series, status, outVars, runVars, drain, attempts, sweep, pastVars>>

\* insertRecurrence succeeds and clearRecurrence does not: the database refuses,
\* or the host dies in between.
SweepRecurHalf(r) ==
    /\ sweep = "recurring"
    /\ IsNextOf(r, todo) /\ recur[r] = "cron"
    /\ Fault
    /\ InsertNext(r)
    /\ \/ Restarts
       \/ todo' = todo \ {r} /\ UNCHANGED <<alive, seen, drain, attempts, sweep>>
    /\ UNCHANGED <<outVars, ack, pastVars>>

SweepEnds ==
    /\ sweep = "recurring"
    /\ todo = {} \/ ~Room
    /\ sweep' = "idle" /\ todo' = {}
    /\ UNCHANGED <<rowVars, outVars, runVars, drain, attempts, pastVars, faults>>

-----------------------------------------------------------------------------
ContainerStep ==
    \/ \E c \in Commands, o \in Orders : Command(c, o)
    \/ Read \/ Claim \/ (\E r \in Rows : Complete(r))
    \/ ContainerDies \/ ContainerBoots

DeliveryStep == DrainStarts \/ \E c \in Commands : Delivers(c) \/ Throws(c)

SweepStep ==
    \/ SweepSync \/ SweepReset \/ SweepList \/ SweepEnds
    \/ \E r \in Rows : SweepRecur(r)

HostFault ==
    \/ HostRestart
    \/ \E c \in Commands : DiesAfterApply(c)
    \/ \E r \in Rows : SweepRecurHalf(r)

Next == ContainerStep \/ DeliveryStep \/ SweepStep \/ HostFault

Spec == Init /\ [][Next]_vars

\* The two timer chains of the host go on; a container is woken for what is due.
FairSpec ==
    /\ Spec
    /\ WF_vars(DeliveryStep) /\ WF_vars(SweepStep)
    /\ WF_vars(ContainerBoots) /\ WF_vars(Read) /\ WF_vars(Claim)
    /\ \A r \in Rows : WF_vars(Complete(r))

-----------------------------------------------------------------------------
(* Properties.                                                             *)

\* The rows through which a series goes on.
Open(s) == Live(s) \cup (RowsOf(s) \cap Finished)

\* A series has one occurrence that is live or waits for its successor ("one row
\* per series - the live occurrence"), and one more for every time the
\* insertion of a successor was cut off from the clearing of the recurrence.
SeriesForksOnlyByFault == \A s \in Series : Cardinality(Open(s)) <= 1 + faults

\* A recurring series goes on through crashes, replays and every interleaving of
\* commands with the sweep, until a command ends it or an occurrence fails.
NoSeriesIsLost ==
    \A s \in Series :
        \/ RowsOf(s) = {} \/ s \in ended
        \/ Open(s) # {}
        \/ \E r \in RowsOf(s) : status[r] = "failed"

\* A cancel that finds the series between no two occurrences is final: neither a
\* replayed command nor the acknowledgement of a running occurrence revives it.
CancelIsFinal == \A s \in stopped : Open(s) = {}

\* A pause that finds no occurrence at work holds until the series is resumed.
PauseHolds ==
    \A s \in Series : pausing[s] = "held" =>
        \A r \in RowsOf(s) : r \notin seen /\ ack[r] # "processing"

\* What the agent has stopped stays stopped.
StoppedStaysStopped == CancelIsFinal /\ PauseHolds

\* Every command is applied or given up.
CommandsSettle ==
    \A c \in Commands : (order[c] # NoOrder) ~> (outcome[c] # "open")

\* A finished occurrence is followed by the next one.
OccurrencesAreFollowed ==
    \A r \in Rows :
        (status[r] = "completed" /\ recur[r] = "cron") ~> (recur[r] # "cron" \/ ~Room)

=============================================================================
