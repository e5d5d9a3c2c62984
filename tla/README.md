# Verification of CodaClaw

TLA+ models of the parts of CodaClaw whose correctness depends on the order in
which things happen, TLC runs that check them on small instances, and TLAPS
proofs that hold for every instance.

## 1. The system

CodaClaw runs AI agents in containers, one container per *session*. One Node
process, the **host**, connects them to chat platforms. Host and container share
two SQLite files per session and a heartbeat file, and nothing else:

| file | written by | tables |
|------|-----------|--------|
| `inbound.db`  | host      | `messages_in` (rows to process), `delivered` (outcomes of outbound rows), `destinations` (a copy) |
| `outbound.db` | container | `messages_out` (replies and requests), `processing_ack` (claims on `messages_in`) |
| `.heartbeat`  | container | its mtime is the container's sign of life |

A central database (`v2.db`) holds what outlives sessions: agent groups, chats, their
wirings, users and roles, pending questions and approvals, destinations.

```
 platforms --adapter--> router --insert, wake--> inbound.db --poll--> agent container
     ^                    |  gates, cards           ^  |                 |
     |                    v                         |  |                 |
     |             central database   host sweep ---+  | sync, recur     | claims, replies,
     |                    ^           (60 s)           |                 | system rows
     +---- delivery polls (1 s, 60 s) <-- outbound.db <-----------------+
 coda plugin --socket--> plugin server (start / deliver / output / stop / health)
 operator --> setup:auto (installs, wires and verifies all of the above)
```

The host is single threaded: a handler is interrupted only where it awaits. The
container is another process and interleaves everywhere; inside it, the poll loop
and the MCP server (a child process of the agent) both write `outbound.db`.

### Inventory

| component | source | state | operations | hard behaviour | correct when |
|---|---|---|---|---|---|
| session lifecycle | `host-sweep.ts`, `container-runner.ts`, `container-runtime.ts`, `db/session-db.ts`, agent-runner `poll-loop.ts`, `db/messages-in.ts`, `db/connection.ts`, `scheduling/task-script.ts` | rows, claims, heartbeat, `activeContainers`, `wakePromises`, loop position | insert, wake, spawn, close, sync, stuck check, kill, reset with backoff; boot, claim, command, script, query, follow-up, result | wake races, orphan claims, hung agents, crashes on either side, retry limits | one container; claims are one's own; no retry beside a live attempt; every row finishes or is given up |
| message numbering | `db/session-db.ts`, agent-runner `db/messages-out.ts`, `plugin-server.ts` | `seq` columns, plugin cursor | insert on either side, output | unlocked reads by three writers | no number names two rows; the cursor skips nothing |
| outbound delivery | `delivery.ts`, bridge in `index.ts` | `delivered`, `deliveryAttempts`, `inflightDeliveries`, poll position | active poll, sweep poll, drain, retry, give up | two polls across awaits, lost answers, restart, hung adapter | no duplicates without a fault; one outcome per row, for good |
| scheduling | `modules/scheduling`, agent-runner `mcp-tools/scheduling.ts` | task rows, series | schedule, cancel, pause, resume, update, recur | two-statement clone, commands against recurrence, replays | one live occurrence per series until a command ends it |
| router, permissions | `router.ts`, `command-gate.ts`, `modules/permissions` | chats, wirings, members, sessions, pending approvals, dropped messages | route, engage, gate, fan out, ask, approve, deny, replay | detached requests, redelivery, partial fan-out, replays | no agent that listens is left out; what was approved arrives; nothing vanishes |
| approvals, questions, self modification | `modules/approvals`, `modules/interactive`, `modules/self-mod`, agent-runner `mcp-tools/interactive.ts`, `self-mod.ts` | pending rows, cards, clicks, waiting calls, `container.json`, image | ask, post, click, answer, time out, approve, reject, build, restart | double click across an edit, crash inside a handler, lost card | decided once; answered or still open; what is announced is there |
| plugin server | `plugin-server.ts` | socket file, listeners, `coda_managed`, `last_coda_sender` | listen, probe, unlink, start, deliver, output, stop | two hosts and one path, repeated requests, crash between two writes | a live listener is reachable; each message arrives once; replies go to the last sender |
| agent to agent | `modules/agent-to-agent`, `group-init.ts`, `db/messaging-groups.ts` | agent groups, destinations, projections, sessions | create agent, send, wire | handlers cut off after any write and replayed, stale projections | an agent that can be written to has its files; an announced agent can answer |
| setup | `setup/auto.ts`, `setup/lib/runner.ts`, `setup/channels`, `setup/*.ts`, `setup/add-*.sh` | the machine; the run's completed and skipped steps | twelve steps, seven channel flows, retry, restart under `sg`, verify | halves of steps, retries in a new process, un-awaited failures | success is true; a retry skips what is done; running it again helps |
| session manager, channels, MCP tools, providers, container configuration, central db | see `PROJECT.json` | | | they appear as state and environment of the modules above | |
| typing, webhook server, SDK state, timezone/config/log, skills | see `PROJECT.json` | | | glue, I/O and recipes | not modelled |

Hazards, each at its line with the properties that cover it, are listed in
`PROJECT.json`.

## 2. Modules

| module | what it is |
|---|---|
| `SessionLifecycle` | one session: host loop, sweep, container poll loop, clock |
| `MessageContract`  | what a session promises about a row: waiting, taken, done or dead, put back |
| `MessageNumbers` | `seq` numbers and the plugin's cursor |
| `Delivery` | the two delivery polls, the platform, the plugin's claim on a session |
| `OutboxContract` | what delivery promises about a row |
| `Scheduling` | series of task rows, the agent's commands on them, delivery and sweep |
| `Routing` | one chat: fan-out, gates, the sender and the registration approval |
| `Cards` | questions and self-modification requests, from the tool call to the click |
| `PluginServer` | the plugin's socket, contended for by hosts, and its session |
| `Agents` | agent groups that create and write to each other |
| `SetupRun`, `SetupSteps`, `ChannelSetup`, `Setup` | the installer: a run and its retries; the driver's steps; the channel flows; all together |
| `MC…` | values for TLC (message kinds, wirings, owners, a symmetry) |
| `…_proofs` | theorems of `SessionLifecycle`, `Delivery`, `Scheduling`, `Routing`, `Cards`, `PluginServer`, `Agents` and `Setup`; each EXTENDS its module. `PluginServer_proofs` also has those of `MessageNumbers`, whose variables are its own |

### How they compose

`SessionLifecycle` implements `MessageContract` and `Delivery` implements
`OutboxContract` (both by `INSTANCE … WITH`, checked by TLC and proved); so do the outboxes of `Cards`,
`Scheduling` and `Agents` (proved). The modules about
system rows take the contracts as their environment: in `Scheduling`, `Cards` and
`Agents` a row of the outbox is delivered at least once, in order except for
retries, and at most `MaxAttempts` times, which is what `OutboxContract` and the
attempt counter of `Delivery` allow; a row inserted into an inbox may be taken up, completed
or given up, which is what `MessageContract` allows. In these modules a crash of the host is
followed by its restart at once; `SessionLifecycle` has the time between. `Setup` is composed of three modules
by `EXTENDS`.

### SessionLifecycle

*State.* `status`, `tries`, `due` are columns of `messages_in` (`due` stands for
`process_after` being null or past); `ack` is `processing_ack.status`. `old` and
`signs` abstract the two comparisons `decideStuckAction` makes for a claim: older
than the tolerance, and heartbeat touched after it. `hb` is the heartbeat file.
`active` and `waking` are the session's entries of `activeContainers` and
`wakePromises`; `sweep` and `cpc` are program counters; `batch`, `follow`,
`prompts` are the poll loop's `processingIds`, `newIds` and the turns given to the
query and not answered; `handed` and `faults` are history.

*Granularity.* The host cannot be interrupted between two awaits. The sweep has one
await (`wakeContainer`, stage `waking`), so every other host action requires
`HostFree`; the sweep is nevertheless split into sync, wake, check, kill and reset
because the *container* runs between its database accesses. `killContainer` is
synchronous (`docker stop`), the `close` event comes later and only it removes
the entry of `activeContainers`. In the container, claiming, the scripts, starting the
query, and the claim and push of a follow-up are separate steps: it may die between
any two.

*Time.* A row becomes due, a claim old, the heartbeat expired at any moment. This
covers every setting of the tolerances, the Bash-tool extension and clock skew,
for the safety properties.

*Faults.* `Dies`, `Hang`, `SpawnFails`, `HostCrash` share the bound `MaxFaults`. A host
crash leaves the container running; `HostStart` (`cleanupOrphans`) stops it.

*Assumed.* `docker stop` ends the container. One session. The provider's stream ends
its turn unless `Hang` happened. `processing_ack` rows of completed messages stay.
Tasks do not recur here (see `Scheduling`).

### MessageNumbers

`writeMessageOut` is three SQL statements, so a writer is at `idle`, `reading` (has
`maxOut`) or `ready` (has `nextSeq`). The host's `insertMessage` reads and inserts in
one turn and is the only writer of its file, so it is one action. `Output(since)` is
the plugin's request with its cursor or with none. `racing` records that two
writers of the container were in `writeMessageOut` together. The specification is called
`NumbersSpec` (and so on) because `PluginServer_proofs` extends it beside `PluginServer`.

### Delivery

A poll is `waiting` for its timer, at the `next` session of its round, `sending` a row,
`accepted` (the platform took it and the adapter's promise is not settled) or `hung`.
`todo` and `stale` are the session rows it read at the start of the round, with
their `coda_managed` flags; `queue` is the list `undelivered`. `Drain` is
everything from the `inflightDeliveries` check to the first await. A row ends with
`Returns` (`markDelivered`) or `Throws` (retry, or `markDeliveryFailed` after
`MaxAttempts`). A restart loses `attempts` and `inflight`. Coda rows always throw in
`deliverMessage`: no messaging group has that channel.

### Scheduling

A row of `messages_in` is `(series, status, recur)`; `order` are the system rows the
agent writes and `outcome` their `delivered` rows. `drain` is the list a running drain
has read, `todo` the list `getCompletedRecurring` has returned; the sweep is split at
the awaits of `sweepSession` and inside `handleRecurrence` at the loop over `todo`, and
`SweepRecurHalf` is the death of the host between `insertRecurrence` and
`clearRecurrence`. The commands touch the rows of a series that are pending or paused.
`ended`, `stopped` and `pausing` are history: which series a command has ended, and whether it
met an occurrence at work. Cron times are abstract: a pending row may be taken up at
any moment. *Not modelled:* the notice an update sends when it matches nothing,
`list_tasks`, the pre-task script (it is in `SessionLifecycle`).

### Routing

One action per turn of the fan-out loop: `Arrive` runs up to the first agent, and each `Turn`
ends at the wake's await: `Deliver` (the agent takes the message, as `Write` has it), `Decline`, or
one of the two that end the whole fan-out: `DeliverThrows` (a denied command, or a message the session has already)
and `WakeThrows` (the message is there and the wake fails). `AskSender` and
`AskChannel` start requests nobody awaits; `SenderRequest` and `ChannelRequest` are their
second halves, after the DM of the approver was opened. An approval replays the message
(`again`, `channel`), and the replay meets the rows the first routing has left.
*Assumed.* A group's adapter is threaded; session modes are `shared` and `per-thread`; the
operator does not wire the chat by hand while a card is open; a crash does not
fall inside an approval handler (it is synchronous up to the replay).

### Cards

`record` is a row of the outbox, `pending` the pending rows in the central database,
`cards` what the platform shows, `clicks` those whose card is being edited (the await
before the click is dispatched), `call` the tool calls that wait. A question's pending row
is keyed by the question and survives a repeated delivery; a request gets a new id each
time. Approval handlers run to their end, the image build included; `DiesInHandler` is a host
that dies before the pending row is deleted. `config` and `image` are `container.json` and
what was built from it. A row whose delivery or handler met a fault is in `hit`, and the
properties say of it only what the code can still promise.

### PluginServer

`startPluginServer` has three awaits: `listen`, the probe and the second `listen`; the
unlink of a stale file comes between the last two. `stopPluginServer` closes and unlinks
a second time when the close has ended. A file at the path is named by the host that
created it; `overlapped` records that a host bound the path while another one was about
to unlink it, the one race the code leaves open. `Deliver` is one action; `DeliverDies` stops it
after the row, with or without the sender. A repeated `deliver` carries the same
message id and hits the primary key of `messages_in`: the plugin is told "internal error" and
nothing else of the handler runs (`Redeliver`).

### Agents

`dests` is `agent_destinations`, `proj` the copy in a session's `inbound.db`, `mail` the
rows other agents and the host have written there. `CreateSteps` is the sequence of the
handler's writes; `CreateUpTo(n)` is its first n, followed by an exception (`CreateAgentThrows`) or the
death of the host (`CreateAgentDies`), and then the row is due again; so is a message whose
sender's row was not marked (`RouteThrows`, `RouteDies`). An agent addresses a row by a name of its
projection (`SendTo`) or, when it answers in plain text, fails, or clears its session, by the
message it answers (`Reply`, whose rows have `NoName`): nothing is looked up then, and the host
may refuse the row (`RouteRefused`), which costs an attempt and no fault.
`WireChat` is an operator who wires a chat while the agent runs: the central table changes,
the projections of the running sessions do not. Names are normalised names;
`FreeName` is the search for the first free suffix. *Assumed:* fewer faults than attempts
(`NothingIsRefused` would otherwise count a row given up for faults alone). Answers to chats and rows without
any address are left out: `Agents` is about rows for agents.

### Setup

`inst` is what is on the machine, `run` the driver process: where it is, what it has logged as
completed, what it was told to skip, which app was chosen. A step is an action, its
failure another, which may leave half of the step's result. `fail()` awaited is
`Fails`: the run waits for the operator, who gives up (`Abort`) or has repaired it and
retries in a new process (`Retry`). Where the code does not await it (WhatsApp, Teams),
`FailsLoose` lets the flow go on. `Prompts` lists where Ctrl-C ends the run.
A `Service` step that succeeds may have left the looping peer where it was, which counts as a fault.
*Abstracted:* what the operator repairs between two attempts is that the next attempt may succeed;
OneCLI is the URL in `.env`; platform APIs accept or refuse.

## 3. Runs

| run | cfg | what holds |
|---|---|---|
| `lifecycle` | `MCLifecycle` | one container per session; claims belong to the container that runs; nothing is completed unseen; no row is put back beside a live attempt; the rows follow `MessageContract`; rows that may wake the agent leave pending; a silent container is replaced |
| `numbers` | `MCNumbers` | no number names two rows; while the container's writers do not overlap the plugin's cursor loses nothing |
| `delivery_safety` | `MCDeliverySafety` | a session is drained by one poll at a time; a duplicate has a fault behind it; coda rows stay with the plugin |
| `delivery_live` | `MCDeliveryLive` | the rows follow `OutboxContract`; each gets an outcome unless a hung call blocks it |
| `scheduling_safety` | `MCSchedulingSafety` | a series has one live occurrence unless a fault forked it; it is not lost; what was cancelled or paused while it did not run stays so |
| `scheduling_live` | `MCSchedulingLive` | commands get an outcome; a finished occurrence gets its successor |
| `routing` | `MCRoutingSafety` | a fan-out that is not cut off leaves out no agent that listens; what was approved arrives; a card is open only while its question is; nothing addressed to the bot vanishes unless the command gate takes it |
| `cards` | `MCCardsSafety` | a card is decided once; a request is answered or can still be; what was announced as installed stays |
| `plugin_server` | `MCPluginServer` | a live listener is reachable; replies go to the sender of the newest row; what the plugin repeats arrives |
| `agents` | `MCAgents` | names and folders are unique; an agent that can be written to has its files; an announced agent can answer; no row is given up for a stale projection, and an answer only where its author has no way back |
| `setup` | `MCSetup` | success is true; a retry skips what is done; running setup again succeeds unless the machine is `Stuck` |
| `failed_row_starves_the_rest` | `MCLifecycleStuck` | `TriggeredRowsLeavePending` **fails**, see section 5 |

### Bounds

`MaxFaults` is what cuts behaviours everywhere; the proved theorems do without a value for it.

* *Lifecycle.* Two rows: each property relates one row to another (a failed row and
  a due one, a batch and a follow-up, a trigger and its context) or to the container.
  The kinds are a task, an admin command (`/clear`) and context; a task takes every path a
  chat row takes, and may have a script. `MaxTries = 1` reaches retry and give-up. One
  fault, because the liveness properties are checked in the same run and the safety
  properties are proved for any number. `MCLifecycleStuck` needs chat rows only.
* *Numbers.* Two writers, numbers up to 6: losing a row takes one host row and two
  container rows. Deadlock checking is off because the numbers run out.
* *Delivery.* Two sessions (a poll is in one at a time), two rows in one of them so that a
  drain spans awaits, one of those on the coda channel, the code's three attempts; two
  faults let a crash hit the retry of a lost answer. The liveness and refinement run has a row
  per session and one fault.
* *Scheduling.* One series with three commands and room for three rows (an occurrence and
  two successors) for safety; two series, two commands for liveness, so that one series can
  hold up the other. Two attempts per command: one that fails and one that counts.
* *Routing.* Two agents, a plain user, an admin and messages without a sender; two messages of
  six kinds; no wiring and three mixed ones, under each policy; one fault. The chat is a group.
  Messages are finite, so the system may stop.
* *Cards.* A question and two requests (interchangeable, hence `SYMMETRY`; the run has no
  liveness property); a card can be clicked twice because a second click fits in before the
  first one's edit has returned.
* *Plugin server.* Two hosts (more would repeat the race of two), two messages of different senders.
* *Agents.* One name, wanted twice, one chat, three groups, three rows; three attempts, more
  than the two faults.
* *Setup.* All seven channels, two apps per operator, two failures: the second one meets
  the retry or the new run after the first.

`TypeOK` is an invariant of the runs `lifecycle`, `numbers` (as `NumbersTypeOK`), `delivery_safety`, `agents` and
`setup`. In the other modules it is proved (section 4) and not checked by a run of its own.

### Fairness

* *Container*: weak fairness on each step of the poll loop and of its timer, and on
  `Result`: an agent that has not hung ends its turn. `Hang` withdraws it.
* *Host*: weak fairness on the sweep and on start-up; strong fairness on `SpawnDone` and
  `Close`, which are disabled while a sweep is between two of its steps: Node's event loop handles a
  queued event although sweeps keep starting.
* *Time*: a backoff elapses, a claim ages, a silent heartbeat expires.
* *Delivery*: weak fairness on each poll (its timer fires, its adapter calls settle). After
  `Hangs` nothing of that poll is enabled.
* *Scheduling*: weak fairness on the drain, on the sweep, and on a container that boots, takes up a due
  row and completes it.
* *Plugin server*: the service manager restarts the host, its start-up and close callbacks run;
  the plugin repeats a request until it is answered (strong: between two crashes the host
  answers only now and then).
* *Setup*: the driver goes on; the operator runs setup again while it has not succeeded, gives up
  waiting questions at some time, and among the apps chosen chooses again and again one that `verify`
  looks for. `Stuck` names what repeating does not repair.

Nothing makes messages arrive, agents hang, operators click, or processes fail.

## 4. Theorems

TLAPS checks all proofs for every value of the constants that satisfies the
assumptions in the modules (finite sets of natural numbers for message ids, bounds
in `Nat`, `Owner` a function into `Sessions`, channels among those setup offers). Every invariant a run
checks is stated by a theorem. Each `IInv` has been checked with TLC on the
constants of its module's run before its proof, and so have the properties that are stated in the
`_proofs` modules and belong to no run (`OutcomesStay`, `NamesAreForGood`, and the refinements by
`Cards`, with a single request, `Scheduling` and `Agents`). In every module the argument is the same: `Init => IInv`, one
lemma per action or group of actions for `IInv /\ [Next]_vars => IInv'`, and `IInv => Inv`
for each property.

**SessionLifecycle_proofs.** `IInv` adds to `TypeOK`: where a container may exist given `up`,
`active` and `waking` (`OneContainer` is inductive only together with the position of
the sweep: it kills between `check` and `reset`); that claims of a running poll loop are in
`batch` or `follow`; that whatever is acknowledged as completed was handed over; and that
the sweep reaches `reset` only with no live container. From it: `TypeCorrect`,
`OneContainerHolds`, `NoOrphanClaimsHolds`, `CompletedWasHandedOverHolds`,
`RescheduledOnlyWhenDeadHolds`, and `Implementation`: every step is a step of
`MessageContract` or a stutter.

**Delivery_proofs.** A queue holds open rows of one session, that session is in flight, and
no two polls hold rows of the same one; a row the platform took is accounted for by the poll
that is waiting to hear of it, by its outcome, or by a fault. From it `OneDrainPerSessionHolds`,
`QueuedRowsAreOpenHolds`, `DuplicatesOnlyByFaultHolds` and `Implementation` (of
`OutboxContract`). `CodaRowsStayWithPluginHolds` needs a second invariant: the attempts a coda
row has cost, plus the polls that read its session too early and still have it
ahead of them, are at most two; hence its hypothesis `MaxAttempts >= 3`.

**PluginServer_proofs.** `ListenerIsReachable` is not inductive: a host about to unlink the path
could take it from a listener. `UnlinkInv` closes the gap: unless `overlapped`, nobody listens while
such a host exists, because a probe or a close has just shown the path to be nobody's, and a bind
in between is what `overlapped` records. From it `ListenerIsReachableHolds`, for any number of hosts and
crashes. `LastSenderIsNewestHolds` needs only `TypeCorrect`: the message a `deliver` appends is the last one.

**PluginServer_proofs, of `MessageNumbers`.** The server's `output` hands out what the numbers order. Host
numbers are even, container numbers odd, each writer's next number is above what it has read, and, while no
writers raced, above everything inserted. `NumbersNeverClashHolds` holds however the writers interleave;
`SerialWritesKeepTheCursorHolds` says what the cursor needs: writers that do not overlap. The code has two
writing processes in a container and nothing that makes them take turns, so this is what holds while they happen
to, and no more (section 5).

**Scheduling_proofs.** `SeriesForksOnlyByFault` counts the rows of a series that are live or
wait for their successor. It is inductive only if what the sweep has listed (`todo`) is still finished when
its turn comes, after the awaits during which commands have run (`ListInv`): a command reaches pending
and paused rows only. `WorkInv` says that a row that was given up is in no living
container's hands, so it is not acknowledged afterwards and does not recur a second time; `HeldInv` that a
series a pause met at rest has no row due, at work or finished until a resume. From these
`ForksOnlyByFault`, `SeriesGoOn` and `StopsHold`, for any number of series, rows, commands and faults.
`OccurrencesEndOnce` is an action property: a row that is over keeps its outcome, although
`syncProcessingAcks` writes whatever the row's status is; `WorkInv` is why that never hits a row that was given up.
`Implementation`: the rows of the commands are rows of `OutboxContract`. A handler takes the place of
the sending, so `sends` stays 0, and an attempt that marks nothing is a stutter; what carries it is
`OutboxInv`, what a drain has read has no outcome yet.

**Routing_proofs.** Membership, wiring and policy are never taken back, and sessions stay, so
what engaged an agent once engages it again and who was admitted stays admitted: that is why a
replay cannot meet a closed gate. `FanOutIsWhole` is about routings that are over; what carries it is that each agent
that listens either has the message or is still to be visited by every routing under way that was not cut off, although
another agent's turn, a wake that throws or a second routing of the same message comes between. `AskingInv`
and `SenderInv` follow a request through the await in which the approver's DM is opened: it is the only one for its agent and the sender is not a member yet, or
two have overlapped (`overlap` is the history of exactly that race); `ChannelInv` is the same for
the chat. `LossInv` and `ReplayInv` say of a routing under way which agents are still to
come. From these `FanOutWhole`, `ApprovalsReachTheAgent`, `NothingVanishes` and `CardsStayOpen`, for
any agents, users, messages, wirings and policies.

**Cards_proofs.** `DecidedOnce` counts decisions, but what a click uses up is a *showing*. `SendInv`
bounds the showings by one and one more for each fault, `CountInv` says that decisions plus the
showings that can still be decided never exceed them, and `CardInv` that a click on a
pending request finds its buttons still there: the click that edits the card is the one that is dispatched.
`AskInv` and `InstallInv` carry `RequestsAreKept` and `InstalledIsKept` through the handlers:
what is installed is listed in `container.json` first, so every later build has it. `Implementation`:
with `record` as the outcome and `shown` as the number of sends, each step is a step of `OutboxContract` or a
stutter, also where a handler settles its row itself (`NoApprover`).

**Agents_proofs.** The writes of `handleCreateAgent` are an arbitrary prefix of `CreateSteps`, so `World`
holds after each *prefix*, not only after the handler: the files come before the first
destination (`FilesInv`, `NamedChildrenAreWhole`), both destinations before the announcement (`CreatedIsTwoWay`),
and a projection never knows more than the table (`ProjInv`). `TypeCorrect` contains the keys
of the tables; it needs that the search for a free suffix succeeds, which is a pigeonhole
argument over the names that are taken (`SomeNameIsFree`, `FreeNameIsFree`). `NothingRefused` is proved under
`MaxFaults < MaxAttempts`, the hypothesis the run's constants satisfy: otherwise faults alone give a row up. `MailInv`
says that a message's author was allowed to write it, so an answer goes to somebody who can reach its author; `Ledger` counts
attempts against faults for every row but those whose author has no way back; and since a new destination is always of
a new agent, for one, or for a chat (`Kept`), a way back that is missing stays missing: a row that was refused
was not refused by accident.
`Implementation` says of what agents write to each other what it says of commands. `StaleNamesAreTrue`
and the action property `NamesStay` say why an old projection is harmless: a name never
changes its meaning. `ChatsAssumption` says that chats are not agent groups (`target_type`) and are finitely many.

**Setup_proofs.** What a process says at `verify` (`SuccessIsTrue`) and what it skips are about what earlier
processes did, so neither property is inductive. What carries them is that no step takes back
what another left: `DoneInv` says that what a step is for is on the machine once a
process has logged it or was told to skip it, so a retry, a child under `sg` and a step that failed
half way all start from a machine that has what they skip. `MachineOn` says that only adapters in the build,
with credentials, are live, and only in a service that runs. `FlowOn` follows a flow: after its last
restart of the service (`Late`) the chosen adapter is live unless the service is down, and at `verify` its
chat is wired, unless a failure was not awaited (`loose`). The peer is not among the results: the service step passes
without ending it. That is what `verify` finds (`SaidInv`). `RunInv` keeps
a process within its flow, and `timezone-save` behind `timezone`, which is why a zone that is owed is either
being saved or was given up by a retry. From these `TypeCorrect`, `SuccessTold` and `SkipsAreSafe`, for any
channels of the seven, any number of apps, failures and runs.

**Only model-checked.** All liveness properties (`TriggeredRowsSettle`, `SetupSucceeds` and the others that a
run checks under `FairSpec`): TLAPS does not reason about fairness and `ENABLED`. The modules about system rows
implement `OutboxContract` with their outboxes; that their inboxes, which the host also completes when a
task is cancelled, ask no more of a session than `MessageContract` allows is an argument in prose.

## 5. Where code and documentation disagree

**failed_row_starves_the_rest** (a run). `resetStuckProcessingRows` fails a row after
`MAX_TRIES` and leaves its claim in `processing_ack`. If another row is due, each sweep wakes a
container, finds the old claim in the same turn, and kills the container before its
poll loop has cleared the claim. The other row is never processed. `TriggeredRowsSettle`
is the same property with exactly this case excepted, and holds.

Met while modelling, visible in the actions, without a run of their own:

* The sweep applies the claim-stuck rule to the container it has just started
  (`host-sweep.ts:174`), although the comment at 162–167 says the order gives a fresh one
  its chance. A row can use up its tries this way.
* The trigger gate is missing from the follow-up poll (`poll-loop.ts:261`): context rows become
  a prompt, against the comment at 69–76. And the prompt window takes the newest rows before the
  gate looks (`messages-in.ts:61`): newer context can hide the row that woke the container.
* The poll loop and the MCP server can overlap in `writeMessageOut` (`messages-out.ts:51`);
  with a host row between their reads the higher number is read by the plugin first and the
  lower one lands behind its cursor, which `plugin-server.ts:351` rules out.
  `SerialWritesKeepTheCursor` states what does hold.
* A channel whose adapter is not started answers like one that delivered (`index.ts:140`),
  against `delivery.ts:304`.
* A pause that meets a running occurrence is overwritten by its sync (`session-db.ts:155`),
  whatever `mcp-tools/scheduling.ts:189` promises. `StoppedStaysStopped` excepts it.
* A message that was accumulated as context keeps its row; when its sender is approved, the
  replay meets that row's primary key (`router.ts:290`) and the promise of
  `sender-approval.ts:14–16` is not kept. `ApprovedReachesInbox` excepts it.
* An answer after the time limit of `ask_user_question` is a system row nobody reads
  (`interactive.ts:111`).
* `create_agent` refreshes the projection of the requesting session only; `agent-destinations.ts:25–29`
  asks for every affected session.
* The answer to a denied admin command is lost: `writeOutboundDirect` (`session-manager.ts:289`) opens `outbound.db`,
  which `openOutboundDb` (`db/session-db.ts:30`) opens read-only, so the insert throws, `routeInbound` rejects, no
  `dropped_messages` row is written and the agents after are not visited; `command-gate.ts:6–7` promises the answer.
  `NoSilentLoss` covers messages that pass the gate.
* Redelivery does not heal a fan-out that was cut off: the second routing throws at the first agent that has the row
  (`router.ts:425`), before it comes to those that missed the message. `FanOutIsWhole` excepts routings that were cut off.
* A cancel or an update that comes between the sync of an occurrence and the insertion of the next one
  (`host-sweep.ts:159` and `192`) finds neither pending nor paused rows (`modules/scheduling/db.ts:40`) and is lost.
  `StoppedStaysStopped` is about rows at rest.
* An occurrence that is given up (`session-db.ts:129`) ends its series without a word: only completed rows recur
  (`modules/scheduling/db.ts:124`). `NoSeriesIsLost` excepts it.
* A child whose creation was stopped between its two destinations (`create-agent.ts:89` and `104`) stays without `parent`:
  the repeated request answers "you already have a destination" (`create-agent.ts:52`). The creator can write to it; what
  it answers is refused (`agent-route.ts:36`) three times and failed. `NothingIsRefused` says that no other row is.
* A peer install that cannot be unloaded, or looks healthy at the moment it is probed, is only logged
  (`setup/peer-cleanup.ts:94` and `158`): the service step reports success with the peer still
  looping, and a retry skips it. Only a new run of setup tries again; `verify` may still find that nobody answers.
* Setup: an answered time zone is lost when saving it fails and the run is retried; an adapter's import
  is listed before `pnpm install`; `fail()` is not awaited in the WhatsApp and Teams flows;
  `verify` does not count Slack, Signal and remote iMessage; a WhatsApp login may be left
  half linked.
* Outside the models: chunks are sent again when a later one fails (`chat-sdk-bridge.ts:410`); a
  message to an agent goes to its newest session (`agent-route.ts:47`); a package that does
  not build stays listed (`modules/self-mod/apply.ts:27`).

## 6. Not modelled, and the plan

Left out: file and image handling (attachments, mounts, agent instructions), formatting,
platform adapters and the chat SDK, credential approvals through the OneCLI gateway (its SDK is not
in the repository), the agent-shared session mode and unthreaded adapters, `docker stop`
failing, several sessions in one sweep, migrations, the skills and one-shot migration tools, and
those parts of setup that are recipes for other channels. Hazards that live there are listed in
`PROJECT.json` with the reason no property covers them.

Next, in this order:

1. Theorems: a contract of the routing decision that `Routing` implements, and one of a session's inbox with
   cancelled rows that `SessionLifecycle` and `Scheduling` share.
2. `SessionLifecycle` with several sessions in one sweep and its one try/catch, and a history of
   the attempts at a row, to state how many of them a given-up row has had.
