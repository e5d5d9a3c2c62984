------------------------------ MODULE SetupRun ------------------------------
(***************************************************************************)
(* One run of the installer (src/setup/auto.ts on src/setup/lib/runner.ts  *)
(* and src/setup/logs.ts): the order of its steps, what it remembers of    *)
(* them, and what becomes of a step that fails.  A run is a driver process *)
(* that may be replaced by a child: after a fix, or under `sg docker`.     *)
(* What the steps do to the machine is in SetupSteps and ChannelSetup.     *)
(***************************************************************************)
EXTENDS Naturals, FiniteSets, Sequences, Functions

CONSTANTS
  Channels,   \* messaging apps the operator may connect
  NoChannel,  \* "Skip for now", and no choice yet
  MaxApps,    \* apps one operator sets up in a behaviour
  MaxFaults   \* failures of the environment, or of the operator, in a behaviour

AllChannels == {"telegram", "discord", "whatsapp", "signal", "slack", "teams",
                "imessage"}

ASSUME ChannelsAssumption == Channels \subseteq AllChannels /\ NoChannel \notin AllChannels
ASSUME BoundsAssumption == MaxApps \in Nat /\ MaxFaults \in Nat

VARIABLES
  inst,    \* the machine: what is installed, stored, running and wired
  run,     \* the driver process
  faults   \* failures so far

vars == <<inst, run, faults>>

Order == <<"environment", "container", "onecli", "auth", "mounts", "service",
           "cli-agent", "first-chat", "timezone", "timezone-save", "channel",
           "verify">>

(***************************************************************************)
(* The flow of each channel, by the names its steps are logged under.      *)
(***************************************************************************)
TelegramFlow == <<"telegram-token", "telegram-validate", "telegram-install",
                  "pair-telegram", "init-first-agent">>
DiscordFlow  == <<"discord-token", "discord-validate", "discord-app-info",
                  "discord-invite", "discord-install", "discord-open-dm",
                  "init-first-agent">>
WhatsAppFlow == <<"whatsapp-method", "whatsapp-install", "whatsapp-auth",
                  "whatsapp-restart", "init-first-agent">>
SignalFlow   == <<"signal-cli", "signal-install", "signal-auth",
                  "signal-restart", "init-first-agent">>
SlackFlow    == <<"slack-app", "slack-validate", "slack-install">>
TeamsFlow    == <<"teams-azure", "teams-bot", "teams-manifest",
                  "teams-sideload", "teams-install", "teams-finish">>
IMessageFlow == <<"imessage-mode", "imessage-install", "init-first-agent">>

Flow == [c \in AllChannels |->
  CASE c = "telegram" -> TelegramFlow [] c = "discord" -> DiscordFlow
    [] c = "whatsapp" -> WhatsAppFlow [] c = "signal" -> SignalFlow
    [] c = "slack" -> SlackFlow       [] c = "teams" -> TeamsFlow
    [] c = "imessage" -> IMessageFlow]

DriverSteps == Range(Order)
StepNames == DriverSteps \union UNION {Range(Flow[c]) : c \in AllChannels}

\* NANOCLAW_SKIP: the first chat belongs to the cli-agent step, and saving an
\* answered zone to the timezone step.
Skipped(s, skip) ==
  \/ s \in skip
  \/ s = "first-chat" /\ "cli-agent" \in skip
  \/ s = "timezone-save" /\ "timezone" \in skip

\* The first step from the i-th on that is not skipped.
FirstFrom(i, skip) ==
  Order[CHOOSE j \in i..Len(Order) :
          /\ ~Skipped(Order[j], skip)
          /\ \A k \in i..(j - 1) : Skipped(Order[k], skip)]

Position(seq, s) == CHOOSE i \in DOMAIN seq : seq[i] = s

\* The step after s: the next one of the channel's flow, or of the driver.
Following(s) ==
  IF run.choice # NoChannel
  THEN LET flow == Flow[run.choice]
           i == IF s = "channel" THEN 0 ELSE Position(flow, s)
       IN  IF i < Len(flow) THEN flow[i + 1] ELSE "verify"
  ELSE FirstFrom(Position(Order, s) + 1, run.skip)

Fresh(skip, sg) ==
  [step |-> FirstFrom(1, skip), phase |-> "running", skip |-> skip, done |-> {},
   choice |-> NoChannel, sg |-> sg, owed |-> FALSE, loose |-> FALSE,
   said |-> "nothing"]

Runs(s) == run.phase = "running" /\ run.step = s

\* Step s is over without an error; setupLog.step keeps its name when its
\* status is success or skipped.
Leaves(s) == run' = [run EXCEPT !.step = Following(s)]
Passes(s) == run' = [run EXCEPT !.step = Following(s), !.done = @ \union {s}]

\* The process ends after it has told the operator what.
Says(what) == run' = [run EXCEPT !.phase = "ended", !.said = what]

\* fail() of a step whose failed entry is logged as if the step had completed.
FailsRecorded == run' = [run EXCEPT !.phase = "failing", !.done = @ \union {run.step}]

\* fail(), awaited: nothing else happens until the operator has answered.
Fails == run' = [run EXCEPT !.phase = "failing"]

\* fail() without an await: the flow goes on beside the pending question.
FailsLoose(s) == run' = [run EXCEPT !.step = Following(s), !.loose = TRUE]

Fault == faults < MaxFaults /\ faults' = faults + 1

-----------------------------------------------------------------------------
Waiting == run.phase = "failing" \/ (run.phase = "running" /\ run.loose)

\* No fix, or no wish to retry.
Abort == Waiting /\ Says("aborted") /\ UNCHANGED <<inst, faults>>

\* A fix was applied: a child process skips what this one has completed and
\* was told to skip.
Retry ==
  /\ Waiting
  /\ run' = [Fresh(run.skip \union run.done, run.sg) EXCEPT !.owed = run.owed]
  /\ UNCHANGED <<inst, faults>>

\* The operator starts over.
Rerun ==
  /\ run.phase = "ended" /\ run.said \notin {"set", "ready"}
  /\ run' = Fresh({}, FALSE)
  /\ UNCHANGED <<inst, faults>>
=============================================================================
