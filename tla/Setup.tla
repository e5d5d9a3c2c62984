------------------------------- MODULE Setup --------------------------------
(***************************************************************************)
(* The installer as a whole: the driver's steps (SetupSteps), the channel  *)
(* flows (ChannelSetup) and what a run does about failures (SetupRun), on  *)
(* a machine that is set up from nothing by as many runs as it takes.      *)
(***************************************************************************)
EXTENDS ChannelSetup

\* A prompt left with Ctrl-C ends the run with exit status 0.
Prompts == {"auth", "cli-agent", "first-chat", "timezone", "channel",
            "telegram-token", "discord-token", "discord-invite", "slack-app",
            "imessage-mode", "teams-azure", "teams-bot", "teams-sideload",
            "teams-finish", "whatsapp-method", "init-first-agent"}

Cancel ==
  /\ run.phase = "running" /\ run.step \in Prompts
  /\ Fault /\ Says("cancelled") /\ UNCHANGED inst

TokenChannels == {"telegram", "discord", "slack", "teams"}

Driver ==
  \/ Environment \/ Container \/ Onecli
  \/ AuthKnown \/ AuthSubscription \/ AuthPaste
  \/ Mounts \/ Service \/ CliAgent \/ FirstChat
  \/ Timezone \/ TimezoneSave \/ Verify

DriverFails ==
  \/ ContainerFails \/ OnecliFails \/ AuthFails \/ MountsFails
  \/ ServiceFails \/ CliAgentFails \/ TimezoneFails

Connect ==
  \/ TelegramToken \/ TelegramValidate \/ PairTelegram
  \/ DiscordToken \/ DiscordValidate \/ DiscordAppInfo \/ DiscordInvite \/ DiscordOpenDm
  \/ SlackApp \/ SlackValidate
  \/ IMessageMode \/ IMessageInstall
  \/ TeamsAzure \/ TeamsBot \/ TeamsManifest \/ TeamsSideload \/ TeamsFinish
  \/ WhatsAppMethod \/ WhatsAppInstall \/ WhatsAppAuth \/ WhatsAppRestart
  \/ SignalCli \/ SignalInstall \/ SignalAuth \/ SignalRestart
  \/ \E c \in TokenChannels : InstallToken(c)
  \/ InitFirstAgent

ConnectFails ==
  \/ PairTelegramFails \/ TeamsManifestFails \/ TeamsInstallFails
  \/ WhatsAppInstallFails \/ WhatsAppAuthFails
  \/ SignalInstallFails \/ SignalAuthFails
  \/ \E c \in {"telegram", "discord", "slack", "imessage"} : InstallFails(c) /\ Fails
  \/ InitFirstAgentFails

Next ==
  \/ Driver \/ DriverFails
  \/ \E c \in Channels \union {NoChannel} : ChooseChannel(c)
  \/ Connect \/ ConnectFails
  \/ Abort \/ Retry \/ Rerun \/ Cancel \/ ServiceStops

Spec == Init /\ [][Next]_vars

(***************************************************************************)
(* A run that can go on goes on; the operator answers, gives up on what    *)
(* keeps failing, chooses an app that verify looks for again and again, and*)
(* runs setup again while it has not succeeded.                            *)
(***************************************************************************)
FairSpec ==
  /\ Spec
  /\ WF_vars(Driver \/ DriverFails \/ Connect \/ ConnectFails)
  /\ WF_vars(Rerun) /\ SF_vars(Abort)
  /\ SF_vars(\E c \in Channels \ {"slack", "signal", "imessage"} : ChooseChannel(c))

-----------------------------------------------------------------------------
(***************************************************************************)
(* Types.  Only adapters that are in the build and have credentials are    *)
(* live, and only in a service that runs.                                  *)
(***************************************************************************)
TypeOK ==
  /\ inst \in Machine
  /\ inst.creds \union inst.wired \subseteq Channels
  /\ \A c \in inst.live : inst.adapter[c] = "built" /\ HasAuth(inst, c)
  /\ inst.live # {} => inst.service = "running"
  /\ run.step \in StepNames
  /\ run.phase \in {"running", "failing", "ended"}
  /\ run.skip \union run.done \subseteq StepNames
  /\ run.choice \in Channels \union {NoChannel}
  /\ faults \in 0..MaxFaults

(***************************************************************************)
(* "You're set" (auto.ts) is only said when the assistant has answered,    *)
(* and when it sends the operator to an app, the chat there is wired and   *)
(* its adapter is live: however often the run was retried, unless a fail() *)
(* nobody awaited is still pending (WhatsApp, Teams), the app is Teams,    *)
(* which is not wired at all, or an earlier install of the adapter had     *)
(* stopped half way.                                                       *)
(***************************************************************************)
SuccessIsTrue ==
  /\ run.said \in {"set", "ready"} => Answering
  /\ run.said = "set" /\ ~run.loose /\ run.choice # "teams" =>
       /\ run.choice \in inst.wired
       /\ run.choice \in inst.live \/ inst.adapter[run.choice] # "built"

(***************************************************************************)
(* A retry skips only what is done (fail in runner.ts passes the completed *)
(* steps on): whatever a process was told to skip, its result is on the    *)
(* machine, through retries, restarts under sg and steps that failed half  *)
(* way.  Two results may be missing.  The zone the operator named: when    *)
(* saving it fails, the retry skips the timezone step that had already     *)
(* passed.  And the end of a crash-looping peer: the service step passes   *)
(* without it (cleanupUnhealthyPeers only logs the failure).               *)
(***************************************************************************)
SkippedStepsAreDone ==
  /\ "container" \in run.skip => inst.image
  /\ "onecli" \in run.skip => inst.url
  /\ "auth" \in run.skip => inst.secret # "none"
  /\ "mounts" \in run.skip => inst.rules
  /\ "service" \in run.skip => inst.unit = inst.managed
  /\ "cli-agent" \in run.skip => inst.cli
  /\ "timezone" \in run.skip => inst.zone
  /\ "timezone" \notin run.skip /\ run.said \in {"set", "ready"} => ~run.owed

\* What no number of runs repairs: an adapter listed without its package, a
\* secret that is not valid, a machine without a service manager, half a
\* WhatsApp link, apps verify need not count (Slack, Signal, iMessage).
Stuck ==
  \/ ~Builds(inst)
  \/ inst.secret = "invalid"
  \/ ~inst.managed
  \/ inst.linked["whatsapp"] = "partial"
  \/ Cardinality(Tried) = MaxApps /\ Tried \subseteq {"slack", "signal", "imessage"}

(***************************************************************************)
(* Setup can be run again after whatever went wrong ("re-run setup", says  *)
(* every message of fail): an operator who does so ends up with an         *)
(* assistant that answers, unless the machine is Stuck.                    *)
(***************************************************************************)
SetupSucceeds == <>(run.said \in {"set", "ready"} \/ Stuck)
=============================================================================
