---------------------------- MODULE ChannelSetup ----------------------------
(***************************************************************************)
(* The flows that connect a messaging app (src/setup/channels/*.ts), with  *)
(* the scripts and steps they run: add-<channel>.sh, pair-telegram,        *)
(* whatsapp-auth, signal-auth, scripts/init-first-agent.ts.  A prompt is a *)
(* step the operator answers (or leaves, see Cancel in Setup).             *)
(***************************************************************************)
EXTENDS SetupSteps

\* The apps a flow has left something of.
Tried == inst.creds \union inst.wired
           \union {c \in AllChannels : inst.adapter[c] # "none"}

ChooseChannel(c) ==
  /\ Runs("channel")
  /\ c = NoChannel \/ Cardinality(Tried \union {c}) <= MaxApps
  /\ run' = [run EXCEPT !.choice = c,
               !.step = IF c = NoChannel THEN Following("channel") ELSE Flow[c][1]]
  /\ UNCHANGED <<inst, faults>>

Answers(s) == Runs(s) /\ Leaves(s) /\ UNCHANGED <<inst, faults>>

\* A check of what was pasted, or a call of the platform's API.
Checks(s) ==
  /\ Runs(s) /\ UNCHANGED inst
  /\ \/ Passes(s) /\ UNCHANGED faults
     \/ Fault /\ Fails

-----------------------------------------------------------------------------
(* add-<channel>.sh.                                                       *)

\* The name under which each flow runs its script.
InstallStep == [c \in AllChannels |->
  CASE c = "telegram" -> "telegram-install" [] c = "discord" -> "discord-install"
    [] c = "whatsapp" -> "whatsapp-install" [] c = "signal" -> "signal-install"
    [] c = "slack" -> "slack-install"       [] c = "teams" -> "teams-install"
    [] c = "imessage" -> "imessage-install"]

\* The adapter is fetched and listed, its package installed, the source built;
\* a source that lists the adapter is not looked at again.
Installed(c) ==
  IF inst.adapter[c] = "none"
  THEN Rebuilt([inst EXCEPT !.adapter[c] = "unbuilt"])
  ELSE inst

\* An install that repeats what an earlier one has left undone.
InstallCompletes(c) == Rebuilt([inst EXCEPT !.adapter[c] = "unbuilt"])

\* Nothing was fetched, or the package is missing, or the build failed.
HalfInstalled(c) ==
  {[inst EXCEPT !.adapter[c] = a] : a \in {"none", "listed", "unbuilt"}}

\* The build of a new adapter also fails on another one's missing package.
BuildsNow(c) == inst.adapter[c] # "none" \/ Builds(inst)

\* Then the credentials are saved and the service is restarted.
InstallToken(c) ==
  /\ Runs(InstallStep[c]) /\ BuildsNow(c) /\ Passes(InstallStep[c])
  /\ inst' = Restarted([Installed(c) EXCEPT !.creds = @ \union {c}])
  /\ UNCHANGED faults

InstallFails(c) ==
  /\ Runs(InstallStep[c]) /\ inst.adapter[c] = "none"
  /\ \/ Fault /\ inst' \in HalfInstalled(c)
     \/ ~Builds(inst) /\ inst' = [inst EXCEPT !.adapter[c] = "unbuilt"]
                      /\ UNCHANGED faults

-----------------------------------------------------------------------------
(* init-first-agent: find or create the user, agent group, role, membership,*)
(* chat and wiring, then hand the welcome to the service.                  *)

Wires == inst' = [inst EXCEPT !.wired = @ \union {run.choice}]

InitFirstAgent ==
  /\ Runs("init-first-agent") /\ inst.service = "running"
  /\ Wires /\ Passes("init-first-agent")
  /\ UNCHANGED faults

InitFirstAgentFails ==
  /\ Runs("init-first-agent")
  /\ \/ inst.service = "stopped" /\ Wires /\ UNCHANGED faults
     \/ Fault /\ UNCHANGED inst
  /\ IF run.choice = "whatsapp" THEN FailsLoose("init-first-agent") ELSE Fails

-----------------------------------------------------------------------------
TelegramToken    == Answers("telegram-token")
TelegramValidate == Checks("telegram-validate")

\* The service's adapter sees the code the operator sends to the bot.
PairTelegram ==
  /\ Runs("pair-telegram") /\ "telegram" \in inst.live
  /\ inst' = [inst EXCEPT !.linked["telegram"] = "yes"]
  /\ Passes("pair-telegram") /\ UNCHANGED faults

PairTelegramFails ==
  /\ Runs("pair-telegram") /\ Fails /\ UNCHANGED inst
  /\ IF "telegram" \in inst.live THEN Fault ELSE UNCHANGED faults

DiscordToken    == Answers("discord-token")
DiscordValidate == Checks("discord-validate")
DiscordAppInfo  == Checks("discord-app-info")
DiscordInvite   == Answers("discord-invite")
DiscordOpenDm   == Checks("discord-open-dm")

\* Slack's agent is wired by hand later.
SlackApp      == Answers("slack-app")
SlackValidate == Checks("slack-validate")

\* Local mode names the app in .env, remote mode takes the name out again.
IMessageMode == Answers("imessage-mode")
IMessageInstall ==
  /\ Runs("imessage-install") /\ BuildsNow("imessage") /\ Passes("imessage-install")
  /\ \E local \in BOOLEAN :
       inst' = Restarted([Installed("imessage") EXCEPT
                            !.creds = @ \union {"imessage"}, !.enabled = local])
  /\ UNCHANGED faults

-----------------------------------------------------------------------------
(* Teams: portal work, a package for the operator to upload, the adapter.  *)
TeamsAzure    == Answers("teams-azure")
TeamsBot      == Answers("teams-bot")
TeamsManifest == Runs("teams-manifest") /\ Passes("teams-manifest") /\ UNCHANGED <<inst, faults>>

\* fail() is not awaited and the caller takes a field of nothing: the run ends
\* with an error.
TeamsManifestFails ==
  /\ Runs("teams-manifest") /\ Fault
  /\ Says("aborted") /\ UNCHANGED inst

TeamsSideload == Answers("teams-sideload")
TeamsFinish   == Answers("teams-finish")

TeamsInstallFails == InstallFails("teams") /\ FailsLoose("teams-install")

-----------------------------------------------------------------------------
(* WhatsApp: link a device, then restart the service on its credentials.   *)
WhatsAppMethod == Answers("whatsapp-method")

WhatsAppInstall ==
  /\ Runs("whatsapp-install") /\ BuildsNow("whatsapp") /\ Passes("whatsapp-install")
  /\ inst' = Installed("whatsapp")
  /\ UNCHANGED faults

WhatsAppInstallFails == InstallFails("whatsapp") /\ FailsLoose("whatsapp-install")

\* Linked by this run, or found linked.
WhatsAppAuth ==
  /\ Runs("whatsapp-auth")
  /\ \/ inst.linked["whatsapp"] = "no" /\ inst.adapter["whatsapp"] \in {"unbuilt", "built"}
     \/ inst.linked["whatsapp"] = "yes"
  /\ inst' = [inst EXCEPT !.linked["whatsapp"] = "yes"]
  /\ Passes("whatsapp-auth") /\ UNCHANGED faults

\* A code that expires leaves credentials without an account, which the next
\* attempt takes for a linked device until their number is to be read.
WhatsAppAuthFails ==
  /\ Runs("whatsapp-auth")
  /\ \/ inst.linked["whatsapp"] = "partial" /\ UNCHANGED <<inst, faults>>
     \/ /\ inst.linked["whatsapp"] = "no" /\ Fault
        /\ \E l \in {"no", "partial"} : inst' = [inst EXCEPT !.linked["whatsapp"] = l]
     \/ /\ inst.linked["whatsapp"] = "no"
        /\ inst.adapter["whatsapp"] \in {"none", "listed"}
        /\ UNCHANGED <<inst, faults>>
  /\ FailsLoose("whatsapp-auth")

WhatsAppRestart ==
  /\ Runs("whatsapp-restart") /\ Passes("whatsapp-restart")
  /\ inst' = Restarted(inst)
  /\ UNCHANGED faults

-----------------------------------------------------------------------------
(* Signal: signal-cli is the operator's to install; the script builds in    *)
(* any case; the account is saved after the link.                          *)
SignalCli == Checks("signal-cli")

SignalInstall ==
  /\ Runs("signal-install") /\ Builds(inst) /\ Passes("signal-install")
  /\ inst' = InstallCompletes("signal")
  /\ UNCHANGED faults

SignalInstallFails ==
  /\ Runs("signal-install")
  /\ IF Builds(inst) THEN Fault ELSE UNCHANGED faults
  /\ inst' = [inst EXCEPT !.adapter["signal"] =
                IF @ = "none" THEN "unbuilt" ELSE @]
  /\ Fails

SignalAuth ==
  /\ Runs("signal-auth") /\ Passes("signal-auth")
  /\ inst' = [inst EXCEPT !.linked["signal"] = "yes",
                          !.creds = @ \union {"signal"}]
  /\ UNCHANGED faults

SignalAuthFails ==
  /\ Runs("signal-auth") /\ inst.linked["signal"] = "no"
  /\ Fault /\ Fails /\ UNCHANGED inst

SignalRestart ==
  /\ Runs("signal-restart") /\ Passes("signal-restart")
  /\ inst' = Restarted(inst)
  /\ UNCHANGED faults
=============================================================================
