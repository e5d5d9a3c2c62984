----------------------------- MODULE SetupSteps -----------------------------
(***************************************************************************)
(* The driver's own steps and what each leaves on the machine when it      *)
(* succeeds, fails, or fails half way (src/setup/*.ts).                    *)
(***************************************************************************)
EXTENDS SetupRun

Machine ==
  [docker  : {"none", "stopped", "denied", "ok"},  \* denied: not this login's group
   image   : BOOLEAN,                              \* the agent image is built
   url     : BOOLEAN,                              \* ONECLI_URL is in .env
   secret  : {"none", "valid", "invalid"},         \* the Anthropic secret
   rules   : BOOLEAN,                              \* mount-allowlist.json exists
   managed : BOOLEAN,                              \* launchd or systemd is there
   unit    : BOOLEAN,                              \* the service is installed
   service : {"stopped", "running"},
   acl     : BOOLEAN,                              \* the service may use docker
   peer    : {"none", "looping"},                  \* another install, crash-looping
   cli     : BOOLEAN,                              \* the terminal agent is wired
   zone    : BOOLEAN,                              \* TZ is in .env
   adapter : [AllChannels -> {"none", "listed", "unbuilt", "built"}],
   creds   : SUBSET AllChannels,                   \* channel credentials in .env
   enabled : BOOLEAN,                              \* IMESSAGE_ENABLED is in .env
   linked  : [{"telegram", "whatsapp", "signal"} -> {"no", "partial", "yes"}],
   live    : SUBSET AllChannels,                   \* adapters the service has started
   wired   : SUBSET AllChannels]                   \* DMs wired to an agent

\* A machine without docker, or one without a service manager.
Init ==
  /\ \E m \in BOOLEAN :
       inst = [docker |-> IF m THEN "none" ELSE "stopped", image |-> FALSE, url |-> FALSE, secret |-> "none",
               rules |-> FALSE, managed |-> m, unit |-> FALSE,
               service |-> "stopped", acl |-> FALSE, peer |-> "looping", cli |-> FALSE,
               zone |-> FALSE, adapter |-> [c \in AllChannels |-> "none"],
               creds |-> {}, enabled |-> FALSE, live |-> {}, wired |-> {},
               linked |-> [c \in {"telegram", "whatsapp", "signal"} |-> "no"]]
  /\ run = Fresh({}, FALSE)
  /\ faults = 0

(***************************************************************************)
(* An adapter is listed once its import is in the source, but the build    *)
(* needs its package, and the service needs the build.                     *)
(***************************************************************************)
Builds(i) == \A c \in AllChannels : i.adapter[c] # "listed"
Rebuilt(i) ==
  [i EXCEPT !.adapter =
     [c \in AllChannels |-> IF @[c] = "unbuilt" THEN "built" ELSE @[c]]]

HasAuth(i, c) == IF c = "whatsapp" THEN i.linked[c] = "yes" ELSE c \in i.creds

\* A restart that starts every adapter with credentials, built or not.
RestartedBlind(i) ==
  IF i.unit /\ i.managed
  THEN [i EXCEPT !.service = "running",
                 !.live = {c \in AllChannels : HasAuth(i, c)}]
  ELSE i

\* Restarting a service that is installed; without a manager the command
\* fails and nobody minds.
Restarted(i) ==
  IF i.unit /\ i.managed
  THEN [i EXCEPT !.service = "running",
                 !.live = {c \in AllChannels : i.adapter[c] = "built" /\ HasAuth(i, c)}]
  ELSE i

\* What a message to the terminal agent needs to be answered.
Answering ==
  /\ inst.service = "running" /\ inst.cli /\ inst.image /\ inst.url
  /\ inst.secret = "valid" /\ inst.peer # "looping"
  /\ inst.docker = "ok" \/ (inst.docker = "denied" /\ inst.acl)

-----------------------------------------------------------------------------
Environment == Runs("environment") /\ Passes("environment") /\ UNCHANGED <<inst, faults>>

\* Docker is installed or started when it is not there; a group it has just
\* created is only seen by a shell under sg.
DockerUp(i) ==
  [i EXCEPT !.docker = CASE @ = "none" -> "denied" [] @ = "stopped" -> "ok"
                         [] OTHER -> @]

\* The driver's own process cannot reach docker, and no sg has helped yet.
NeedsSg(i) == i.docker = "denied" /\ ~run.sg

\* The whole driver is started again under sg; what it has completed is not
\* passed on.
Container ==
  /\ Runs("container")
  /\ inst' = [DockerUp(inst) EXCEPT !.image = TRUE]
  /\ IF NeedsSg(inst')
     THEN run' = Fresh(run.skip, TRUE)
     ELSE Passes("container")
  /\ UNCHANGED faults

\* No docker, or docker and no image.
ContainerFails ==
  /\ Runs("container") /\ Fault /\ Fails
  /\ inst' \in {inst, DockerUp(inst)}

\* Reusing an instance and installing a fresh one both end with its URL.
Onecli ==
  /\ Runs("onecli") /\ Passes("onecli")
  /\ inst' = [inst EXCEPT !.url = TRUE]
  /\ UNCHANGED faults

OnecliFails == Runs("onecli") /\ Fault /\ Fails /\ UNCHANGED inst

\* Any Anthropic secret in the vault will do.
AuthKnown ==
  /\ Runs("auth") /\ inst.secret # "none"
  /\ Passes("auth") /\ UNCHANGED <<inst, faults>>

\* The sign-in is logged as interactive, so the step does not count as
\* completed.
AuthSubscription ==
  /\ Runs("auth") /\ inst.secret = "none"
  /\ inst' = [inst EXCEPT !.secret = "valid"]
  /\ Leaves("auth") /\ UNCHANGED faults

\* What is pasted is stored by its prefix; only the agent will find out.
AuthPaste ==
  /\ Runs("auth") /\ inst.secret = "none"
  /\ \/ inst' = [inst EXCEPT !.secret = "valid"] /\ UNCHANGED faults
     \/ inst' = [inst EXCEPT !.secret = "invalid"] /\ Fault
  /\ Passes("auth")

AuthFails ==
  /\ Runs("auth") /\ inst.secret = "none"
  /\ Fault /\ Fails /\ UNCHANGED inst

\* Rules that are already there are kept.
Mounts ==
  /\ Runs("mounts") /\ Passes("mounts")
  /\ inst' = [inst EXCEPT !.rules = TRUE]
  /\ UNCHANGED faults

MountsFails == Runs("mounts") /\ Fault /\ Fails /\ UNCHANGED inst

\* A service that is set up beside whatever other installs are there.
ServiceBesidePeers ==
  /\ Runs("service") /\ Builds(inst) /\ Passes("service")
  /\ inst' = Restarted([Rebuilt(inst) EXCEPT !.unit = inst.managed,
                                             !.acl = @ \/ inst.managed])
  /\ UNCHANGED faults

\* Build, unload unhealthy peers, install the unit, give the service access to
\* docker, restart it.  Whether it runs does not change the result; nor does a
\* peer that cannot be unloaded, or looks healthy at the moment it is probed.
Service ==
  /\ Runs("service") /\ Builds(inst) /\ Passes("service")
  /\ \E acl \in BOOLEAN, peer \in {"none", inst.peer} :
       /\ inst' = Restarted([Rebuilt(inst) EXCEPT
                    !.peer = peer, !.unit = inst.managed,
                    !.acl = @ \/ (acl /\ inst.managed)])
       /\ IF peer = "looping" \/ (~acl /\ inst.docker = "denied" /\ inst.managed)
          THEN Fault ELSE UNCHANGED faults

ServiceFails ==
  /\ Runs("service")
  /\ IF Builds(inst) THEN Fault ELSE UNCHANGED faults
  /\ Fails /\ UNCHANGED inst

ServiceStops ==
  /\ run.phase # "ended" /\ inst.service = "running" /\ Fault
  /\ inst' = [inst EXCEPT !.service = "stopped", !.live = {}]
  /\ UNCHANGED run

\* Find or create the agent group, the terminal's group and their wiring.
CliAgent ==
  /\ Runs("cli-agent") /\ Passes("cli-agent")
  /\ inst' = [inst EXCEPT !.cli = TRUE]
  /\ UNCHANGED faults

CliAgentFails == Runs("cli-agent") /\ Fault /\ Fails /\ UNCHANGED inst

\* A ping, and a chat or an offer of help: the run goes on either way.
FirstChat == Runs("first-chat") /\ Leaves("first-chat") /\ UNCHANGED <<inst, faults>>

\* The zone the machine reports is saved at once (every machine has one, if
\* only UTC).  The operator keeps it, or owes the driver another one.
Timezone ==
  /\ Runs("timezone")
  /\ inst' = [inst EXCEPT !.zone = TRUE]
  /\ \E owed \in BOOLEAN :
       run' = [run EXCEPT !.step = IF owed THEN "timezone-save" ELSE "channel",
                          !.done = @ \union {"timezone"}, !.owed = owed]
  /\ UNCHANGED faults

TimezoneSave ==
  /\ Runs("timezone-save")
  /\ run' = [run EXCEPT !.step = "channel", !.done = @ \union {"timezone"},
                        !.owed = FALSE]
  /\ UNCHANGED <<inst, faults>>

TimezoneFails ==
  /\ run.phase = "running" /\ run.step \in {"timezone", "timezone-save"}
  /\ Fault /\ Fails /\ UNCHANGED inst

-----------------------------------------------------------------------------
\* The channels verify recognises, by what they leave behind.
Counted ==
  (inst.creds \intersect {"telegram", "discord", "teams"})
    \union {c \in {"imessage"} : inst.enabled}
    \union {c \in {"whatsapp"} : inst.linked[c] # "no"}

Healthy == inst.service = "running" /\ inst.url /\ Counted # {}
           /\ (inst.cli \/ inst.wired # {})

\* A verification that does not wait for the assistant's answer.
VerifyUnanswered ==
  /\ Runs("verify")
  /\ IF Healthy
     THEN Says(IF run.choice \in {NoChannel, "slack"} THEN "ready" ELSE "set")
     ELSE Says("almost")
  /\ UNCHANGED <<inst, faults>>

\* The assistant is pinged when the rest is in order; a cold one may be late.
Verify ==
  /\ Runs("verify")
  /\ \/ /\ Healthy /\ Answering
        /\ Says(IF run.choice \in {NoChannel, "slack"} THEN "ready" ELSE "set")
        /\ UNCHANGED faults
     \/ ~(Healthy /\ Answering) /\ Says("almost") /\ UNCHANGED faults
     \/ Healthy /\ Answering /\ Fault /\ Says("almost")
  /\ UNCHANGED inst
=============================================================================
