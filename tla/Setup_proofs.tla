---------------------------- MODULE Setup_proofs ----------------------------
(***************************************************************************)
(* Proofs about Setup, for any set of channels and any number of faults    *)
(* and of apps tried.                                                      *)
(*                                                                         *)
(* What a step leaves on the machine no later step takes back, so a step   *)
(* that a process skips has its result there, and a flow that has come to  *)
(* its last steps has a live adapter unless the service is down.           *)
(***************************************************************************)
EXTENDS Setup, WellFoundedInduction, TLAPS

-----------------------------------------------------------------------------
(* The inductive invariant.                                                *)

Processes ==
  [step : StepNames, phase : {"running", "failing", "ended"},
   skip : SUBSET StepNames, done : SUBSET StepNames,
   choice : Channels \union {NoChannel},
   sg : BOOLEAN, owed : BOOLEAN, loose : BOOLEAN,
   said : {"nothing", "aborted", "cancelled", "almost", "set", "ready"}]

\* A process is in the driver's steps until an app is chosen, and in the steps
\* of that app until it comes to verify, which is never skipped.
RunInv ==
  /\ run \in Processes
  /\ run.choice = NoChannel => run.step \in DriverSteps
  /\ run.choice # NoChannel => run.step \in Range(Flow[run.choice]) \union {"verify"}
  /\ "verify" \notin run.skip \union run.done
  /\ run.step = "timezone-save" => "timezone" \in run.done
  /\ run.owed /\ "timezone" \notin run.skip => run.step = "timezone-save"

\* The service runs from an installed unit, on adapters that were built and
\* had credentials when it started.
MachineOn(i) ==
  /\ i \in Machine
  /\ i.creds \union i.wired \subseteq Channels
  /\ \A c \in i.live : i.adapter[c] = "built" /\ HasAuth(i, c)
  /\ i.live # {} => i.service = "running"
  /\ i.service = "running" => i.unit /\ i.managed

MachineInv == MachineOn(inst)

\* What the steps of S are for is on the machine i.
DoneOn(i, S) ==
  /\ "container" \in S => i.image
  /\ "onecli" \in S => i.url
  /\ "auth" \in S => i.secret # "none"
  /\ "mounts" \in S => i.rules
  /\ "service" \in S => i.unit = i.managed
  /\ "cli-agent" \in S => i.cli
  /\ "timezone" \in S => i.zone

DoneInv == DoneOn(inst, run.skip \union run.done)

\* The apps whose flow ends with a wired chat.
Wirable == {"telegram", "discord", "whatsapp", "signal", "imessage"}

\* The steps of a flow that come after its last restart of the service.
Late == {"pair-telegram", "discord-open-dm", "init-first-agent", "verify"}

\* What a process r that has got as far as its step in a flow has on machine i.
FlowOn(i, r) ==
  r.choice \in Wirable /\ ~r.loose =>
    /\ r.step = "verify" => r.choice \in i.wired
    /\ r.step \in Late /\ i.service = "running" /\ i.adapter[r.choice] = "built" =>
         r.choice \in i.live
    /\ r.step = "signal-restart" => "signal" \in i.creds
    /\ r.step = "whatsapp-restart" => i.linked["whatsapp"] = "yes"

\* Success is the last thing a process says, at verify, and it is true.
SaidInv ==
  run.said \in {"set", "ready"} =>
    /\ run.phase = "ended" /\ run.step = "verify"
    /\ SuccessIsTrue
    /\ "timezone" \notin run.skip => ~run.owed

IInv ==
  /\ RunInv /\ MachineInv /\ DoneInv /\ FlowOn(inst, run) /\ SaidInv
  /\ faults \in 0..MaxFaults

-----------------------------------------------------------------------------
(* The order of the steps.                                                 *)

\* The driver's steps by name.
LEMMA DriverStepsByName ==
    DriverSteps = {"environment", "container", "onecli", "auth", "mounts", "service",
                   "cli-agent", "first-chat", "timezone", "timezone-save", "channel",
                   "verify"}
  <1>1. DOMAIN Order = 1..12
    BY DEF Order
  <1>2. 1..12 = {1, 2, 3, 4, 5, 6, 7, 8, 9, 10, 11, 12}
    OBVIOUS
  <1> QED BY <1>1, <1>2 DEF DriverSteps, Range, Order

\* The steps of each flow by name.
LEMMA FlowStepsByName ==
    /\ Range(Flow["telegram"]) =
         {"telegram-token", "telegram-validate", "telegram-install", "pair-telegram",
          "init-first-agent"}
    /\ Range(Flow["discord"]) =
         {"discord-token", "discord-validate", "discord-app-info", "discord-invite",
          "discord-install", "discord-open-dm", "init-first-agent"}
    /\ Range(Flow["whatsapp"]) =
         {"whatsapp-method", "whatsapp-install", "whatsapp-auth", "whatsapp-restart",
          "init-first-agent"}
    /\ Range(Flow["signal"]) =
         {"signal-cli", "signal-install", "signal-auth", "signal-restart",
          "init-first-agent"}
    /\ Range(Flow["slack"]) = {"slack-app", "slack-validate", "slack-install"}
    /\ Range(Flow["teams"]) =
         {"teams-azure", "teams-bot", "teams-manifest", "teams-sideload", "teams-install",
          "teams-finish"}
    /\ Range(Flow["imessage"]) = {"imessage-mode", "imessage-install", "init-first-agent"}
  <1>1. /\ Flow["telegram"] = TelegramFlow /\ Flow["discord"] = DiscordFlow
        /\ Flow["whatsapp"] = WhatsAppFlow /\ Flow["signal"] = SignalFlow
        /\ Flow["slack"] = SlackFlow       /\ Flow["teams"] = TeamsFlow
        /\ Flow["imessage"] = IMessageFlow
    BY DEF Flow, AllChannels
  <1>2. /\ 1..3 = {1, 2, 3} /\ 1..5 = {1, 2, 3, 4, 5} /\ 1..6 = {1, 2, 3, 4, 5, 6}
        /\ 1..7 = {1, 2, 3, 4, 5, 6, 7}
    OBVIOUS
  <1>3. /\ DOMAIN TelegramFlow = 1..5 /\ DOMAIN DiscordFlow = 1..7
        /\ DOMAIN WhatsAppFlow = 1..5 /\ DOMAIN SignalFlow = 1..5
        /\ DOMAIN SlackFlow = 1..3    /\ DOMAIN TeamsFlow = 1..6
        /\ DOMAIN IMessageFlow = 1..3
    BY DEF TelegramFlow, DiscordFlow, WhatsAppFlow, SignalFlow, SlackFlow, TeamsFlow,
           IMessageFlow
  <1>4. /\ Range(TelegramFlow) = {TelegramFlow[i] : i \in 1..5}
        /\ Range(DiscordFlow) = {DiscordFlow[i] : i \in 1..7}
        /\ Range(WhatsAppFlow) = {WhatsAppFlow[i] : i \in 1..5}
        /\ Range(SignalFlow) = {SignalFlow[i] : i \in 1..5}
        /\ Range(SlackFlow) = {SlackFlow[i] : i \in 1..3}
        /\ Range(TeamsFlow) = {TeamsFlow[i] : i \in 1..6}
        /\ Range(IMessageFlow) = {IMessageFlow[i] : i \in 1..3}
    BY <1>3 DEF Range
  <1>5. Range(Flow["telegram"]) =
         {"telegram-token", "telegram-validate", "telegram-install", "pair-telegram",
          "init-first-agent"}
    BY <1>1, <1>2, <1>4 DEF TelegramFlow
  <1>6. Range(Flow["discord"]) =
         {"discord-token", "discord-validate", "discord-app-info", "discord-invite",
          "discord-install", "discord-open-dm", "init-first-agent"}
    BY <1>1, <1>2, <1>4 DEF DiscordFlow
  <1>7. Range(Flow["whatsapp"]) =
         {"whatsapp-method", "whatsapp-install", "whatsapp-auth", "whatsapp-restart",
          "init-first-agent"}
    BY <1>1, <1>2, <1>4 DEF WhatsAppFlow
  <1>8. Range(Flow["signal"]) =
         {"signal-cli", "signal-install", "signal-auth", "signal-restart",
          "init-first-agent"}
    BY <1>1, <1>2, <1>4 DEF SignalFlow
  <1>9. Range(Flow["slack"]) = {"slack-app", "slack-validate", "slack-install"}
    BY <1>1, <1>2, <1>4 DEF SlackFlow
  <1>10. Range(Flow["teams"]) =
         {"teams-azure", "teams-bot", "teams-manifest", "teams-sideload", "teams-install",
          "teams-finish"}
    BY <1>1, <1>2, <1>4 DEF TeamsFlow
  <1>11. Range(Flow["imessage"]) = {"imessage-mode", "imessage-install", "init-first-agent"}
    BY <1>1, <1>2, <1>4 DEF IMessageFlow
  <1> QED BY <1>5, <1>6, <1>7, <1>8, <1>9, <1>10, <1>11

\* No step comes twice in an order.
LEMMA PositionOf ==
    ASSUME NEW seq, NEW i \in DOMAIN seq,
           \A j \in DOMAIN seq : seq[j] = seq[i] => j = i
    PROVE  Position(seq, seq[i]) = i
  BY DEF Position

\* A set of naturals that is not empty has a least element.
LEMMA LeastNatural ==
    ASSUME NEW S \in SUBSET Nat, S # {}
    PROVE  \E n \in S : \A m \in S : n <= m
  <1>1. PICK n \in S : \A m \in S : ~(<<m, n>> \in OpToRel(<, Nat))
    BY NatLessThanWellFounded, WFMin, Zenon
  <1>2. \A m \in S : ~(m < n)
    BY <1>1 DEF OpToRel
  <1> QED BY <1>2

\* The driver always has a next step, since verify is never skipped, and comes
\* to save the zone from the timezone step only.
LEMMA FirstFromIsDriverStep ==
    ASSUME NEW i \in 1..12, NEW skip, "verify" \notin skip
    PROVE  /\ FirstFrom(i, skip) \in DriverSteps
           /\ i # 10 => FirstFrom(i, skip) # "timezone-save"
  <1> DEFINE Open == {j \in i..12 : ~Skipped(Order[j], skip)}
             IsFirst(j) == /\ ~Skipped(Order[j], skip)
                           /\ \A k \in i..(j - 1) : Skipped(Order[k], skip)
             first == CHOOSE j \in i..12 : IsFirst(j)
  <1>1. Len(Order) = 12 /\ DOMAIN Order = 1..12 /\ Order[12] = "verify"
    BY DEF Order
  <1>2. 12 \in Open
    BY <1>1 DEF Skipped
  <1>3. PICK n \in Open : \A m \in Open : n <= m
    BY <1>2, LeastNatural
  <1>4. IsFirst(n)
    BY <1>3
  <1>5. first \in i..12 /\ IsFirst(first)
    <2> HIDE DEF IsFirst
    <2> QED BY <1>3, <1>4
  <1>6. FirstFrom(i, skip) = Order[first]
    BY <1>1 DEF FirstFrom
  <1>7. \A j \in 1..12 : Order[j] \in DriverSteps
    BY <1>1 DEF DriverSteps, Range
  <1>8. ASSUME i # 10
        PROVE  Order[first] # "timezone-save"
    <2> HIDE DEF first
    <2> SUFFICES ASSUME Order[first] = "timezone-save"
                 PROVE  FALSE
      OBVIOUS
    <2>1. first = 10 /\ Order[9] = "timezone"
      BY <1>5 DEF Order
    <2>2. Skipped("timezone", skip)
      BY <1>5, <1>8, <2>1
    <2>3. Skipped("timezone-save", skip)
      BY <2>2 DEF Skipped
    <2> QED BY <1>5, <2>3
  <1> QED BY <1>5, <1>6, <1>7, <1>8

\* After a step of the driver comes another one, until verify.
LEMMA FollowingInDriver ==
    ASSUME run.choice = NoChannel, "verify" \notin run.skip,
           NEW s \in DriverSteps, s # "verify"
    PROVE  /\ Following(s) \in DriverSteps
           /\ s # "timezone" => Following(s) # "timezone-save"
  <1>1. DOMAIN Order = 1..12 /\ Order[12] = "verify" /\ Order[9] = "timezone"
    BY DEF Order
  <1>2. PICK i \in 1..12 : Order[i] = s
    BY <1>1 DEF DriverSteps, Range
  <1>3. Position(Order, s) \in 1..12 /\ Order[Position(Order, s)] = s
    BY <1>1, <1>2 DEF Position
  <1>4. Position(Order, s) + 1 \in 1..12 /\ (s # "timezone" => Position(Order, s) + 1 # 10)
    BY <1>1, <1>3
  <1> QED BY <1>4, FirstFromIsDriverStep DEF Following

\* A flow is a sequence of different steps, none of them the choice of the app.
LEMMA FlowIsOrder ==
    ASSUME NEW c \in AllChannels
    PROVE  /\ Len(Flow[c]) \in Nat \ {0} /\ DOMAIN Flow[c] = 1..Len(Flow[c])
           /\ \A i \in DOMAIN Flow[c] : Flow[c][i] # "channel"
           /\ \A i, j \in DOMAIN Flow[c] : Flow[c][j] = Flow[c][i] => j = i
  <1> DEFINE IsOrder(seq) == /\ Len(seq) \in Nat \ {0} /\ DOMAIN seq = 1..Len(seq)
                             /\ \A i \in DOMAIN seq : seq[i] # "channel"
                             /\ \A i, j \in DOMAIN seq : seq[j] = seq[i] => j = i
  <1>1. IsOrder(TelegramFlow)
    BY DEF TelegramFlow
  <1>2. IsOrder(DiscordFlow)
    BY DEF DiscordFlow
  <1>3. IsOrder(WhatsAppFlow)
    BY DEF WhatsAppFlow
  <1>4. IsOrder(SignalFlow)
    BY DEF SignalFlow
  <1>5. IsOrder(SlackFlow)
    BY DEF SlackFlow
  <1>6. IsOrder(TeamsFlow)
    BY DEF TeamsFlow
  <1>7. IsOrder(IMessageFlow)
    BY DEF IMessageFlow
  <1>8. IsOrder(Flow[c])
    <2> HIDE DEF IsOrder
    <2> QED BY <1>1, <1>2, <1>3, <1>4, <1>5, <1>6, <1>7 DEF Flow, AllChannels
  <1> QED BY <1>8

\* The i-th step of a flow is followed by the next one, and the last by verify.
LEMMA FollowingInFlow ==
    ASSUME NEW c \in AllChannels, run.choice = c, NEW i \in DOMAIN Flow[c]
    PROVE  Following(Flow[c][i]) = IF i < Len(Flow[c]) THEN Flow[c][i + 1] ELSE "verify"
  <1>1. c # NoChannel
    BY ChannelsAssumption
  <1>2. Position(Flow[c], Flow[c][i]) = i /\ Flow[c][i] # "channel"
    BY FlowIsOrder, PositionOf
  <1> QED BY <1>1, <1>2 DEF Following

\* A flow that has begun stays among its own steps until verify.
LEMMA FollowingStaysInFlow ==
    ASSUME NEW c \in AllChannels, run.choice = c, NEW s \in Range(Flow[c])
    PROVE  Following(s) \in Range(Flow[c]) \union {"verify"}
  <1>1. PICK i \in DOMAIN Flow[c] : Flow[c][i] = s
    BY DEF Range
  <1>2. CASE i < Len(Flow[c])
    <2>1. i + 1 \in DOMAIN Flow[c]
      BY <1>2, FlowIsOrder
    <2>2. Following(s) = Flow[c][i + 1]
      BY <1>1, <1>2, FollowingInFlow
    <2> QED BY <2>1, <2>2 DEF Range
  <1>3. CASE ~(i < Len(Flow[c]))
    BY <1>1, <1>3, FollowingInFlow
  <1> QED BY <1>2, <1>3

\* The last restart of the service in each flow, or what does its work.
LastRestart == {"telegram-install", "discord-install", "whatsapp-restart",
                "signal-restart", "imessage-install"}

\* Which step of a flow leads to the steps that FlowOn is about.
LEMMA LeadsTo ==
    ASSUME NEW c \in Wirable, run.choice = c, NEW s \in Range(Flow[c])
    PROVE  /\ Following(s) = "verify" => s = "init-first-agent"
           /\ Following(s) \in Late => s \in Late \union LastRestart
           /\ Following(s) = "signal-restart" => s = "signal-auth"
           /\ Following(s) = "whatsapp-restart" => s = "whatsapp-auth"
  <1> DEFINE Leads(x, y) ==
               /\ y = "verify" => x = "init-first-agent"
               /\ y \in Late => x \in Late \union LastRestart
               /\ y = "signal-restart" => x = "signal-auth"
               /\ y = "whatsapp-restart" => x = "whatsapp-auth"
             AllLead(seq) ==
               \A i \in DOMAIN seq :
                 Leads(seq[i], IF i < Len(seq) THEN seq[i + 1] ELSE "verify")
  <1>1. AllLead(TelegramFlow)
    <2>1. DOMAIN TelegramFlow = 1..5 /\ Len(TelegramFlow) = 5
      BY DEF TelegramFlow
    <2> QED BY <2>1 DEF TelegramFlow, Late, LastRestart
  <1>2. AllLead(DiscordFlow)
    <2>1. DOMAIN DiscordFlow = 1..7 /\ Len(DiscordFlow) = 7
      BY DEF DiscordFlow
    <2> QED BY <2>1 DEF DiscordFlow, Late, LastRestart
  <1>3. AllLead(WhatsAppFlow)
    <2>1. DOMAIN WhatsAppFlow = 1..5 /\ Len(WhatsAppFlow) = 5
      BY DEF WhatsAppFlow
    <2> QED BY <2>1 DEF WhatsAppFlow, Late, LastRestart
  <1>4. AllLead(SignalFlow)
    <2>1. DOMAIN SignalFlow = 1..5 /\ Len(SignalFlow) = 5
      BY DEF SignalFlow
    <2> QED BY <2>1 DEF SignalFlow, Late, LastRestart
  <1>5. AllLead(IMessageFlow)
    <2>1. DOMAIN IMessageFlow = 1..3 /\ Len(IMessageFlow) = 3
      BY DEF IMessageFlow
    <2> QED BY <2>1 DEF IMessageFlow, Late, LastRestart
  <1>6. AllLead(Flow[c])
    <2> HIDE DEF AllLead
    <2>1. /\ c = "telegram" => Flow[c] = TelegramFlow
          /\ c = "discord" => Flow[c] = DiscordFlow
          /\ c = "whatsapp" => Flow[c] = WhatsAppFlow
          /\ c = "signal" => Flow[c] = SignalFlow
          /\ c = "imessage" => Flow[c] = IMessageFlow
      BY DEF Flow, AllChannels
    <2> QED BY <1>1, <1>2, <1>3, <1>4, <1>5, <2>1 DEF Wirable
  <1>7. c \in AllChannels
    BY DEF Wirable, AllChannels
  <1>8. PICK i \in DOMAIN Flow[c] : Flow[c][i] = s
    BY DEF Range
  <1>9. Following(s) = IF i < Len(Flow[c]) THEN Flow[c][i + 1] ELSE "verify"
    BY <1>7, <1>8, FollowingInFlow
  <1>10. Leads(s, Following(s))
    <2> HIDE DEF Leads
    <2> QED BY <1>6, <1>8, <1>9
  <1> QED BY <1>10
-----------------------------------------------------------------------------
(* What restarts and builds do to a machine.                               *)

\* Machine j differs from i in its service at most.
SameButService(i, j) ==
  /\ j.docker = i.docker /\ j.image = i.image /\ j.url = i.url /\ j.secret = i.secret
  /\ j.rules = i.rules /\ j.managed = i.managed /\ j.unit = i.unit /\ j.acl = i.acl
  /\ j.peer = i.peer /\ j.cli = i.cli /\ j.zone = i.zone /\ j.adapter = i.adapter
  /\ j.creds = i.creds /\ j.enabled = i.enabled /\ j.linked = i.linked
  /\ j.wired = i.wired

\* A restart changes the service and its adapters, and nothing else.
LEMMA RestartedFields ==
    ASSUME NEW i \in Machine
    PROVE  /\ Restarted(i) \in Machine /\ SameButService(i, Restarted(i))
           /\ i.unit /\ i.managed =>
                /\ Restarted(i).service = "running"
                /\ \A c \in AllChannels :
                     c \in Restarted(i).live <=> (i.adapter[c] = "built" /\ HasAuth(i, c))
           /\ ~(i.unit /\ i.managed) => Restarted(i) = i
  <1>1. CASE i.unit /\ i.managed
    <2>1. PICK L \in SUBSET AllChannels :
            L = {c \in AllChannels : i.adapter[c] = "built" /\ HasAuth(i, c)}
      OBVIOUS
    <2>2. PICK j : j = Restarted(i)
      OBVIOUS
    <2>3. j = [i EXCEPT !.service = "running", !.live = L]
      BY <1>1, <2>1, <2>2 DEF Restarted
    <2>4. j \in Machine /\ j.service = "running" /\ j.live = L
      BY <2>3 DEF Machine
    <2>6. SameButService(i, j)
      BY <2>3 DEF Machine, SameButService
    <2>5. \A c \in AllChannels : c \in j.live <=> (i.adapter[c] = "built" /\ HasAuth(i, c))
      BY <2>1, <2>4
    <2> QED BY <1>1, <2>2, <2>4, <2>5, <2>6
  <1>2. CASE ~(i.unit /\ i.managed)
    BY <1>2 DEF Restarted, SameButService
  <1> QED BY <1>1, <1>2

\* A restart leaves a machine in order.
LEMMA RestartedMachine ==
    ASSUME NEW i, MachineOn(i)
    PROVE  MachineOn(Restarted(i))
  <1>1. i \in Machine
    BY DEF MachineOn
  <1>2. PICK j : j = Restarted(i)
    OBVIOUS
  <1>3. CASE i.unit /\ i.managed
    <2>1. /\ j \in Machine /\ SameButService(i, j) /\ j.service = "running"
          /\ \A c \in AllChannels : c \in j.live <=> (i.adapter[c] = "built" /\ HasAuth(i, c))
      BY <1>1, <1>2, <1>3, RestartedFields
    <2>2. j.live \subseteq AllChannels
      BY <2>1 DEF Machine
    <2>3. \A c \in j.live : j.adapter[c] = "built" /\ HasAuth(j, c)
      BY <2>1, <2>2 DEF SameButService, HasAuth
    <2>4. j.creds \union j.wired \subseteq Channels /\ j.unit /\ j.managed
      BY <1>3, <2>1 DEF SameButService, MachineOn
    <2> QED BY <1>2, <2>1, <2>3, <2>4 DEF MachineOn
  <1>4. CASE ~(i.unit /\ i.managed)
    BY <1>1, <1>4, RestartedFields
  <1> QED BY <1>3, <1>4

\* After a restart that succeeds every adapter that is built and has its
\* credentials is live.
LEMMA RestartedLive ==
    ASSUME NEW i, MachineOn(i), NEW c \in AllChannels,
           Restarted(i).service = "running", i.adapter[c] = "built", HasAuth(i, c)
    PROVE  c \in Restarted(i).live
  <1>1. i \in Machine
    BY DEF MachineOn
  <1>2. i.unit /\ i.managed
    BY <1>1, RestartedFields DEF MachineOn
  <1> QED BY <1>1, <1>2, RestartedFields

\* What the steps are for does not depend on the service.
LEMMA DoneUnderRestart ==
    ASSUME NEW i \in Machine, NEW S, DoneOn(i, S)
    PROVE  DoneOn(Restarted(i), S)
  BY RestartedFields DEF SameButService, DoneOn

-----------------------------------------------------------------------------
(* What a process keeps as it goes from step to step.                      *)

\* Where step s leads, for a process that is at s.
LEMMA GoesOn ==
    ASSUME RunInv, NEW s, run.step = s, s \notin {"verify", "timezone"}
    PROVE  /\ s \in StepNames /\ Following(s) \in StepNames
           /\ Following(s) # "timezone-save"
           /\ run.choice = NoChannel => Following(s) \in DriverSteps
           /\ run.choice # NoChannel => Following(s) \in Range(Flow[run.choice]) \union {"verify"}
  <1>1. run.choice \in Channels \union {NoChannel} /\ s \in StepNames
    BY DEF RunInv, Processes
  <1>2. "verify" \in DriverSteps
    BY DriverStepsByName
  <1>3. CASE run.choice = NoChannel
    BY <1>1, <1>3, FollowingInDriver DEF RunInv, StepNames
  <1>4. CASE run.choice # NoChannel
    <2>1. PICK c \in AllChannels : run.choice = c
      BY <1>1, <1>4, ChannelsAssumption
    <2>2. s \in Range(Flow[c])
      BY <1>4, <2>1 DEF RunInv
    <2>3. Following(s) \in Range(Flow[c]) \union {"verify"}
      BY <2>1, <2>2, FollowingStaysInFlow
    <2>4. Range(Flow[c]) \subseteq StepNames /\ "timezone-save" \notin Range(Flow[c])
      BY FlowStepsByName DEF StepNames, AllChannels
    <2> QED BY <1>1, <1>2, <1>4, <2>1, <2>3, <2>4 DEF StepNames
  <1> QED BY <1>3, <1>4

\* A step that is left, passed, or failed beside the flow.
LEMMA GoingOn ==
    ASSUME RunInv, NEW s, Runs(s), s \notin {"verify", "timezone", "timezone-save"},
           Leaves(s) \/ Passes(s) \/ FailsLoose(s)
    PROVE  RunInv'
  <1>1. /\ s \in StepNames /\ Following(s) \in StepNames /\ Following(s) # "timezone-save"
        /\ run.choice = NoChannel => Following(s) \in DriverSteps
        /\ run.choice # NoChannel => Following(s) \in Range(Flow[run.choice]) \union {"verify"}
    BY GoesOn DEF Runs
  <1>2. PICK x : x = Following(s)
    OBVIOUS
  <1>3. CASE Leaves(s)
    BY <1>1, <1>2, <1>3 DEF RunInv, Processes, Runs, Leaves
  <1>4. CASE Passes(s)
    BY <1>1, <1>2, <1>4 DEF RunInv, Processes, Runs, Passes
  <1>5. CASE FailsLoose(s)
    BY <1>1, <1>2, <1>5 DEF RunInv, Processes, Runs, FailsLoose
  <1> QED BY <1>3, <1>4, <1>5

\* A step that fails, and a process that ends.
LEMMA Stopping ==
    ASSUME RunInv,
           \/ Fails
           \/ \E what \in {"aborted", "cancelled", "almost", "set", "ready"} : Says(what)
    PROVE  RunInv'
  <1>1. run \in Processes
    BY DEF RunInv
  <1>2. /\ run' \in Processes
        /\ run'.step = run.step /\ run'.choice = run.choice
        /\ run'.skip = run.skip /\ run'.done = run.done /\ run'.owed = run.owed
    <2>1. CASE Fails
      BY <1>1, <2>1 DEF Processes, Fails
    <2>2. CASE \E what \in {"aborted", "cancelled", "almost", "set", "ready"} : Says(what)
      BY <1>1, <2>2 DEF Processes, Says
    <2> QED BY <2>1, <2>2
  <1> QED BY <1>2 DEF RunInv

\* A fresh process that skips some steps.
LEMMA FreshFields ==
    ASSUME NEW skip \in SUBSET StepNames, "verify" \notin skip, NEW sg \in BOOLEAN
    PROVE  /\ Fresh(skip, sg) \in Processes 
           /\ Fresh(skip, sg).step \in DriverSteps \ {"timezone-save"}
           /\ Fresh(skip, sg).skip = skip /\ Fresh(skip, sg).done = {}
           /\ Fresh(skip, sg).choice = NoChannel /\ ~Fresh(skip, sg).owed
           /\ Fresh(skip, sg).said = "nothing"
  <1>1. FirstFrom(1, skip) \in DriverSteps \ {"timezone-save"}
    BY FirstFromIsDriverStep
  <1>2. PICK x \in DriverSteps \ {"timezone-save"} : x = FirstFrom(1, skip)
    BY <1>1
  <1>3. x \in StepNames
    BY DEF StepNames
  <1> QED BY <1>2, <1>3 DEF Fresh, Processes

\* A process that has begun with nothing chosen and nothing said keeps the
\* invariant on a machine that has what it skips.
LEMMA Starting ==
    ASSUME MachineOn(inst'), faults' \in 0..MaxFaults,
           run' \in Processes, run'.step \in DriverSteps \ {"timezone-save"},
           run'.choice = NoChannel, run'.done = {}, "verify" \notin run'.skip, DoneOn(inst', run'.skip),
           run'.owed => "timezone" \in run'.skip, run'.said = "nothing"
    PROVE  IInv'
  <1>1. RunInv' /\ DoneInv' /\ SaidInv'
    BY DEF RunInv, DoneInv, SaidInv
  <1>2. FlowOn(inst, run)'
    BY ChannelsAssumption DEF FlowOn, Wirable, AllChannels
  <1> QED BY <1>1, <1>2 DEF IInv, MachineInv

-----------------------------------------------------------------------------
(* What a flow relies on.                                                  *)

\* Machine j has what a flow had on machine i: chats stay wired, credentials
\* stay saved, a device stays linked, and no built adapter of a running service
\* stops being live while it runs.
Keeps(i, j) ==
  /\ i.wired \subseteq j.wired /\ i.creds \subseteq j.creds
  /\ i.linked["whatsapp"] = "yes" => j.linked["whatsapp"] = "yes"
  /\ \A c \in AllChannels :
       j.service = "running" /\ j.adapter[c] = "built" /\ c \notin j.live =>
         i.service = "running" /\ i.adapter[c] = "built" /\ c \notin i.live

\* The steps that change what FlowOn says.
Turning == LastRestart \union {"init-first-agent", "signal-auth", "whatsapp-auth"}

\* Another step of the same flow, on a machine that has kept what it had.
LEMMA FlowGoesOn ==
    ASSUME RunInv, FlowOn(inst, run), Keeps(inst, inst'),
           NEW s, Runs(s), s \notin Turning \union {"verify"},
           Leaves(s) \/ Passes(s) \/ FailsLoose(s)
    PROVE  FlowOn(inst, run)'
  <1>1. /\ run'.step = Following(s) /\ run'.choice = run.choice
        /\ ~run'.loose => ~run.loose
    BY DEF RunInv, Processes, Leaves, Passes, FailsLoose
  <1> SUFFICES ASSUME run.choice \in Wirable, ~run.loose
               PROVE  FlowOn(inst', run')
    BY <1>1 DEF FlowOn
  <1>2. run.choice \in AllChannels /\ run.choice # NoChannel
    BY ChannelsAssumption DEF Wirable, AllChannels
  <1>3. s \in Range(Flow[run.choice])
    BY <1>2 DEF RunInv, Runs
  <1>4. PICK c \in Wirable : run.choice = c
    OBVIOUS
  <1>5. /\ Following(s) # "verify" /\ Following(s) # "signal-restart"
        /\ Following(s) # "whatsapp-restart"
        /\ Following(s) \in Late => s \in Late
    BY <1>3, <1>4, LeadsTo DEF Turning, LastRestart
  <1>6. run'.step \in Late /\ inst'.service = "running" /\ inst'.adapter[c] = "built" =>
          c \in inst'.live
    BY <1>1, <1>2, <1>4, <1>5 DEF FlowOn, Keeps, Runs
  <1> QED BY <1>1, <1>4, <1>5, <1>6 DEF FlowOn

\* The early steps of a flow ask nothing of the machine.
LEMMA FlowIsEarly ==
    ASSUME RunInv, NEW s, Runs(s), s \notin Turning \union Late, Leaves(s) \/ Passes(s)
    PROVE  FlowOn(inst, run)'
  <1>1. run'.step = Following(s) /\ run'.choice = run.choice
    BY DEF RunInv, Processes, Leaves, Passes
  <1> SUFFICES ASSUME run.choice \in Wirable
               PROVE  FlowOn(inst', run')
    BY <1>1 DEF FlowOn
  <1>2. run.choice \in AllChannels /\ run.choice # NoChannel
    BY ChannelsAssumption DEF Wirable, AllChannels
  <1>3. s \in Range(Flow[run.choice])
    BY <1>2 DEF RunInv, Runs, Late
  <1>4. PICK c \in Wirable : run.choice = c
    OBVIOUS
  <1>5. Following(s) \notin Late \union {"signal-restart", "whatsapp-restart"}
    BY <1>3, <1>4, LeadsTo DEF Turning
  <1> QED BY <1>1, <1>5 DEF FlowOn, Late

\* A flow beside which a failure is pending is not relied on.
LEMMA FlowIsLoose ==
    ASSUME RunInv, NEW s, FailsLoose(s)
    PROVE  FlowOn(inst, run)'
  BY DEF RunInv, Processes, FailsLoose, FlowOn

\* The same step, on a machine that has kept what it had.
LEMMA FlowWaits ==
    ASSUME FlowOn(inst, run), Keeps(inst, inst'),
           run'.step = run.step, run'.choice = run.choice, run'.loose = run.loose
    PROVE  FlowOn(inst, run)'
  BY DEF FlowOn, Keeps, Wirable, AllChannels

\* Before an app is chosen there is no flow.
LEMMA NoFlow ==
    ASSUME NEW i, NEW r, r.choice \notin Wirable
    PROVE  FlowOn(i, r)
  BY DEF FlowOn

\* The last restart of a flow makes its adapter live, if it was built and has
\* its credentials.
LEMMA FlowRestarts ==
    ASSUME RunInv, NEW m, MachineOn(m), inst' = Restarted(m),
           NEW s \in LastRestart, Runs(s), Leaves(s) \/ Passes(s),
           run.choice \in Wirable /\ ~run.loose => HasAuth(m, run.choice)
    PROVE  FlowOn(inst, run)'
  <1>1. /\ run'.step = Following(s) /\ run'.choice = run.choice
        /\ run'.loose = run.loose
    BY DEF RunInv, Processes, Leaves, Passes
  <1> SUFFICES ASSUME run.choice \in Wirable, ~run.loose
               PROVE  FlowOn(inst', run')
    BY <1>1 DEF FlowOn
  <1>2. run.choice \in AllChannels /\ run.choice # NoChannel
    BY ChannelsAssumption DEF Wirable, AllChannels
  <1>3. s \in Range(Flow[run.choice])
    BY <1>2 DEF RunInv, Runs, LastRestart
  <1>4. PICK c \in Wirable : run.choice = c
    OBVIOUS
  <1>5. /\ Following(s) # "verify" /\ Following(s) # "signal-restart"
        /\ Following(s) # "whatsapp-restart"
    BY <1>3, <1>4, LeadsTo DEF LastRestart
  <1>6. m \in Machine /\ inst'.adapter = m.adapter
    BY RestartedFields DEF MachineOn, SameButService
  <1>7. inst'.service = "running" /\ inst'.adapter[c] = "built" => c \in inst'.live
    BY <1>2, <1>4, <1>6, RestartedLive
  <1> QED BY <1>1, <1>4, <1>5, <1>7 DEF FlowOn

-----------------------------------------------------------------------------
(* Steps that keep the invariant.                                          *)

\* The number of failures stays in its bound.
LEMMA FaultsBounded ==
    ASSUME faults \in 0..MaxFaults, Fault \/ UNCHANGED faults
    PROVE  faults' \in 0..MaxFaults
  BY BoundsAssumption DEF Fault

\* A step that is left, passed, or failed beside the flow.
LEMMA StepTaken ==
    ASSUME IInv, NEW s, Runs(s), s \notin {"verify", "timezone", "timezone-save"},
           \/ Leaves(s) \/ FailsLoose(s)
           \/ Passes(s) /\ DoneOn(inst', {s}),
           MachineOn(inst'), DoneOn(inst', run.skip \union run.done),
           FlowOn(inst', run'), Fault \/ UNCHANGED faults
    PROVE  IInv'
  <1>1. RunInv'
    BY GoingOn DEF IInv
  <1>2. faults' \in 0..MaxFaults
    BY FaultsBounded DEF IInv
  <1>3. /\ run'.said = run.said /\ run'.skip = run.skip
        /\ run'.done \subseteq run.done \union {s}
        /\ run'.done # run.done => DoneOn(inst', {s})
    BY DEF IInv, RunInv, Processes, Leaves, Passes, FailsLoose
  <1>4. DoneInv'
    <2>1. CASE run'.done = run.done
      BY <1>3, <2>1 DEF DoneInv
    <2>2. CASE run'.done # run.done
      BY <1>3, <2>2 DEF DoneInv, DoneOn
    <2> QED BY <2>1, <2>2
  <1>5. SaidInv'
    BY <1>3 DEF IInv, SaidInv, Runs
  <1> QED BY <1>1, <1>2, <1>4, <1>5 DEF IInv, MachineInv

\* A step that fails, or is left with an answer other than success.
LEMMA StepFailed ==
    ASSUME IInv, run.phase # "ended",
           Fails \/ \E what \in {"aborted", "cancelled", "almost"} : Says(what),
           MachineOn(inst'), DoneOn(inst', run.skip \union run.done),
           Keeps(inst, inst'), Fault \/ UNCHANGED faults
    PROVE  IInv'
  <1>1. RunInv'
    BY Stopping DEF IInv
  <1>2. faults' \in 0..MaxFaults
    BY FaultsBounded DEF IInv
  <1>3. /\ run'.skip = run.skip /\ run'.done = run.done /\ run'.step = run.step
        /\ run'.choice = run.choice /\ run'.loose = run.loose
        /\ run'.said \notin {"set", "ready"}
    <2>1. run \in Processes /\ run.said \notin {"set", "ready"}
      BY DEF IInv, RunInv, SaidInv
    <2>2. CASE Fails
      BY <2>1, <2>2 DEF Processes, Fails
    <2>3. CASE \E what \in {"aborted", "cancelled", "almost"} : Says(what)
      BY <2>1, <2>3 DEF Processes, Says
    <2> QED BY <2>2, <2>3
  <1>4. DoneInv' /\ FlowOn(inst, run)' /\ SaidInv'
    BY <1>3, FlowWaits DEF IInv, DoneInv, SaidInv
  <1> QED BY <1>1, <1>2, <1>4 DEF IInv, MachineInv

\* The machine is left as it is.
LEMMA MachineLeft ==
    ASSUME IInv, UNCHANGED inst
    PROVE  /\ MachineOn(inst') /\ DoneOn(inst', run.skip \union run.done)
           /\ Keeps(inst, inst')
  BY DEF IInv, MachineInv, DoneInv, Keeps

\* A step that turns nothing in a flow, on a machine that keeps what it had.
LEMMA PlainStep ==
    ASSUME IInv, NEW s, Runs(s),
           s \notin Turning \union {"verify", "timezone", "timezone-save"},
           \/ Leaves(s) \/ FailsLoose(s)
           \/ Passes(s) /\ DoneOn(inst', {s}),
           MachineOn(inst'), DoneOn(inst', run.skip \union run.done),
           Keeps(inst, inst'), Fault \/ UNCHANGED faults
    PROVE  IInv'
  <1>1. FlowOn(inst, run)'
    BY FlowGoesOn DEF IInv
  <1> QED BY <1>1, StepTaken

\* The driver's own steps come before an app is chosen.
LEMMA NothingChosen ==
    ASSUME RunInv, run.step \in DriverSteps \ {"verify"}
    PROVE  run.choice = NoChannel
  <1>1. \A c \in AllChannels : (DriverSteps \ {"verify"}) \intersect Range(Flow[c]) = {}
    BY DriverStepsByName, FlowStepsByName DEF AllChannels
  <1>2. run.choice \in AllChannels \union {NoChannel}
    BY ChannelsAssumption DEF RunInv, Processes
  <1> QED BY <1>1, <1>2 DEF RunInv

-----------------------------------------------------------------------------
(* The driver's steps.                                                     *)

\* A step whose result is one that the skip list is about.
LEMMA DriverResults ==
    ASSUME IInv, \/ Environment \/ AuthKnown \/ FirstChat
                 \/ Onecli \/ AuthSubscription \/ AuthPaste \/ Mounts \/ CliAgent
    PROVE  IInv'
  <1>2. inst \in Machine /\ MachineOn(inst) /\ DoneOn(inst, run.skip \union run.done)
    BY DEF IInv, MachineInv, MachineOn, DoneInv
  <1>3. CASE Environment
    BY <1>3, MachineLeft, PlainStep DEF Environment, Turning, LastRestart, DoneOn
  <1>4. CASE AuthKnown
    BY <1>4, MachineLeft, PlainStep DEF AuthKnown, Turning, LastRestart, DoneOn
  <1>5. CASE FirstChat
    BY <1>5, MachineLeft, PlainStep DEF FirstChat, Turning, LastRestart
  <1>6. CASE Onecli
    <2>1. /\ inst' = [inst EXCEPT !.url = TRUE]
          /\ Runs("onecli") /\ Passes("onecli") /\ UNCHANGED faults
      BY <1>6 DEF Onecli
    <2>2. MachineOn(inst')
      BY <1>2, <2>1 DEF MachineOn, Machine, HasAuth
    <2>3. DoneOn(inst', run.skip \union run.done) /\ DoneOn(inst', {"onecli"})
      BY <1>2, <2>1 DEF Machine, DoneOn
    <2>4. Keeps(inst, inst')
      BY <1>2, <2>1 DEF Machine, Keeps
    <2> QED BY <2>1, <2>2, <2>3, <2>4, PlainStep DEF Turning, LastRestart
  <1>7. CASE AuthSubscription
    <2>1. /\ inst' = [inst EXCEPT !.secret = "valid"]
          /\ Runs("auth") /\ Leaves("auth") /\ UNCHANGED faults
      BY <1>7 DEF AuthSubscription
    <2>2. MachineOn(inst')
      BY <1>2, <2>1 DEF MachineOn, Machine, HasAuth
    <2>3. DoneOn(inst', run.skip \union run.done)
      BY <1>2, <2>1 DEF Machine, DoneOn
    <2>4. Keeps(inst, inst')
      BY <1>2, <2>1 DEF Machine, Keeps
    <2> QED BY <2>1, <2>2, <2>3, <2>4, PlainStep DEF Turning, LastRestart
  <1>8. CASE AuthPaste
    <2>1. PICK v \in {"valid", "invalid"} : inst' = [inst EXCEPT !.secret = v]
      BY <1>8 DEF AuthPaste
    <2>2. Runs("auth") /\ Passes("auth") /\ (Fault \/ UNCHANGED faults)
      BY <1>8 DEF AuthPaste
    <2>3. MachineOn(inst')
      BY <1>2, <2>1 DEF MachineOn, Machine, HasAuth
    <2>4. DoneOn(inst', run.skip \union run.done) /\ DoneOn(inst', {"auth"})
      BY <1>2, <2>1 DEF Machine, DoneOn
    <2>5. Keeps(inst, inst')
      BY <1>2, <2>1 DEF Machine, Keeps
    <2> QED BY <2>2, <2>3, <2>4, <2>5, PlainStep DEF Turning, LastRestart
  <1>9. CASE Mounts
    <2>1. /\ inst' = [inst EXCEPT !.rules = TRUE]
          /\ Runs("mounts") /\ Passes("mounts") /\ UNCHANGED faults
      BY <1>9 DEF Mounts
    <2>2. MachineOn(inst')
      BY <1>2, <2>1 DEF MachineOn, Machine, HasAuth
    <2>3. DoneOn(inst', run.skip \union run.done) /\ DoneOn(inst', {"mounts"})
      BY <1>2, <2>1 DEF Machine, DoneOn
    <2>4. Keeps(inst, inst')
      BY <1>2, <2>1 DEF Machine, Keeps
    <2> QED BY <2>1, <2>2, <2>3, <2>4, PlainStep DEF Turning, LastRestart
  <1>10. CASE CliAgent
    <2>1. /\ inst' = [inst EXCEPT !.cli = TRUE]
          /\ Runs("cli-agent") /\ Passes("cli-agent") /\ UNCHANGED faults
      BY <1>10 DEF CliAgent
    <2>2. MachineOn(inst')
      BY <1>2, <2>1 DEF MachineOn, Machine, HasAuth
    <2>3. DoneOn(inst', run.skip \union run.done) /\ DoneOn(inst', {"cli-agent"})
      BY <1>2, <2>1 DEF Machine, DoneOn
    <2>4. Keeps(inst, inst')
      BY <1>2, <2>1 DEF Machine, Keeps
    <2> QED BY <2>1, <2>2, <2>3, <2>4, PlainStep DEF Turning, LastRestart
  <1> QED BY <1>3, <1>4, <1>5, <1>6, <1>7, <1>8, <1>9, <1>10

\* The image is built, by this process or by the one that starts under sg.
LEMMA ContainerInv ==
    ASSUME IInv, Container
    PROVE  IInv'
  <1>1. inst \in Machine /\ MachineOn(inst) /\ DoneOn(inst, run.skip \union run.done)
    BY DEF IInv, MachineInv, MachineOn, DoneInv
  <1>2. PICK d \in {"none", "stopped", "denied", "ok"} :
          DockerUp(inst) = [inst EXCEPT !.docker = d]
    BY <1>1 DEF DockerUp, Machine
  <1>3. inst' = [inst EXCEPT !.docker = d, !.image = TRUE]
    BY <1>1, <1>2 DEF Container, Machine
  <1>4. MachineOn(inst')
    BY <1>1, <1>3 DEF MachineOn, Machine, HasAuth
  <1>5. DoneOn(inst', run.skip \union run.done) /\ DoneOn(inst', {"container"})
    BY <1>1, <1>3 DEF Machine, DoneOn
  <1>6. Keeps(inst, inst')
    BY <1>1, <1>3 DEF Machine, Keeps
  <1>7. CASE Passes("container")
    BY <1>4, <1>5, <1>6, <1>7, PlainStep DEF Container, Turning, LastRestart
  <1>8. CASE run' = Fresh(run.skip, TRUE)
    <2>1. run.skip \in SUBSET StepNames /\ "verify" \notin run.skip
      BY DEF IInv, RunInv, Processes
    <2>2. PICK f : f = Fresh(run.skip, TRUE)
      OBVIOUS
    <2>3. /\ f \in Processes /\ f.step \in DriverSteps \ {"timezone-save"}
          /\ f.skip = run.skip /\ f.done = {}
          /\ f.choice = NoChannel /\ ~f.owed /\ f.said = "nothing"
      BY <2>1, <2>2, FreshFields
    <2>4. DoneOn(inst', run.skip)
      BY <1>5 DEF DoneOn
    <2> QED BY <1>4, <1>8, <2>1, <2>2, <2>3, <2>4, Starting DEF Container, IInv
  <1> QED BY <1>7, <1>8 DEF Container

\* The service is built, installed alone and restarted.
LEMMA ServiceInv ==
    ASSUME IInv, Service
    PROVE  IInv'
  <1>1. inst \in Machine /\ MachineOn(inst) /\ DoneOn(inst, run.skip \union run.done)
    BY DEF IInv, MachineInv, MachineOn, DoneInv
  <1>2. PICK acl \in BOOLEAN, peer \in {"none", inst.peer} :
          inst' = Restarted([Rebuilt(inst) EXCEPT
                    !.peer = peer, !.unit = inst.managed, !.acl = @ \/ (acl /\ inst.managed)])
    BY DEF Service
  <1>3. PICK r : r = Rebuilt(inst)
    OBVIOUS
  <1>4. MachineOn(r) /\ r \in Machine /\ r.managed = inst.managed /\ r.unit = inst.unit
    BY <1>1, <1>3 DEF MachineOn, Machine, HasAuth, Rebuilt
  <1>5. DoneOn(r, run.skip \union run.done)
    BY <1>1, <1>3 DEF Machine, Rebuilt, DoneOn
  <1>6. PICK a \in BOOLEAN : a = (r.acl \/ (acl /\ r.managed))
    BY <1>4 DEF Machine
  <1>7. PICK m : m = [r EXCEPT !.peer = peer, !.unit = r.managed, !.acl = a]
    OBVIOUS
  <1>8. inst' = Restarted(m)
    BY <1>2, <1>3, <1>4, <1>6, <1>7 DEF Machine
  <1>9. MachineOn(m) /\ m \in Machine
    <2>1. peer \in {"none", "looping"}
      BY <1>1 DEF Machine
    <2> QED BY <1>4, <1>7, <2>1 DEF MachineOn, Machine, HasAuth
  <1>10. DoneOn(m, run.skip \union run.done) /\ DoneOn(m, {"service"})
    BY <1>4, <1>5, <1>7 DEF Machine, DoneOn
  <1>11. /\ MachineOn(inst') /\ DoneOn(inst', run.skip \union run.done)
         /\ DoneOn(inst', {"service"})
    BY <1>8, <1>9, <1>10, RestartedMachine, DoneUnderRestart
  <1>12. run'.choice = NoChannel
    <2>1. run.choice = NoChannel
      BY NothingChosen, DriverStepsByName DEF Service, Runs, IInv
    <2> QED BY <2>1 DEF Service, Passes, IInv, RunInv, Processes
  <1>13. FlowOn(inst', run')
    BY <1>12, ChannelsAssumption, NoFlow DEF Wirable, AllChannels
  <1>14. Fault \/ UNCHANGED faults
    BY DEF Service
  <1> QED BY <1>11, <1>13, <1>14, StepTaken DEF Service

\* The zone is on the machine before another one may be owed.
LEMMA TimezoneInv ==
    ASSUME IInv, Timezone \/ TimezoneSave
    PROVE  IInv'
  <1>1. inst \in Machine /\ MachineOn(inst) /\ DoneOn(inst, run.skip \union run.done)
    BY DEF IInv, MachineInv, MachineOn, DoneInv
  <1>2. run \in Processes /\ run.choice = NoChannel
    BY NothingChosen, DriverStepsByName DEF Timezone, TimezoneSave, Runs, IInv, RunInv
  <1>3. MachineOn(inst') /\ DoneOn(inst', run.skip \union run.done \union {"timezone"})
    <2>1. CASE Timezone
      <3>1. inst' = [inst EXCEPT !.zone = TRUE]
        BY <2>1 DEF Timezone
      <3>2. MachineOn(inst')
        BY <1>1, <3>1 DEF MachineOn, Machine, HasAuth
      <3> QED BY <1>1, <3>1, <3>2 DEF Machine, DoneOn
    <2>2. CASE TimezoneSave
      <3>1. inst' = inst /\ run.step = "timezone-save"
        BY <2>2 DEF TimezoneSave, Runs
      <3>2. "timezone" \in run.done
        BY <3>1 DEF IInv, RunInv
      <3> QED BY <1>1, <3>1, <3>2 DEF DoneOn
    <2> QED BY <2>1, <2>2
  <1>4. /\ run' \in Processes /\ run'.choice = NoChannel
        /\ run'.step \in {"timezone-save", "channel"} /\ run'.skip = run.skip
        /\ run'.done = run.done \union {"timezone"} /\ run'.said = run.said
        /\ run'.owed => run'.step = "timezone-save"
    <2>1. {"timezone", "timezone-save", "channel"} \subseteq StepNames
      BY DriverStepsByName DEF StepNames
    <2>2. CASE Timezone
      <3>1. PICK owed \in BOOLEAN :
              run' = [run EXCEPT !.step = IF owed THEN "timezone-save" ELSE "channel",
                                 !.done = @ \union {"timezone"}, !.owed = owed]
        BY <2>2 DEF Timezone
      <3>2. PICK x \in {"timezone-save", "channel"} :
              x = IF owed THEN "timezone-save" ELSE "channel"
        OBVIOUS
      <3>3. run' = [run EXCEPT !.step = x, !.done = @ \union {"timezone"}, !.owed = owed]
        BY <3>1, <3>2
      <3> QED BY <1>2, <2>1, <3>2, <3>3 DEF Processes
    <2>3. CASE TimezoneSave
      BY <1>2, <2>1, <2>3 DEF TimezoneSave, Processes
    <2> QED BY <2>2, <2>3
  <1>5. RunInv'
    BY <1>4, DriverStepsByName DEF IInv, RunInv
  <1>6. DoneInv'
    BY <1>3, <1>4 DEF DoneInv, DoneOn
  <1>7. FlowOn(inst, run)'
    BY <1>4, ChannelsAssumption DEF FlowOn, Wirable, AllChannels
  <1>8. SaidInv' /\ faults' \in 0..MaxFaults
    BY <1>4 DEF IInv, SaidInv, Timezone, TimezoneSave, Runs
  <1> QED BY <1>3, <1>5, <1>6, <1>7, <1>8 DEF IInv, MachineInv

\* Success is said when the assistant has answered, which is the end.
LEMMA VerifyInv ==
    ASSUME IInv, Verify
    PROVE  IInv'
  <1>1. run \in Processes /\ run.step = "verify" /\ run.phase = "running"
    BY DEF IInv, RunInv, Verify, Runs
  <1>2. PICK what \in {"ready", "set", "almost"} :
          /\ Says(what)
          /\ what # "almost" => Answering
          /\ what = "set" => run.choice \notin {NoChannel, "slack"}
    BY DEF Verify
  <1>3. UNCHANGED inst /\ (Fault \/ UNCHANGED faults)
    BY DEF Verify
  <1>4. CASE what = "almost"
    BY <1>1, <1>2, <1>3, <1>4, MachineLeft, StepFailed
  <1>5. CASE what # "almost"
    <2>1. RunInv' /\ faults' \in 0..MaxFaults
      BY <1>2, <1>3, Stopping, FaultsBounded DEF IInv
    <2>2. /\ run'.skip = run.skip /\ run'.done = run.done /\ run'.step = run.step
          /\ run'.choice = run.choice /\ run'.loose = run.loose /\ run'.owed = run.owed
          /\ run'.said = what /\ run'.phase = "ended"
      BY <1>1, <1>2 DEF Says, Processes
    <2>3. MachineInv' /\ DoneInv' /\ FlowOn(inst, run)'
      BY <1>3, <2>2 DEF IInv, MachineInv, DoneInv, FlowOn
    <2>4. Answering'
      BY <1>2, <1>3, <1>5 DEF Answering
    <2>5. ASSUME what = "set", ~run.loose, run.choice # "teams"
          PROVE  /\ run.choice \in inst.wired
                 /\ run.choice \in inst.live \/ inst.adapter[run.choice] # "built"
      <3>1. run.choice \in Wirable
        BY <1>1, <1>2, <2>5, ChannelsAssumption DEF Processes, Wirable, AllChannels
      <3>2. inst.service = "running"
        BY <1>2, <1>5 DEF Answering
      <3> QED BY <1>1, <2>5, <3>1, <3>2 DEF IInv, FlowOn, Late
    <2>6. SuccessIsTrue'
      BY <1>3, <2>2, <2>4, <2>5 DEF SuccessIsTrue
    <2>7. "timezone" \notin run.skip => ~run.owed
      BY <1>1 DEF IInv, RunInv
    <2>8. SaidInv'
      BY <1>1, <2>2, <2>6, <2>7 DEF SaidInv
    <2> QED BY <2>1, <2>3, <2>8 DEF IInv
  <1> QED BY <1>4, <1>5

\* A driver's step that fails leaves the machine as it was, or with docker up.
LEMMA DriverFailsInv ==
    ASSUME IInv, DriverFails
    PROVE  IInv'
  <1>1. inst \in Machine /\ MachineOn(inst) /\ DoneOn(inst, run.skip \union run.done)
    BY DEF IInv, MachineInv, MachineOn, DoneInv
  <1>2. /\ run.phase = "running" /\ Fails /\ (Fault \/ UNCHANGED faults)
        /\ inst' = inst \/ inst' = DockerUp(inst)
    BY DEF DriverFails, ContainerFails, OnecliFails, AuthFails, MountsFails, ServiceFails,
           CliAgentFails, TimezoneFails, Runs
  <1>3. CASE inst' = inst
    BY <1>2, <1>3, MachineLeft, StepFailed
  <1>4. CASE inst' = DockerUp(inst)
    <2>1. PICK d \in {"none", "stopped", "denied", "ok"} : inst' = [inst EXCEPT !.docker = d]
      BY <1>1, <1>4 DEF DockerUp, Machine
    <2>2. MachineOn(inst')
      BY <1>1, <2>1 DEF MachineOn, Machine, HasAuth
    <2>3. DoneOn(inst', run.skip \union run.done)
      BY <1>1, <2>1 DEF Machine, DoneOn
    <2>4. Keeps(inst, inst')
      BY <1>1, <2>1 DEF Machine, Keeps
    <2> QED BY <1>2, <2>2, <2>3, <2>4, StepFailed
  <1> QED BY <1>2, <1>3, <1>4

\* What the driver does.
LEMMA DriverInv ==
    ASSUME IInv, Driver
    PROVE  IInv'
  BY DriverResults, ContainerInv, ServiceInv, TimezoneInv, VerifyInv DEF Driver

\* The service stops, with all of its adapters.
LEMMA ServiceStopsInv ==
    ASSUME IInv, ServiceStops
    PROVE  IInv'
  <1>1. inst \in Machine /\ MachineOn(inst) /\ DoneOn(inst, run.skip \union run.done)
    BY DEF IInv, MachineInv, MachineOn, DoneInv
  <1>2. inst' = [inst EXCEPT !.service = "stopped", !.live = {}] /\ UNCHANGED run
    BY DEF ServiceStops
  <1>3. MachineOn(inst')
    BY <1>1, <1>2 DEF MachineOn, Machine, HasAuth
  <1>4. DoneInv'
    BY <1>1, <1>2 DEF Machine, DoneInv, DoneOn
  <1>5. Keeps(inst, inst')
    BY <1>1, <1>2 DEF Machine, Keeps
  <1>6. RunInv' /\ FlowOn(inst, run)'
    BY <1>2, <1>5, FlowWaits DEF IInv, RunInv
  <1>7. SaidInv' /\ faults' \in 0..MaxFaults
    BY <1>2, FaultsBounded DEF IInv, SaidInv, ServiceStops
  <1> QED BY <1>3, <1>4, <1>6, <1>7 DEF IInv, MachineInv

-----------------------------------------------------------------------------
(* What becomes of processes.                                              *)

\* A child process skips what its parent has completed or was told to skip.
LEMMA RetryInv ==
    ASSUME IInv, Retry
    PROVE  IInv'
  <1>1. /\ run \in Processes /\ run.sg \in BOOLEAN
        /\ run.skip \union run.done \in SUBSET StepNames
        /\ "verify" \notin run.skip \union run.done
    BY DEF IInv, RunInv, Processes
  <1>2. PICK f : f = Fresh(run.skip \union run.done, run.sg)
    OBVIOUS
  <1>3. /\ f \in Processes /\ f.step \in DriverSteps \ {"timezone-save"}
        /\ f.skip = run.skip \union run.done /\ f.done = {}
        /\ f.choice = NoChannel /\ f.said = "nothing"
    BY <1>1, <1>2, FreshFields
  <1>4. run' = [f EXCEPT !.owed = run.owed]
    BY <1>2 DEF Retry
  <1>5. /\ run' \in Processes /\ run'.step \in DriverSteps \ {"timezone-save"}
        /\ run'.skip = run.skip \union run.done /\ run'.done = {}
        /\ run'.choice = NoChannel /\ run'.said = "nothing" /\ run'.owed = run.owed
    BY <1>1, <1>3, <1>4 DEF Processes
  <1>6. run.owed => "timezone" \in run.skip \union run.done
    BY DEF IInv, RunInv
  <1>7. MachineOn(inst') /\ DoneOn(inst', run'.skip) /\ faults' \in 0..MaxFaults
    BY <1>5 DEF Retry, IInv, MachineInv, DoneInv
  <1> QED BY <1>1, <1>5, <1>6, <1>7, Starting

\* The operator starts over on the machine that is there.
LEMMA RerunInv ==
    ASSUME IInv, Rerun
    PROVE  IInv'
  <1>1. PICK skip \in SUBSET StepNames : skip = {}
    OBVIOUS
  <1>2. /\ run' \in Processes /\ run'.step \in DriverSteps \ {"timezone-save"}
        /\ run'.skip = {} /\ run'.done = {} /\ run'.choice = NoChannel
        /\ run'.said = "nothing" /\ ~run'.owed
    BY <1>1, FreshFields DEF Rerun
  <1>3. MachineOn(inst') /\ DoneOn(inst', {}) /\ faults' \in 0..MaxFaults
    BY DEF Rerun, IInv, MachineInv, DoneOn
  <1> QED BY <1>2, <1>3, Starting

\* A process ends or another one takes its place.
LEMMA ProcessInv ==
    ASSUME IInv, Abort \/ Retry \/ Rerun \/ Cancel
    PROVE  IInv'
  <1>1. CASE Abort
    BY <1>1, MachineLeft, StepFailed DEF Abort, Waiting
  <1>2. CASE Cancel
    BY <1>2, MachineLeft, StepFailed DEF Cancel
  <1> QED BY <1>1, <1>2, RetryInv, RerunInv

\* An app is chosen, or none.
LEMMA ChooseInv ==
    ASSUME IInv, NEW c \in Channels \union {NoChannel}, ChooseChannel(c)
    PROVE  IInv'
  <1>1. run \in Processes /\ run.choice = NoChannel /\ run.step = "channel"
    BY NothingChosen, DriverStepsByName DEF ChooseChannel, Runs, IInv, RunInv
  <1>2. PICK x : x = IF c = NoChannel THEN Following("channel") ELSE Flow[c][1]
    OBVIOUS
  <1>3. /\ c = NoChannel => x \in DriverSteps
        /\ c # NoChannel => x \in Range(Flow[c])
        /\ x \in StepNames \ {"timezone-save"}
    <2>1. CASE c = NoChannel
      BY <1>1, <1>2, <2>1, GoesOn DEF IInv
    <2>2. CASE c # NoChannel
      <3>1. c \in AllChannels
        BY <2>2, ChannelsAssumption
      <3>2. x \in Range(Flow[c])
        BY <1>2, <2>2, <3>1, FlowIsOrder DEF Range
      <3>3. "timezone-save" \notin Range(Flow[c])
        BY <3>1, FlowStepsByName DEF AllChannels
      <3> QED BY <2>2, <3>1, <3>2, <3>3 DEF StepNames
    <2> QED BY <2>1, <2>2
  <1>4. /\ run' \in Processes /\ run'.choice = c /\ run'.step = x
        /\ run'.skip = run.skip /\ run'.done = run.done /\ run'.owed = run.owed
        /\ run'.said = run.said
    BY <1>1, <1>2, <1>3 DEF ChooseChannel, Processes
  <1>5. RunInv'
    BY <1>1, <1>3, <1>4 DEF IInv, RunInv
  <1>6. FlowOn(inst, run)'
    <2> SUFFICES ASSUME c \in Wirable
                 PROVE  x \notin Late \union {"signal-restart", "whatsapp-restart"}
      BY <1>4 DEF FlowOn, Late
    <2>1. c # NoChannel /\ c \in AllChannels
      BY ChannelsAssumption DEF Wirable, AllChannels
    <2>2. x = Flow[c][1]
      BY <1>2, <2>1
    <2>3. x \in {"telegram-token", "discord-token", "whatsapp-method", "signal-cli",
                 "imessage-mode"}
      BY <2>2 DEF Wirable, Flow, AllChannels, TelegramFlow, DiscordFlow, WhatsAppFlow,
                  SignalFlow, IMessageFlow
    <2> QED BY <2>3 DEF Late
  <1>7. DoneInv' /\ SaidInv' /\ MachineInv' /\ faults' \in 0..MaxFaults
    BY <1>1, <1>4 DEF IInv, DoneInv, SaidInv, MachineInv, ChooseChannel, Runs
  <1> QED BY <1>5, <1>6, <1>7 DEF IInv

-----------------------------------------------------------------------------
(* The flows.                                                              *)

\* Steps nothing is ever skipped for.
LEMMA NoResult ==
    ASSUME NEW i, NEW s,
           s \notin {"container", "onecli", "auth", "mounts", "service", "cli-agent", "timezone"}
    PROVE  DoneOn(i, {s})
  BY DEF DoneOn

\* A flow's own steps are only run when its app was chosen.
LEMMA Chosen ==
    ASSUME RunInv, NEW c \in AllChannels,
           run.step \in Range(Flow[c]) \ {"init-first-agent"}
    PROVE  run.choice = c /\ c \in Channels
  <1>1. \A d \in AllChannels \ {c} : run.step \notin Range(Flow[d])
    BY FlowStepsByName DEF AllChannels
  <1>2. run.step \notin DriverSteps
    BY DriverStepsByName, FlowStepsByName DEF AllChannels
  <1>3. run.step # "verify"
    BY <1>2, DriverStepsByName
  <1>4. run.choice \in Channels \union {NoChannel} /\ Channels \subseteq AllChannels
    BY ChannelsAssumption DEF RunInv, Processes
  <1> QED BY <1>1, <1>2, <1>3, <1>4 DEF RunInv

\* The last common step of the flows is run for an app that gets wired.
LEMMA ChosenForAgent ==
    ASSUME RunInv, run.step = "init-first-agent"
    PROVE  run.choice \in Wirable /\ run.choice \in Channels /\ run.choice # NoChannel
  <1>1. "init-first-agent" \notin DriverSteps
    BY DriverStepsByName
  <1>2. run.choice \in Channels /\ run.choice # NoChannel /\ Channels \subseteq AllChannels
    BY <1>1, ChannelsAssumption DEF RunInv, Processes
  <1>3. "init-first-agent" \in Range(Flow[run.choice])
    BY <1>2 DEF RunInv
  <1>4. run.choice # "slack" /\ run.choice # "teams"
    BY <1>3, FlowStepsByName
  <1> QED BY <1>2, <1>4 DEF AllChannels, Wirable

\* Prompts and checks, which change nothing on the machine.
PromptSteps ==
  {"telegram-token", "telegram-validate", "discord-token", "discord-validate",
   "discord-app-info", "discord-invite", "discord-open-dm", "slack-app", "slack-validate",
   "imessage-mode", "teams-azure", "teams-bot", "teams-manifest", "teams-sideload",
   "teams-finish", "whatsapp-method", "signal-cli"}

\* A prompt that is answered, a check that is made.
LEMMA AnsweredInv ==
    ASSUME IInv, NEW s \in PromptSteps, Answers(s) \/ Checks(s)
    PROVE  IInv'
  <1>1. /\ Runs(s) /\ UNCHANGED inst /\ (Fault \/ UNCHANGED faults)
        /\ Leaves(s) \/ Passes(s) \/ Fails
    BY DEF Answers, Checks
  <1>2. /\ MachineOn(inst') /\ DoneOn(inst', run.skip \union run.done) /\ Keeps(inst, inst')
    BY <1>1, MachineLeft
  <1>3. CASE Fails
    BY <1>1, <1>2, <1>3, StepFailed DEF Runs
  <1>4. CASE Leaves(s) \/ Passes(s)
    <2>1. s \notin Turning \union {"verify", "timezone", "timezone-save"}
      BY DEF PromptSteps, Turning, LastRestart
    <2>2. DoneOn(inst', {s})
      BY NoResult DEF PromptSteps
    <2> QED BY <1>1, <1>2, <1>4, <2>1, <2>2, PlainStep
  <1> QED BY <1>1, <1>3, <1>4

\* All of the prompts and checks.
LEMMA PromptsInv ==
    ASSUME IInv,
           \/ TelegramToken \/ TelegramValidate
           \/ DiscordToken \/ DiscordValidate \/ DiscordAppInfo \/ DiscordInvite \/ DiscordOpenDm
           \/ SlackApp \/ SlackValidate \/ IMessageMode
           \/ TeamsAzure \/ TeamsBot \/ TeamsManifest \/ TeamsSideload \/ TeamsFinish
           \/ WhatsAppMethod \/ SignalCli
    PROVE  IInv'
  <1>1. PICK s \in PromptSteps : Answers(s) \/ Checks(s)
    BY DEF PromptSteps, TelegramToken, TelegramValidate, DiscordToken, DiscordValidate,
           DiscordAppInfo, DiscordInvite, DiscordOpenDm, SlackApp, SlackValidate,
           IMessageMode, TeamsAzure, TeamsBot, TeamsManifest, Checks, TeamsSideload,
           TeamsFinish, WhatsAppMethod, SignalCli
  <1> QED BY <1>1, AnsweredInv

\* What an install leaves: the adapter in the build, and all else as it was.
LEMMA InstalledMachine ==
    ASSUME IInv, NEW c \in AllChannels
    PROVE  /\ MachineOn(Installed(c)) /\ Installed(c) \in Machine
           /\ DoneOn(Installed(c), run.skip \union run.done)
           /\ Installed(c).creds = inst.creds
  <1>1. inst \in Machine /\ MachineOn(inst) /\ DoneOn(inst, run.skip \union run.done)
    BY DEF IInv, MachineInv, MachineOn, DoneInv
  <1>2. CASE inst.adapter[c] = "none"
    <2>1. PICK m : m = [inst EXCEPT !.adapter[c] = "unbuilt"]
      OBVIOUS
    <2>2. m \in Machine /\ MachineOn(m) /\ m.creds = inst.creds
      BY <1>1, <1>2, <2>1 DEF MachineOn, Machine, HasAuth
    <2>3. DoneOn(m, run.skip \union run.done)
      BY <1>1, <2>1 DEF Machine, DoneOn
    <2>4. PICK r : r = Rebuilt(m)
      OBVIOUS
    <2>5. r \in Machine /\ MachineOn(r) /\ r.creds = inst.creds
      BY <2>2, <2>4 DEF MachineOn, Machine, HasAuth, Rebuilt
    <2>6. DoneOn(r, run.skip \union run.done)
      BY <2>2, <2>3, <2>4 DEF Machine, Rebuilt, DoneOn
    <2>7. Installed(c) = r
      BY <1>2, <2>1, <2>4 DEF Installed
    <2> QED BY <2>5, <2>6, <2>7
  <1>3. CASE inst.adapter[c] # "none"
    BY <1>1, <1>3 DEF Installed
  <1> QED BY <1>2, <1>3

\* An adapter with a token or a mode: installed, its credentials saved, the
\* service restarted.
LEMMA InstallInv ==
    ASSUME IInv, (\E c \in TokenChannels : InstallToken(c)) \/ IMessageInstall
    PROVE  IInv'
  <1>1. PICK c \in TokenChannels \union {"imessage"}, e \in BOOLEAN :
          /\ Runs(InstallStep[c]) /\ Passes(InstallStep[c]) /\ UNCHANGED faults
          /\ inst' = Restarted([Installed(c) EXCEPT !.creds = @ \union {c}, !.enabled = e])
    <2>1. CASE \E c \in TokenChannels : InstallToken(c)
      <3>1. PICK c \in TokenChannels : InstallToken(c)
        BY <2>1
      <3>2. PICK m : m = Installed(c)
        OBVIOUS
      <3>3. c \in AllChannels
        BY DEF TokenChannels, AllChannels
      <3>4. m \in Machine
        BY <3>2, <3>3, InstalledMachine
      <3>5. [m EXCEPT !.creds = @ \union {c}] =
              [m EXCEPT !.creds = @ \union {c}, !.enabled = m.enabled]
        BY <3>4 DEF Machine
      <3>6. m.enabled \in BOOLEAN
        BY <3>4 DEF Machine
      <3> QED BY <3>1, <3>2, <3>5, <3>6 DEF InstallToken
    <2>2. CASE IMessageInstall
      BY <2>2 DEF IMessageInstall, InstallStep, AllChannels
    <2> QED BY <2>1, <2>2
  <1>2. c \in AllChannels /\ c # "whatsapp"
    BY DEF TokenChannels, AllChannels
  <1>3. PICK s : s = InstallStep[c]
    OBVIOUS
  <1>4. /\ s \in {"telegram-install", "discord-install", "slack-install", "teams-install",
                  "imessage-install"}
        /\ c \in Wirable => s \in LastRestart
        /\ s \in Range(Flow[c])
    BY <1>3, FlowStepsByName DEF InstallStep, TokenChannels, AllChannels, Wirable, LastRestart
  <1>5. run.choice = c /\ c \in Channels
    BY <1>1, <1>2, <1>3, <1>4, Chosen DEF Runs, IInv
  <1>6. PICK b : b = Installed(c)
    OBVIOUS
  <1>7. b \in Machine /\ MachineOn(b) /\ DoneOn(b, run.skip \union run.done)
    BY <1>2, <1>6, InstalledMachine
  <1>8. PICK m : m = [b EXCEPT !.creds = @ \union {c}, !.enabled = e]
    OBVIOUS
  <1>9. m \in Machine /\ MachineOn(m) /\ HasAuth(m, c)
    BY <1>2, <1>5, <1>7, <1>8 DEF MachineOn, Machine, HasAuth
  <1>10. DoneOn(m, run.skip \union run.done)
    BY <1>7, <1>8 DEF Machine, DoneOn
  <1>11. inst' = Restarted(m)
    BY <1>1, <1>6, <1>8
  <1>12. MachineOn(inst') /\ DoneOn(inst', run.skip \union run.done)
    BY <1>9, <1>10, <1>11, RestartedMachine, DoneUnderRestart
  <1>13. FlowOn(inst', run')
    <2>1. CASE c \in Wirable
      BY <1>1, <1>3, <1>4, <1>5, <1>9, <1>11, <2>1, FlowRestarts DEF IInv
    <2>2. CASE c \notin Wirable
      <3>1. run'.choice = c
        BY <1>1, <1>5 DEF Passes, IInv, RunInv, Processes
      <3> QED BY <2>2, <3>1, NoFlow
    <2> QED BY <2>1, <2>2
  <1>14. DoneOn(inst', {s})
    BY <1>4, NoResult
  <1> QED BY <1>1, <1>3, <1>4, <1>12, <1>13, <1>14, StepTaken

\* A chat is wired for the app that was chosen.
LEMMA InitFirstAgentInv ==
    ASSUME IInv, InitFirstAgent \/ InitFirstAgentFails
    PROVE  IInv'
  <1>1. inst \in Machine /\ MachineOn(inst) /\ DoneOn(inst, run.skip \union run.done)
    BY DEF IInv, MachineInv, MachineOn, DoneInv
  <1>2. /\ Runs("init-first-agent")
        /\ Wires \/ UNCHANGED inst
        /\ Fault \/ UNCHANGED faults
        /\ \/ Passes("init-first-agent") /\ Wires
           \/ FailsLoose("init-first-agent") \/ Fails
    BY DEF InitFirstAgent, InitFirstAgentFails
  <1>3. run.choice \in Wirable /\ run.choice \in Channels /\ run.choice # NoChannel
    BY <1>2, ChosenForAgent DEF IInv, Runs
  <1>4. PICK c \in Wirable : c = run.choice /\ c \in Channels /\ c \in AllChannels
    BY <1>3, ChannelsAssumption
  <1>5. /\ MachineOn(inst') /\ DoneOn(inst', run.skip \union run.done)
        /\ Keeps(inst, inst') /\ (Wires => c \in inst'.wired)
    <2>1. CASE Wires
      <3>1. inst' = [inst EXCEPT !.wired = @ \union {c}]
        BY <1>4, <2>1 DEF Wires
      <3>2. MachineOn(inst')
        BY <1>1, <1>4, <3>1 DEF MachineOn, Machine, HasAuth
      <3>3. DoneOn(inst', run.skip \union run.done)
        BY <1>1, <3>1 DEF Machine, DoneOn
      <3>4. Keeps(inst, inst') /\ c \in inst'.wired
        BY <1>1, <3>1 DEF Machine, Keeps
      <3> QED BY <3>2, <3>3, <3>4
    <2>2. CASE ~Wires
      BY <1>2, <2>2, MachineLeft
    <2> QED BY <2>1, <2>2
  <1>6. DoneOn(inst', {"init-first-agent"})
    BY NoResult
  <1>7. CASE Passes("init-first-agent") /\ Wires
    <2>1. run'.step = Following("init-first-agent") /\ run'.choice = c /\ run'.loose = run.loose
      BY <1>4, <1>7 DEF Passes, IInv, RunInv, Processes
    <2>2. "init-first-agent" \in Range(Flow[c])
      BY <1>2, <1>3, <1>4 DEF IInv, RunInv, Runs
    <2>3. run'.step \notin {"signal-restart", "whatsapp-restart"}
      BY <1>4, <2>1, <2>2, LeadsTo
    <2>4. ~run.loose /\ inst.service = "running" /\ inst.adapter[c] = "built" => c \in inst.live
      BY <1>2, <1>4 DEF IInv, FlowOn, Late, Runs
    <2>5. FlowOn(inst', run')
      BY <1>4, <1>5, <1>7, <2>1, <2>3, <2>4 DEF FlowOn, Keeps
    <2> QED BY <1>2, <1>5, <1>6, <1>7, <2>5, StepTaken
  <1>8. CASE FailsLoose("init-first-agent")
    <2>1. FlowOn(inst', run')
      BY <1>8, FlowIsLoose DEF IInv
    <2> QED BY <1>2, <1>5, <1>8, <2>1, StepTaken
  <1>9. CASE Fails
    BY <1>2, <1>5, <1>9, StepFailed DEF Runs
  <1> QED BY <1>2, <1>7, <1>8, <1>9

\* Telegram's chat is paired.
LEMMA PairTelegramInv ==
    ASSUME IInv, PairTelegram \/ PairTelegramFails
    PROVE  IInv'
  <1>1. inst \in Machine /\ MachineOn(inst) /\ DoneOn(inst, run.skip \union run.done)
    BY DEF IInv, MachineInv, MachineOn, DoneInv
  <1>2. CASE PairTelegram
    <2>1. inst' = [inst EXCEPT !.linked["telegram"] = "yes"]
      BY <1>2 DEF PairTelegram
    <2>2. MachineOn(inst')
      BY <1>1, <2>1 DEF MachineOn, Machine, HasAuth
    <2>3. DoneOn(inst', run.skip \union run.done) /\ DoneOn(inst', {"pair-telegram"})
      BY <1>1, <2>1 DEF Machine, DoneOn
    <2>4. Keeps(inst, inst')
      BY <1>1, <2>1 DEF Machine, Keeps
    <2> QED BY <1>2, <2>2, <2>3, <2>4, PlainStep DEF PairTelegram, Turning, LastRestart
  <1>3. CASE PairTelegramFails
    BY <1>3, MachineLeft, StepFailed DEF PairTelegramFails, Runs
  <1> QED BY <1>2, <1>3

\* An install that fails has changed an adapter that was not there at most.
LEMMA HalfInstalledMachine ==
    ASSUME IInv, NEW c \in AllChannels, InstallFails(c)
    PROVE  /\ Runs(InstallStep[c]) /\ (Fault \/ UNCHANGED faults)
           /\ MachineOn(inst') /\ DoneOn(inst', run.skip \union run.done)
           /\ Keeps(inst, inst')
  <1>1. inst \in Machine /\ MachineOn(inst) /\ DoneOn(inst, run.skip \union run.done)
    BY DEF IInv, MachineInv, MachineOn, DoneInv
  <1>2. PICK a \in {"none", "listed", "unbuilt"} : inst' = [inst EXCEPT !.adapter[c] = a]
    BY DEF InstallFails, HalfInstalled
  <1>3. /\ Runs(InstallStep[c]) /\ (Fault \/ UNCHANGED faults)
        /\ inst.adapter[c] = "none"
    BY DEF InstallFails
  <1>4. MachineOn(inst')
    BY <1>1, <1>2, <1>3 DEF MachineOn, Machine, HasAuth
  <1>5. DoneOn(inst', run.skip \union run.done)
    BY <1>1, <1>2 DEF Machine, DoneOn
  <1>6. Keeps(inst, inst')
    BY <1>1, <1>2, <1>3 DEF Machine, Keeps
  <1> QED BY <1>3, <1>4, <1>5, <1>6

\* Installs that fail, and a manifest that is not made.
LEMMA InstallFailsInv ==
    ASSUME IInv,
           \/ \E c \in {"telegram", "discord", "slack", "imessage"} : InstallFails(c) /\ Fails
           \/ TeamsInstallFails \/ WhatsAppInstallFails \/ TeamsManifestFails
    PROVE  IInv'
  <1>1. CASE \E c \in {"telegram", "discord", "slack", "imessage"} : InstallFails(c) /\ Fails
    <2>1. PICK c \in AllChannels : InstallFails(c) /\ Fails
      BY <1>1 DEF AllChannels
    <2> QED BY <2>1, HalfInstalledMachine, StepFailed DEF Runs
  <1>2. CASE TeamsInstallFails \/ WhatsAppInstallFails
    <2>1. PICK c \in AllChannels :
            /\ InstallFails(c) /\ FailsLoose(InstallStep[c])
            /\ InstallStep[c] \in {"teams-install", "whatsapp-install"}
      <3>1. /\ "teams" \in AllChannels /\ InstallStep["teams"] = "teams-install"
            /\ "whatsapp" \in AllChannels /\ InstallStep["whatsapp"] = "whatsapp-install"
        BY DEF AllChannels, InstallStep
      <3> QED BY <1>2, <3>1 DEF TeamsInstallFails, WhatsAppInstallFails
    <2> QED BY <2>1, HalfInstalledMachine, PlainStep DEF Turning, LastRestart
  <1>3. CASE TeamsManifestFails
    BY <1>3, MachineLeft, StepFailed DEF TeamsManifestFails, Runs
  <1> QED BY <1>1, <1>2, <1>3

\* WhatsApp's adapter is installed, with the restart to come.
LEMMA WhatsAppInstallInv ==
    ASSUME IInv, WhatsAppInstall
    PROVE  IInv'
  <1>1. Runs("whatsapp-install") /\ Passes("whatsapp-install") /\ UNCHANGED faults
    BY DEF WhatsAppInstall
  <1>2. MachineOn(inst') /\ DoneOn(inst', run.skip \union run.done)
    BY InstalledMachine DEF WhatsAppInstall, AllChannels
  <1>3. FlowOn(inst', run')
    BY <1>1, FlowIsEarly DEF IInv, Turning, LastRestart, Late
  <1> QED BY <1>1, <1>2, <1>3, NoResult, StepTaken

\* A device is linked, or half linked; the flow goes on to the restart.
LEMMA WhatsAppAuthInv ==
    ASSUME IInv, WhatsAppAuth \/ WhatsAppAuthFails
    PROVE  IInv'
  <1>1. inst \in Machine /\ MachineOn(inst) /\ DoneOn(inst, run.skip \union run.done)
    BY DEF IInv, MachineInv, MachineOn, DoneInv
  <1>2. PICK l \in {"no", "partial", "yes"} :
          /\ inst' = [inst EXCEPT !.linked["whatsapp"] = l]
          /\ Runs("whatsapp-auth") /\ (Fault \/ UNCHANGED faults)
          /\ \/ l = "yes" /\ Passes("whatsapp-auth")
             \/ inst.linked["whatsapp"] # "yes" /\ FailsLoose("whatsapp-auth")
    <2>1. CASE WhatsAppAuth
      BY <2>1 DEF WhatsAppAuth
    <2>2. CASE WhatsAppAuthFails
      <3>1. \E l \in {"no", "partial"} : inst' = [inst EXCEPT !.linked["whatsapp"] = l]
        BY <1>1, <2>2 DEF WhatsAppAuthFails, Machine
      <3> QED BY <2>2, <3>1 DEF WhatsAppAuthFails
    <2> QED BY <2>1, <2>2
  <1>3. MachineOn(inst')
    BY <1>1, <1>2 DEF MachineOn, Machine, HasAuth
  <1>4. DoneOn(inst', run.skip \union run.done) /\ DoneOn(inst', {"whatsapp-auth"})
    BY <1>1, <1>2 DEF Machine, DoneOn
  <1>5. CASE Passes("whatsapp-auth") /\ l = "yes"
    <2>1. FlowOn(inst', run')
      <3>1. run'.step = Following("whatsapp-auth") /\ run'.choice = run.choice
        BY <1>5 DEF Passes, IInv, RunInv, Processes
      <3> SUFFICES ASSUME run.choice \in Wirable
                   PROVE  FlowOn(inst', run')
        BY <3>1 DEF FlowOn
      <3>2. run.choice \in AllChannels /\ run.choice # NoChannel
        BY ChannelsAssumption DEF Wirable, AllChannels
      <3>3. "whatsapp-auth" \in Range(Flow[run.choice])
        BY <1>2, <3>2 DEF IInv, RunInv, Runs
      <3>4. PICK c \in Wirable : run.choice = c
        OBVIOUS
      <3>5. Following("whatsapp-auth") \notin Late \union {"signal-restart"}
        BY <3>3, <3>4, LeadsTo DEF Late, LastRestart
      <3>6. inst'.linked["whatsapp"] = "yes"
        BY <1>1, <1>2, <1>5 DEF Machine
      <3> QED BY <3>1, <3>5, <3>6 DEF FlowOn, Late
    <2> QED BY <1>2, <1>3, <1>4, <1>5, <2>1, StepTaken
  <1>6. CASE FailsLoose("whatsapp-auth")
    <2>1. FlowOn(inst', run')
      BY <1>6, FlowIsLoose DEF IInv
    <2> QED BY <1>2, <1>3, <1>4, <1>6, <2>1, StepTaken
  <1> QED BY <1>2, <1>5, <1>6

\* Signal's adapter is built, with the restart to come, or not built.
LEMMA SignalInstallInv ==
    ASSUME IInv, SignalInstall \/ SignalInstallFails
    PROVE  IInv'
  <1>1. inst \in Machine /\ MachineOn(inst) /\ DoneOn(inst, run.skip \union run.done)
    BY DEF IInv, MachineInv, MachineOn, DoneInv
  <1>2. CASE SignalInstall
    <2>1. PICK m : m = [inst EXCEPT !.adapter["signal"] = "unbuilt"]
      OBVIOUS
    <2>2. inst' = Rebuilt(m)
      BY <1>2, <2>1 DEF SignalInstall, InstallCompletes
    <2>3. /\ m \in Machine /\ m.creds = inst.creds /\ m.wired = inst.wired
          /\ m.live = inst.live /\ m.service = inst.service /\ m.unit = inst.unit
          /\ m.managed = inst.managed /\ m.linked = inst.linked
          /\ \A c \in AllChannels :
               m.adapter[c] = IF c = "signal" THEN "unbuilt" ELSE inst.adapter[c]
      <3>1. m \in Machine
        BY <1>1, <2>1 DEF Machine
      <3>2. /\ m.creds = inst.creds /\ m.wired = inst.wired
            /\ m.live = inst.live /\ m.service = inst.service /\ m.unit = inst.unit
            /\ m.managed = inst.managed /\ m.linked = inst.linked
        BY <1>1, <2>1 DEF Machine
      <3>3. \A c \in AllChannels :
               m.adapter[c] = IF c = "signal" THEN "unbuilt" ELSE inst.adapter[c]
        BY <1>1, <2>1 DEF Machine
      <3> QED BY <3>1, <3>2, <3>3
    <2>4. MachineOn(inst')
      <3>1. /\ inst' \in Machine /\ inst'.creds = inst.creds /\ inst'.wired = inst.wired
            /\ inst'.live = inst.live /\ inst'.service = inst.service
            /\ inst'.unit = inst.unit /\ inst'.managed = inst.managed
            /\ inst'.linked = inst.linked
        BY <2>2, <2>3 DEF Machine, Rebuilt
      <3>2. \A c \in AllChannels :
              inst.adapter[c] = "built" => inst'.adapter[c] = "built"
        BY <2>2, <2>3 DEF Machine, Rebuilt, AllChannels
      <3>3. inst.live \subseteq AllChannels
        BY <1>1 DEF Machine
      <3> QED BY <1>1, <3>1, <3>2, <3>3 DEF MachineOn, HasAuth
    <2>5. DoneOn(m, run.skip \union run.done)
      BY <1>1, <2>1 DEF Machine, DoneOn
    <2>6. DoneOn(inst', run.skip \union run.done)
      BY <2>2, <2>3, <2>5 DEF Machine, Rebuilt, DoneOn
    <2>7. /\ Runs("signal-install") /\ Passes("signal-install") /\ UNCHANGED faults
      BY <1>2 DEF SignalInstall
    <2>8. FlowOn(inst', run')
      BY <2>7, FlowIsEarly DEF IInv, Turning, LastRestart, Late
    <2> QED BY <2>4, <2>6, <2>7, <2>8, NoResult, StepTaken
  <1>3. CASE SignalInstallFails
    <2>1. PICK a \in {"none", "listed", "unbuilt", "built"} :
            /\ inst' = [inst EXCEPT !.adapter["signal"] = a]
            /\ a = inst.adapter["signal"]
               \/ (a = "unbuilt" /\ inst.adapter["signal"] = "none")
      <3>1. inst.adapter["signal"] \in {"none", "listed", "unbuilt", "built"}
        BY <1>1 DEF Machine, AllChannels
      <3>2. PICK a \in {"none", "listed", "unbuilt", "built"} :
              a = IF inst.adapter["signal"] = "none" THEN "unbuilt" ELSE inst.adapter["signal"]
        BY <3>1
      <3>3. inst' = [inst EXCEPT !.adapter["signal"] = a]
        BY <1>1, <1>3, <3>2 DEF SignalInstallFails, Machine, AllChannels
      <3> QED BY <3>2, <3>3
    <2>2. "signal" \in AllChannels
      BY DEF AllChannels
    <2>3. MachineOn(inst')
      BY <1>1, <2>1, <2>2 DEF MachineOn, Machine, HasAuth
    <2>4. DoneOn(inst', run.skip \union run.done)
      BY <1>1, <2>1 DEF Machine, DoneOn
    <2>5. Keeps(inst, inst')
      BY <1>1, <2>1, <2>2 DEF Machine, Keeps
    <2>6. run.phase = "running" /\ Fails /\ (Fault \/ UNCHANGED faults)
      BY <1>3 DEF SignalInstallFails, Runs
    <2> QED BY <2>3, <2>4, <2>5, <2>6, StepFailed
  <1> QED BY <1>2, <1>3

\* The account is saved before the restart.
LEMMA SignalAuthInv ==
    ASSUME IInv, SignalAuth \/ SignalAuthFails
    PROVE  IInv'
  <1>1. inst \in Machine /\ MachineOn(inst) /\ DoneOn(inst, run.skip \union run.done)
    BY DEF IInv, MachineInv, MachineOn, DoneInv
  <1>2. CASE SignalAuth
    <2>1. /\ inst' = [inst EXCEPT !.linked["signal"] = "yes", !.creds = @ \union {"signal"}]
          /\ Runs("signal-auth") /\ Passes("signal-auth") /\ UNCHANGED faults
      BY <1>2 DEF SignalAuth
    <2>2. "signal" \in AllChannels /\ "signal" \in Channels
      <3>1. "signal" \in AllChannels /\ "signal-auth" \in Range(Flow["signal"])
        BY FlowStepsByName DEF AllChannels
      <3> QED BY <2>1, <3>1, Chosen DEF IInv, Runs
    <2>3. MachineOn(inst')
      <3>1. PICK C \in SUBSET AllChannels : C = inst.creds \union {"signal"}
        BY <1>1, <2>2 DEF Machine
      <3>2. inst' = [inst EXCEPT !.linked["signal"] = "yes", !.creds = C]
        BY <1>1, <2>1, <3>1 DEF Machine
      <3>3. /\ inst' \in Machine /\ inst'.creds = C /\ inst'.wired = inst.wired
            /\ inst'.live = inst.live /\ inst'.service = inst.service
            /\ inst'.unit = inst.unit /\ inst'.managed = inst.managed
            /\ inst'.linked["whatsapp"] = inst.linked["whatsapp"]
            /\ inst'.adapter = inst.adapter
        BY <1>1, <3>2 DEF Machine
      <3> QED BY <1>1, <2>2, <3>1, <3>3 DEF MachineOn, HasAuth
    <2>4. DoneOn(inst', run.skip \union run.done) /\ DoneOn(inst', {"signal-auth"})
      BY <1>1, <2>1 DEF Machine, DoneOn
    <2>5. FlowOn(inst', run')
      <3>1. run'.step = Following("signal-auth") /\ run'.choice = run.choice
        BY <2>1 DEF Passes, IInv, RunInv, Processes
      <3> SUFFICES ASSUME run.choice \in Wirable
                   PROVE  FlowOn(inst', run')
        BY <3>1 DEF FlowOn
      <3>2. run.choice \in AllChannels /\ run.choice # NoChannel
        BY ChannelsAssumption DEF Wirable, AllChannels
      <3>3. "signal-auth" \in Range(Flow[run.choice])
        BY <2>1, <3>2 DEF IInv, RunInv, Runs
      <3>4. PICK c \in Wirable : run.choice = c
        OBVIOUS
      <3>5. Following("signal-auth") \notin Late \union {"whatsapp-restart"}
        BY <3>3, <3>4, LeadsTo DEF Late, LastRestart
      <3>6. "signal" \in inst'.creds
        BY <1>1, <2>1 DEF Machine
      <3> QED BY <3>1, <3>5, <3>6 DEF FlowOn, Late
    <2> QED BY <2>1, <2>3, <2>4, <2>5, StepTaken
  <1>3. CASE SignalAuthFails
    BY <1>3, MachineLeft, StepFailed DEF SignalAuthFails, Runs
  <1> QED BY <1>2, <1>3

\* The restart that starts the linked device's adapter.
LEMMA RestartInv ==
    ASSUME IInv, WhatsAppRestart \/ SignalRestart
    PROVE  IInv'
  <1>1. inst \in Machine /\ MachineOn(inst) /\ DoneOn(inst, run.skip \union run.done)
    BY DEF IInv, MachineInv, MachineOn, DoneInv
  <1>2. PICK s \in {"whatsapp-restart", "signal-restart"} :
          Runs(s) /\ Passes(s) /\ inst' = Restarted(inst) /\ UNCHANGED faults
    BY DEF WhatsAppRestart, SignalRestart
  <1>3. /\ s = "whatsapp-restart" => run.choice = "whatsapp"
        /\ s = "signal-restart" => run.choice = "signal"
    <2>1. /\ "whatsapp" \in AllChannels /\ "whatsapp-restart" \in Range(Flow["whatsapp"])
          /\ "signal" \in AllChannels /\ "signal-restart" \in Range(Flow["signal"])
      BY FlowStepsByName DEF AllChannels
    <2> QED BY <1>2, <2>1, Chosen DEF IInv, Runs
  <1>4. ~run.loose => HasAuth(inst, run.choice)
    BY <1>2, <1>3 DEF IInv, FlowOn, Wirable, Runs, HasAuth
  <1>5. FlowOn(inst', run')
    BY <1>1, <1>2, <1>4, FlowRestarts DEF IInv, LastRestart
  <1>6. MachineOn(inst') /\ DoneOn(inst', run.skip \union run.done)
    BY <1>1, <1>2, RestartedMachine, DoneUnderRestart
  <1>7. DoneOn(inst', {s})
    BY NoResult
  <1> QED BY <1>2, <1>5, <1>6, <1>7, StepTaken

\* What the flows do, and how they fail.
LEMMA ConnectInv ==
    ASSUME IInv, Connect \/ ConnectFails
    PROVE  IInv'
  <1>1. CASE Connect
    BY <1>1, PromptsInv, InstallInv, InitFirstAgentInv, PairTelegramInv, WhatsAppInstallInv,
       WhatsAppAuthInv, SignalInstallInv, SignalAuthInv, RestartInv DEF Connect
  <1>2. CASE ConnectFails
    BY <1>2, InstallFailsInv, InitFirstAgentInv, PairTelegramInv, WhatsAppAuthInv,
       SignalInstallInv, SignalAuthInv DEF ConnectFails
  <1> QED BY <1>1, <1>2

-----------------------------------------------------------------------------
(* The theorems.                                                           *)

\* A machine without docker, or without a service manager.
LEMMA InitInv ==
    ASSUME Init
    PROVE  IInv
  <1>1. PICK m \in BOOLEAN, d \in {"none", "stopped"} :
          inst = [docker |-> d, image |-> FALSE, url |-> FALSE, secret |-> "none",
                  rules |-> FALSE, managed |-> m, unit |-> FALSE,
                  service |-> "stopped", acl |-> FALSE, peer |-> "looping", cli |-> FALSE,
                  zone |-> FALSE, adapter |-> [c \in AllChannels |-> "none"],
                  creds |-> {}, enabled |-> FALSE, live |-> {}, wired |-> {},
                  linked |-> [c \in {"telegram", "whatsapp", "signal"} |-> "no"]]
    BY DEF Init
  <1>2. MachineOn(inst)
    BY <1>1 DEF MachineOn, Machine
  <1>3. PICK skip \in SUBSET StepNames : skip = {}
    OBVIOUS
  <1>4. /\ run \in Processes /\ run.step \in DriverSteps \ {"timezone-save"}
        /\ run.skip = {} /\ run.done = {} /\ run.choice = NoChannel
        /\ run.said = "nothing" /\ ~run.owed
    BY <1>3, FreshFields DEF Init
  <1>5. RunInv /\ DoneInv /\ SaidInv
    BY <1>4 DEF RunInv, DoneInv, DoneOn, SaidInv
  <1>6. FlowOn(inst, run)
    BY <1>4, ChannelsAssumption DEF FlowOn, Wirable, AllChannels
  <1>7. faults \in 0..MaxFaults
    BY BoundsAssumption DEF Init
  <1> QED BY <1>2, <1>5, <1>6, <1>7 DEF IInv, MachineInv

\* Every step keeps the invariant.
LEMMA StepInv ==
    ASSUME IInv, [Next]_vars
    PROVE  IInv'
  <1>1. CASE Next
    BY <1>1, DriverInv, DriverFailsInv, ChooseInv, ConnectInv, ProcessInv, ServiceStopsInv
       DEF Next
  <1>2. CASE UNCHANGED vars
    BY <1>2 DEF vars, IInv, RunInv, MachineInv, DoneInv, SaidInv, SuccessIsTrue, Answering
  <1> QED BY <1>1, <1>2

\* The invariant holds in every behaviour.
THEOREM Invariance == Spec => []IInv
  BY InitInv, StepInv, PTL DEF Spec

\* The machine and the process are always of their types, and only adapters that
\* are in the build and have credentials are live, in a service that runs
\* (Restarted: registerChannelAdapter's factories in src/channels).
THEOREM TypeCorrect == Spec => []TypeOK
  <1>1. IInv => TypeOK
    BY DEF IInv, RunInv, Processes, MachineInv, MachineOn, TypeOK
  <1> QED BY <1>1, Invariance, PTL

\* Setup only says that all is set when the assistant has answered and, for an
\* app whose failures were all awaited, that its chat is wired and its adapter
\* live if it is in the build, however often setup was retried (auto.ts).
THEOREM SuccessTold == Spec => []SuccessIsTrue
  <1>1. ASSUME IInv
        PROVE  SuccessIsTrue
    <2>1. CASE run.said \in {"set", "ready"}
      BY <1>1, <2>1 DEF IInv, SaidInv
    <2>2. CASE run.said \notin {"set", "ready"}
      BY <2>2 DEF SuccessIsTrue
    <2> QED BY <2>1, <2>2
  <1> QED BY <1>1, Invariance, PTL

\* What a process was told to skip has its result on the machine, through
\* retries, restarts under sg and steps that failed half way (fail in
\* runner.ts passes on what is completed).
THEOREM SkipsAreSafe == Spec => []SkippedStepsAreDone
  <1>1. IInv => SkippedStepsAreDone
    BY DEF IInv, DoneInv, DoneOn, SaidInv, SkippedStepsAreDone
  <1> QED BY <1>1, Invariance, PTL
=============================================================================
