------------------------------ MODULE Routing -------------------------------
(***************************************************************************)
(* Inbound routing of one chat, and the two approval flows it starts: an   *)
(* unwired chat in which the bot is addressed is put to an owner, and so   *)
(* is a sender the access gate does not know.  On approval the message     *)
(* that asked is routed again.                                             *)
(*                                                                         *)
(* A message fans out to the wired agents one after the other; where one   *)
(* takes it the router awaits a container's wake, and everything else the  *)
(* host does may come in between.  The approval requests are detached from *)
(* the message that starts them and await the opening of a DM before they  *)
(* write their row.                                                        *)
(***************************************************************************)
EXTENDS Naturals, FiniteSets

CONSTANTS
    Agents,        \* agent groups
    Rank,          \* the order of the fan-out, that of the wirings' priority
    Target,        \* the agent group a new chat is wired to
    Users,         \* senders with an identity
    Nobody,        \* a sender without one
    Admins,        \* owners and admins: known to every agent, may give commands
    Msgs,          \* messages; their order is that of arrival
    Arrivals,      \* what a message may be
    Setups,        \* the wirings the chat may start with
    Policies,      \* the unknown_sender_policy it may start with
    IsGroup,       \* messaging_groups.is_group
    MaxFaults      \* bound on crashes, redeliveries and lost cards

Texts   == {"plain", "admin", "filtered"}
Modes   == {"always", "pattern", "mention", "sticky"}
Wiring  == [mode : Modes, scope : {"all", "known"}, ignored : {"drop", "accumulate"}]
Unwired == [mode |-> "none"]
Message == [user : Users \cup {Nobody}, mention : BOOLEAN, matches : BOOLEAN,
            text : Texts, thread : STRING]
NotSent == [text |-> "none"]
NoRow   == [agent |-> "none"]
Causes  == Agents \cup {"first", "again", "channel"}
Idle    == <<>>           \* no routing holds the host

ASSUME AgentsAssumption   == /\ Target \in Agents /\ Rank \in [Agents -> Nat]
                             /\ \A a, b \in Agents : Rank[a] = Rank[b] => a = b
                             /\ Agents \cap {"first", "again", "channel", "none"} = {}
ASSUME UsersAssumption    == Nobody \notin Users /\ Admins \subseteq Users
ASSUME ArrivalsAssumption == Msgs \subseteq Nat /\ Arrivals \subseteq Message
ASSUME SetupsAssumption   == Setups \subseteq [Agents -> Wiring \cup {Unwired}]
ASSUME PolicyAssumption   == Policies \subseteq {"strict", "request_approval", "public"}
ASSUME BoundsAssumption   == IsGroup \in BOOLEAN /\ MaxFaults \in Nat

VARIABLES
    arrival,       \* the messages that have arrived
    (* the central database *)
    chat,          \* the messaging_groups row: absent, open, or denied
    policy,        \* its unknown_sender_policy
    wiring,        \* messaging_group_agents
    member,        \* agent_group_members
    sessions,      \* sessions, by agent and thread
    senderRow,     \* pending_sender_approvals, one row per sender
    channelRow,    \* pending_channel_approvals, one row for the chat
    dropped,       \* messages with a dropped_messages row
    (* the sessions' inbound.db *)
    inbox,         \* the row of a message in an agent's session
    (* the host's memory *)
    running,       \* the routing the host is busy with, Idle where all await
    fan,           \* agents a routing of a message has yet to visit
    took,          \* routings with engagedCount + accumulatedCount > 0
    senderAsking,  \* sender requests awaiting a DM
    channelAsking, \* channel requests awaiting a DM
    (* history *)
    routed,        \* routings that have begun
    crashed,       \* routings cut off by a crash or a wake that threw
    overlap,       \* what two sender requests have asked at the same time
    twice,         \* two channel requests have been open at the same time
    faults         \* faults so far

chatVars == <<chat, policy, wiring>>
fanVars  == <<running, fan, took>>
askVars  == <<senderAsking, channelAsking, overlap, twice>>
rowVars  == <<member, senderRow, channelRow>>
vars     == <<arrival, chatVars, rowVars, sessions, dropped, inbox, fanVars, askVars,
              routed, crashed, faults>>

Routings == Msgs \X Causes
Pending  == {NoRow} \cup [agent : Agents, msg : Msgs, card : {"shown", "lost"}]

TypeOK ==
    /\ arrival \in [Msgs -> Arrivals \cup {NotSent}]
    /\ chat \in {"absent", "open", "denied"}
    /\ policy \in {"strict", "request_approval", "public"}
    /\ wiring \in [Agents -> Wiring \cup {Unwired}]
    /\ member \in SUBSET (Users \X Agents)
    /\ sessions \subseteq Agents \X ({m.thread : m \in Arrivals} \cup {"none"})
    /\ senderRow \in [Users -> Pending]
    /\ channelRow \in Pending
    /\ dropped \in SUBSET Msgs
    /\ inbox \in [Msgs -> [Agents -> {"none", "context", "trigger"}]]
    /\ running \in Routings \cup {Idle}
    /\ fan \in [Msgs -> [Causes -> SUBSET Agents]]
    /\ took \in SUBSET Routings
    /\ senderAsking \in SUBSET (Agents \X Routings)
    /\ channelAsking \in SUBSET Routings
    /\ routed \in SUBSET Routings
    /\ crashed \in SUBSET routed
    /\ overlap \in SUBSET (Users \X Agents)
    /\ twice \in BOOLEAN
    /\ faults \in 0..MaxFaults

Wired == {a \in Agents : wiring[a] # Unwired}

Init ==
    /\ arrival = [m \in Msgs |-> NotSent]
    /\ wiring \in Setups
    /\ IF Wired = {}
       THEN chat = "absent" /\ policy = "request_approval"
       ELSE chat = "open" /\ policy \in Policies
    /\ member = {} /\ sessions = {}
    /\ senderRow = [u \in Users |-> NoRow] /\ channelRow = NoRow
    /\ dropped = {}
    /\ inbox = [m \in Msgs |-> [a \in Agents |-> "none"]]
    /\ running = Idle
    /\ fan = [m \in Msgs |-> [c \in Causes |-> {}]] /\ took = {}
    /\ senderAsking = {} /\ channelAsking = {}
    /\ routed = {} /\ crashed = {} /\ overlap = {} /\ twice = FALSE
    /\ faults = 0

Fault == faults < MaxFaults /\ faults' = faults + 1

-----------------------------------------------------------------------------
(* The router.                                                             *)

Sender(m)  == arrival[m].user
Mention(m) == arrival[m].mention

\* Threads separate the sessions of a group; the sessions of a DM are one.
ThreadKey(m) == IF IsGroup THEN arrival[m].thread ELSE "none"

\* canAccessAgentGroup.
Knows(a, u) == u \in Admins \/ <<u, a>> \in member

\* evaluateEngage.
Engages(a, m) ==
    CASE wiring[a].mode = "always"  -> TRUE
      [] wiring[a].mode = "pattern" -> arrival[m].matches
      [] wiring[a].mode = "mention" -> Mention(m)
      [] wiring[a].mode = "sticky"  -> \/ Mention(m)
                                       \/ IsGroup /\ <<a, ThreadKey(m)>> \in sessions

AccessOk(a, m) == policy = "public" \/ Knows(a, Sender(m))

ScopeOk(a, m) == wiring[a].scope = "all" \/ Knows(a, Sender(m))

\* Mutation: a pending request does not keep the next one from starting.
AskChannelAlways(m, c) ==
    /\ channelAsking' = channelAsking \cup {<<m, c>>}
    /\ twice' = (twice \/ channelAsking # {})

\* requestChannelApproval up to its await: nothing while a request is pending.
AskChannel(m, c) ==
    IF channelRow = NoRow
    THEN /\ channelAsking' = channelAsking \cup {<<m, c>>}
         /\ twice' = (twice \/ channelAsking # {})
    ELSE UNCHANGED <<channelAsking, twice>>

\* routeInbound up to the fan-out: chats without wirings are dropped, silently
\* or with a request to an owner when the bot is addressed.
Route(m, c) ==
    /\ routed' = routed \cup {<<m, c>>}
    /\ took' = took \ {<<m, c>>}
    /\ IF {a \in Agents : wiring'[a] # Unwired} # {}
       THEN /\ fan' = [fan EXCEPT ![m][c] = {a \in Agents : wiring'[a] # Unwired}]
            /\ running' = <<m, c>>
            /\ UNCHANGED <<dropped, channelAsking, twice>>
       ELSE /\ UNCHANGED <<fan, running>>
            /\ IF arrival'[m].mention /\ chat # "denied"
               THEN dropped' = dropped \cup {m} /\ AskChannel(m, c)
               ELSE UNCHANGED <<dropped, channelAsking, twice>>

\* The next message of the platform; the first one that addresses the bot
\* creates the chat.
Arrive(m) ==
    /\ running = Idle
    /\ arrival[m] = NotSent
    /\ \A n \in Msgs : n < m => arrival[n] # NotSent
    /\ \E x \in Arrivals :
          /\ arrival' = [arrival EXCEPT ![m] = x]
          /\ chat' = IF chat = "absent" /\ x.mention THEN "open" ELSE chat
    /\ UNCHANGED wiring
    /\ Route(m, "first")
    /\ UNCHANGED <<policy, rowVars, sessions, inbox, senderAsking, overlap, crashed, faults>>

\* The platform delivers a message a second time.
Redeliver(m) ==
    /\ running = Idle
    /\ arrival[m] # NotSent /\ <<m, "again">> \notin routed
    /\ Fault
    /\ UNCHANGED <<arrival, wiring>>
    /\ Route(m, "again")
    /\ UNCHANGED <<chat, policy, rowVars, sessions, inbox, senderAsking, overlap, crashed>>

\* requestSenderApproval up to its await; nobody can be asked about a sender
\* without an identity.
AskSender(a, m, c) ==
    IF policy = "request_approval" /\ Sender(m) # Nobody /\ senderRow[Sender(m)] = NoRow
    THEN /\ senderAsking' = senderAsking \cup {<<a, <<m, c>>>>}
         /\ overlap' = IF \E q \in senderAsking : q[1] = a /\ Sender(q[2][1]) = Sender(m)
                       THEN overlap \cup {<<Sender(m), a>>} ELSE overlap
    ELSE UNCHANGED <<senderAsking, overlap>>

\* The routing that goes on: the one that holds the host, or, where all await,
\* any of them; its next agent is the first in the order of the wirings.
Turn(m, c, a) ==
    /\ running \in {<<m, c>>, Idle}
    /\ a \in fan[m][c]
    /\ \A b \in fan[m][c] : Rank[a] <= Rank[b]

Refused(a, m)  == Engages(a, m) /\ ~AccessOk(a, m)
Triggers(a, m) == Engages(a, m) /\ AccessOk(a, m) /\ ScopeOk(a, m)
Keeps(a, m)    == ~Triggers(a, m) /\ wiring[a].ignored = "accumulate"

\* The access gate records a refusal and may put the sender to an owner.
Gate(a, m, c) == IF Refused(a, m) THEN AskSender(a, m, c) ELSE UNCHANGED <<senderAsking, overlap>>

\* Mutation: only the gate's refusals are recorded.
RecordsRefusals(a, m, c) == dropped' = IF Refused(a, m) THEN dropped \cup {m} ELSE dropped

\* The refusals by the gate and, after the last agent, a message nobody took.
Records(a, m, c) ==
    dropped' = IF Refused(a, m) \/ (fan[m][c] = {a} /\ <<m, c>> \notin took')
               THEN dropped \cup {m} ELSE dropped

\* gateCommand; the answer to a denied command goes to the outbound database,
\* which the host opens read-only, and throws.
Filtered(m) == arrival[m].text = "filtered"
Denied(m)   == arrival[m].text = "admin" /\ Sender(m) \notin Admins

Passes(m)   == ~Filtered(m) /\ ~Denied(m)

\* Mutation: the first agent that is woken ends the fan-out.
FirstTakesAll(m, c, a) == IF Triggers(a, m) THEN {} ELSE fan[m][c] \ {a}

\* The agents a routing visits after this one.
Rest(m, c, a) == fan[m][c] \ {a}

\* deliverToAgent up to the wake: the session is there and so, unless the command
\* is filtered, is the message, as a trigger or as context.
Write(m, c, a) ==
    /\ Turn(m, c, a)
    /\ Triggers(a, m) \/ Keeps(a, m)
    /\ ~Denied(m)
    /\ Filtered(m) \/ inbox[m][a] = "none"
    /\ Gate(a, m, c)
    /\ sessions' = sessions \cup {<<a, ThreadKey(m)>>}
    /\ inbox' = IF Filtered(m) THEN inbox
                ELSE [inbox EXCEPT ![m][a] = IF Triggers(a, m) THEN "trigger" ELSE "context"]
    /\ running' = Idle
    /\ UNCHANGED <<arrival, chatVars, rowVars, channelAsking, twice, routed>>

\* An agent takes the message.
Deliver(m, c, a) ==
    /\ Write(m, c, a)
    /\ took' = took \cup {<<m, c>>}
    /\ Records(a, m, c)
    /\ fan' = [fan EXCEPT ![m][c] = Rest(m, c, a)]
    /\ UNCHANGED <<crashed, faults>>

\* The wake of a triggered agent throws, with the message in its session, and
\* routeInbound with it: the agents after are not visited.
WakeThrows(m, c, a) ==
    /\ Write(m, c, a)
    /\ Triggers(a, m) /\ ~Filtered(m)
    /\ Fault
    /\ crashed' = IF Rest(m, c, a) = {} THEN crashed ELSE crashed \cup {<<m, c>>}
    /\ fan' = [fan EXCEPT ![m][c] = {}]
    /\ UNCHANGED <<took, dropped>>

\* deliverToAgent throws, on a denied command or on the id of a message the
\* session has already, and routeInbound with it: the agents after are not visited.
DeliverThrows(m, c, a) ==
    /\ Turn(m, c, a)
    /\ Triggers(a, m) \/ Keeps(a, m)
    /\ Denied(m) \/ (~Filtered(m) /\ inbox[m][a] # "none")
    /\ Gate(a, m, c)
    /\ sessions' = sessions \cup {<<a, ThreadKey(m)>>}
    /\ dropped' = IF Refused(a, m) THEN dropped \cup {m} ELSE dropped
    /\ fan' = [fan EXCEPT ![m][c] = {}]
    /\ running' = Idle
    /\ UNCHANGED <<arrival, chatVars, rowVars, inbox, took, channelAsking, twice,
                   routed, crashed, faults>>

\* An agent declines: the routing goes on without awaiting anything.
Decline(m, c, a) ==
    /\ Turn(m, c, a)
    /\ ~Triggers(a, m) /\ ~Keeps(a, m)
    /\ Gate(a, m, c)
    /\ UNCHANGED took
    /\ Records(a, m, c)
    /\ fan' = [fan EXCEPT ![m][c] = Rest(m, c, a)]
    /\ running' = IF fan[m][c] = {a} THEN Idle ELSE <<m, c>>
    /\ UNCHANGED <<arrival, chatVars, rowVars, sessions, inbox, channelAsking, twice,
                   routed, crashed, faults>>

-----------------------------------------------------------------------------
(* The approval flows.  A row is written before its card is sent, and a    *)
(* card that is lost (no adapter, a failed delivery, a crash) leaves its   *)
(* row behind.                                                             *)

Cards == {"shown"} \cup (IF faults < MaxFaults THEN {"lost"} ELSE {})

FaultIf(lost) == faults' = IF lost THEN faults + 1 ELSE faults

\* requestSenderApproval after its await: a second row for the sender is refused
\* by the table; without an approver's DM nothing is written.
SenderRequest(a, m, c) ==
    /\ running = Idle
    /\ <<a, <<m, c>>>> \in senderAsking
    /\ senderAsking' = senderAsking \ {<<a, <<m, c>>>>}
    /\ IF senderRow[Sender(m)] # NoRow
       THEN UNCHANGED <<senderRow, faults>>
       ELSE \/ \E card \in Cards :
                  /\ senderRow' = [senderRow EXCEPT ![Sender(m)] = [agent |-> a, msg |-> m, card |-> card]]
                  /\ FaultIf(card = "lost")
            \/ Fault /\ UNCHANGED senderRow
    /\ UNCHANGED <<arrival, chatVars, member, channelRow, sessions, dropped, inbox, fanVars,
                   channelAsking, overlap, twice, routed, crashed>>

\* requestChannelApproval after its await.
ChannelRequest(m, c) ==
    /\ running = Idle
    /\ <<m, c>> \in channelAsking
    /\ channelAsking' = channelAsking \ {<<m, c>>}
    /\ IF channelRow # NoRow
       THEN UNCHANGED <<channelRow, faults>>
       ELSE \/ \E card \in Cards :
                  /\ channelRow' = [agent |-> Target, msg |-> m, card |-> card]
                  /\ FaultIf(card = "lost")
            \/ Fault /\ UNCHANGED channelRow
    /\ UNCHANGED <<arrival, chatVars, member, senderRow, sessions, dropped, inbox, fanVars,
                   senderAsking, overlap, twice, routed, crashed>>

Asked(row) == running = Idle /\ row # NoRow /\ row.card = "shown"

\* Mutation: the sender is replayed without having been made a member.
ApproveSenderUnadmitted(u) ==
    LET row == senderRow[u]
    IN  /\ Asked(row)
        /\ fan[row.msg][row.agent] = {}
        /\ senderRow' = [senderRow EXCEPT ![u] = NoRow]
        /\ UNCHANGED <<arrival, wiring, member>>
        /\ Route(row.msg, row.agent)
        /\ UNCHANGED <<chat, policy, channelRow, sessions, inbox, senderAsking, overlap,
                       crashed, faults>>

\* handleSenderApprovalResponse, approve: the sender becomes a member, the row
\* goes, the message is routed again (an earlier replay of it has ended).
ApproveSender(u) ==
    LET row == senderRow[u]
    IN  /\ Asked(row)
        /\ fan[row.msg][row.agent] = {}
        /\ member' = member \cup {<<u, row.agent>>}
        /\ senderRow' = [senderRow EXCEPT ![u] = NoRow]
        /\ UNCHANGED <<arrival, wiring>>
        /\ Route(row.msg, row.agent)
        /\ UNCHANGED <<chat, policy, channelRow, sessions, inbox, senderAsking, overlap,
                       crashed, faults>>

\* handleSenderApprovalResponse, deny: nothing is remembered.
DenySender(u) ==
    /\ Asked(senderRow[u])
    /\ senderRow' = [senderRow EXCEPT ![u] = NoRow]
    /\ UNCHANGED <<arrival, chatVars, member, channelRow, sessions, dropped, inbox, fanVars,
                   askVars, routed, crashed, faults>>

\* The wiring an approved chat gets: what tells a group from a DM is whether the
\* message came from a thread.
DefaultWiring(m) ==
    [mode    |-> IF arrival[m].thread # "none" THEN "sticky" ELSE "always",
     scope   |-> "known",
     ignored |-> "accumulate"]

\* handleChannelApprovalResponse, approve.  For a chat that has been wired
\* meanwhile the insertion throws and everything stays as it is.
ApproveChannel ==
    LET m == channelRow.msg
    IN  /\ Asked(channelRow)
        /\ Target \notin Wired
        /\ wiring' = [wiring EXCEPT ![Target] = DefaultWiring(m)]
        /\ member' = IF Sender(m) = Nobody THEN member ELSE member \cup {<<Sender(m), Target>>}
        /\ channelRow' = NoRow
        /\ UNCHANGED arrival
        /\ Route(m, "channel")
        /\ UNCHANGED <<chat, policy, senderRow, sessions, inbox, senderAsking, overlap,
                       crashed, faults>>

\* handleChannelApprovalResponse, ignore.
DenyChannel ==
    /\ Asked(channelRow)
    /\ chat' = "denied"
    /\ channelRow' = NoRow
    /\ UNCHANGED <<arrival, policy, wiring, member, senderRow, sessions, dropped, inbox, fanVars,
                   askVars, routed, crashed, faults>>

\* The host dies: routings and requests under way are gone.
HostRestart ==
    /\ Fault
    /\ crashed' = crashed \cup {r \in Routings : fan[r[1]][r[2]] # {}}
    /\ fan' = [m \in Msgs |-> [c \in Causes |-> {}]]
    /\ running' = Idle /\ took' = {}
    /\ senderAsking' = {} /\ channelAsking' = {}
    /\ UNCHANGED <<arrival, chatVars, rowVars, sessions, dropped, inbox, overlap, twice, routed>>

-----------------------------------------------------------------------------
Next ==
    \/ \E m \in Msgs : Arrive(m) \/ Redeliver(m)
    \/ \E m \in Msgs, c \in Causes, a \in Agents :
          \/ Deliver(m, c, a) \/ WakeThrows(m, c, a)
          \/ DeliverThrows(m, c, a) \/ Decline(m, c, a)
    \/ \E m \in Msgs, c \in Causes :
          \/ ChannelRequest(m, c)
          \/ \E a \in Agents : SenderRequest(a, m, c)
    \/ \E u \in Users : ApproveSender(u) \/ DenySender(u)
    \/ ApproveChannel \/ DenyChannel
    \/ HostRestart

Spec == Init /\ [][Next]_vars

-----------------------------------------------------------------------------
(* Properties.                                                             *)

\* An agent for whom a message is, by what no approval and no session changes:
\* it keeps what it does not engage on, or it is engaged by a sender who needs no
\* admission.
Listens(a, m) ==
    /\ wiring[a] # Unwired
    /\ \/ wiring[a].ignored = "accumulate"
       \/ /\ \/ wiring[a].mode = "always"
             \/ wiring[a].mode = "pattern" /\ arrival[m].matches
             \/ wiring[a].mode \in {"mention", "sticky"} /\ Mention(m)
          /\ \/ Sender(m) \in Admins
             \/ policy = "public" /\ wiring[a].scope = "all"

\* The fan-out is all or nothing: once no routing of a message is under way and
\* none was cut off by a crash or a failed wake, a message one agent has is with
\* every agent that listens for it, although a routing of it that was delivered
\* twice or replayed throws at the first agent that has it and leaves out the
\* agents after, and routings of it overlap while a container wakes (router.ts:
\* each wired agent is evaluated independently).
FanOutIsWhole ==
    \A m \in Msgs :
        /\ \A c \in Causes : fan[m][c] = {} /\ <<m, c>> \notin crashed
        /\ \E a \in Agents : inbox[m][a] # "none"
        => \A b \in Agents : Listens(b, m) => inbox[m][b] # "none"

\* After an approval the message that asked is in the agent's session, unless a
\* crash or a failed wake cut off the replay, an agent before it in the fan-out
\* had the message already, which ends the replay, or the command gate filters or
\* denies it (handleSenderApprovalResponse).
ApprovedReachesInbox ==
    \A m \in Msgs, a \in Agents :
        /\ <<m, a>> \in routed \ crashed
        /\ fan[m][a] = {}
        /\ Passes(m)
        => \E b \in Agents : Rank[b] <= Rank[a] /\ inbox[m][b] # "none"

\* A card for the registration of the chat is open only while its question is:
\* the chat is neither wired nor denied, unless two messages had asked for it at
\* the same time (channel-approval.ts checks for a row before its await only).
ChannelCardIsOpen ==
    channelRow # NoRow => twice \/ (chat = "open" /\ Wired = {})

\* A card for a sender is open only while the sender is not a member of the agent
\* it asks for, unless two requests for the same had been under way together.
SenderCardIsOpen ==
    \A u \in Users :
        senderRow[u] # NoRow =>
            \/ <<u, senderRow[u].agent>> \in overlap
            \/ <<u, senderRow[u].agent>> \notin member

\* No card stays open beside the answer it asks for, of either kind.
CardsAreOpen == ChannelCardIsOpen /\ SenderCardIsOpen

\* A message that addresses the bot and passes the command gate does not vanish:
\* once no routing of it is under way it is in a session or among the dropped
\* messages, or an owner denied the chat, or a crash took it (router.ts:
\* dropped_messages is the audit).  The gate's own are excepted: a filtered command
\* is dropped silently by design, and a denied one is lost without its answer.
NoSilentLoss ==
    \A m \in Msgs :
        /\ <<m, "first">> \in routed \ crashed
        /\ \A c \in Causes : fan[m][c] = {}
        /\ Mention(m) /\ Passes(m)
        => m \in dropped \/ chat = "denied" \/ \E a \in Agents : inbox[m][a] # "none"

=============================================================================
