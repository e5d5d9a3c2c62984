--------------------------- MODULE Routing_proofs ---------------------------
(***************************************************************************)
(* Proofs about Routing, for any agents, users, messages, wirings and      *)
(* faults.                                                                 *)
(*                                                                         *)
(* The policy of a chat, the wiring of an agent and the membership of a    *)
(* sender are never taken back, and sessions stay: what has engaged an     *)
(* agent engages it again when the message is replayed, and whoever was    *)
(* admitted stays admitted.                                                *)
(***************************************************************************)
EXTENDS Routing, TLAPS

Arrived(m) == arrival[m] # NotSent

\* Routings, inboxes and dropped messages are of messages that have arrived, and
\* the agents are wired ones.
PlaceInv ==
    /\ \A m \in Msgs, c \in Causes :
          /\ fan[m][c] \subseteq Wired
          /\ fan[m][c] # {} => <<m, c>> \in routed
          /\ <<m, c>> \in routed \cup took => Arrived(m)
    /\ \A m \in Msgs, a \in Agents : inbox[m][a] # "none" => Arrived(m) /\ a \in Wired
    /\ \A m \in Msgs : Arrived(m) /\ Mention(m) => chat # "absent"

\* A wired agent was engaged by a message of the sender.
Wants(u, a, m) == Arrived(m) /\ Sender(m) = u /\ a \in Wired /\ Engages(a, m)

\* A request about a sender that is under way is the only one for its agent, and
\* the sender is not a member yet, or two have overlapped.
AskingInv ==
    \A q \in senderAsking :
        LET a == q[1]
            m == q[2][1]
            u == Sender(m)
        IN  /\ u \in Users /\ Wants(u, a, m)
            /\ <<u, a>> \in overlap \/
                  /\ <<u, a>> \notin member
                  /\ senderRow[u] # NoRow => senderRow[u].agent # a
                  /\ \A p \in senderAsking : p[1] = a /\ Sender(p[2][1]) = u => p = q

\* So is one that has a row.
SenderInv ==
    \A u \in Users :
        senderRow[u] # NoRow =>
            LET a == senderRow[u].agent
                m == senderRow[u].msg
            IN  /\ Wants(u, a, m)
                /\ <<u, a>> \in overlap \/ <<u, a>> \notin member

\* A request about the chat is the only one, and the chat is neither wired nor
\* denied, or two have been open at the same time; at most its target is wired.
ChannelInv ==
    /\ \A r \in channelAsking : Arrived(r[1])
    /\ channelRow # NoRow => Arrived(channelRow.msg)
    /\ ~twice =>
          /\ \A r, s \in channelAsking : r = s
          /\ channelRow # NoRow => channelAsking = {}
          /\ channelRow # NoRow \/ channelAsking # {} => chat = "open" /\ Wired = {}
    /\ channelRow # NoRow \/ channelAsking # {} => Wired \subseteq {Target}

InInbox(m) == \E a \in Agents : inbox[m][a] # "none"

\* A message that addresses the bot is accounted for, or its first routing goes on.
LossInv ==
    \A m \in Msgs : Arrived(m) /\ Passes(m) =>
        /\ \A c \in Causes : <<m, c>> \in took => InInbox(m)
        /\ <<m, "first">> \in routed \ crashed /\ Mention(m) =>
              m \in dropped \/ chat = "denied" \/ InInbox(m) \/ fan[m]["first"] # {}

\* A replay reaches the agent it is for, unless one before it had the message.
ReplayInv ==
    \A m \in Msgs, a \in Agents : <<m, a>> \in routed =>
        /\ Wants(Sender(m), a, m) /\ Knows(a, Sender(m))
        /\ <<m, a>> \notin crashed /\ Passes(m) =>
              a \in fan[m][a] \/ \E b \in Agents : Rank[b] <= Rank[a] /\ inbox[m][b] # "none"

\* The agents that listen for a message and do not have it are still to be visited:
\* by every routing of it that goes on, and, where one agent has it, by a routing
\* that is past that agent.  Commands the gate stops are with nobody.
WholeInv ==
    \A m \in Msgs :
        /\ InInbox(m) => Passes(m)
        /\ Passes(m) => \A c \in Causes, b \in Agents :
              fan[m][c] # {} /\ Listens(b, m) => b \in fan[m][c] \/ inbox[m][b] # "none"
        /\ (\A c \in Causes : <<m, c>> \notin crashed) =>
              \A a, b \in Agents : inbox[m][a] # "none" /\ Listens(b, m) /\ inbox[m][b] = "none" =>
                 \E c \in Causes : b \in fan[m][c] /\ \A y \in fan[m][c] : Rank[a] < Rank[y]

IInv == TypeOK /\ PlaceInv /\ WholeInv /\ AskingInv /\ SenderInv /\ ChannelInv /\ LossInv /\ ReplayInv

-----------------------------------------------------------------------------
(* What is never taken back.                                               *)

Grows ==
    /\ policy' = policy /\ member \subseteq member' /\ sessions \subseteq sessions'
    /\ \A a \in Wired : wiring'[a] = wiring[a]
    /\ \A m \in Msgs : Arrived(m) => arrival'[m] = arrival[m]

\* What has engaged an agent engages it again, and whoever is admitted stays so.
LEMMA Grown ==
    ASSUME TypeOK, Grows, NEW m \in Msgs, Arrived(m), NEW a \in Wired
    PROVE  /\ Arrived(m)' /\ Sender(m)' = Sender(m) /\ Mention(m)' = Mention(m) /\ a \in Wired'
           /\ wiring'[a] = wiring[a]
           /\ Engages(a, m) => Engages(a, m)'
           /\ Knows(a, Sender(m)) => Knows(a, Sender(m))'
           /\ AccessOk(a, m) => AccessOk(a, m)'
  <1>1. arrival'[m] = arrival[m] /\ wiring'[a] = wiring[a] /\ a \in Agents /\ wiring[a] # Unwired
    BY DEF Grows, Wired
  <1>2. Arrived(m)' /\ Sender(m)' = Sender(m) /\ Mention(m)' = Mention(m) /\ a \in Wired'
    BY <1>1 DEF Arrived, Sender, Mention, Wired
  <1>3. ThreadKey(m)' = ThreadKey(m)
    BY <1>1 DEF ThreadKey
  <1>4. Engages(a, m) => Engages(a, m)'
    <2>1. /\ wiring'[a].mode = wiring[a].mode /\ arrival'[m].matches = arrival[m].matches
          /\ <<a, ThreadKey(m)>> \in sessions => <<a, ThreadKey(m)>> \in sessions'
      BY <1>1 DEF Grows
    <2>2. wiring[a].mode \in Modes
      BY <1>1 DEF TypeOK, Wiring
    <2> QED BY <1>2, <1>3, <2>1, <2>2 DEF Engages, Modes
  <1>5. Knows(a, Sender(m)) => Knows(a, Sender(m))'
    BY <1>2 DEF Knows, Grows
  <1>6. AccessOk(a, m) => AccessOk(a, m)'
    BY <1>2, <1>5 DEF AccessOk, Grows
  <1> QED BY <1>1, <1>2, <1>4, <1>5, <1>6

\* What an agent has wanted it wants still.
LEMMA WantsGrown ==
    ASSUME TypeOK, Grows, NEW m \in Msgs, NEW a, NEW u, Wants(u, a, m)
    PROVE  Wants(u, a, m)'
  BY Grown DEF Wants

\* Messages that have arrived have a sender, a text and a thread.
LEMMA ArrivedMessage ==
    ASSUME TypeOK, NEW m \in Msgs, Arrived(m)
    PROVE  /\ arrival[m] \in Arrivals /\ arrival[m] \in Message
           /\ Sender(m) \in Users \cup {Nobody}
  BY ArrivalsAssumption DEF TypeOK, Arrived, Sender, Message

\* The sessions a routing opens are those of the model.
LEMMA SessionTypes ==
    ASSUME TypeOK, NEW m \in Msgs, Arrived(m), NEW a \in Agents,
           sessions' = sessions \cup {<<a, ThreadKey(m)>>}, UNCHANGED <<arrival>>
    PROVE  sessions' \subseteq Agents \X ({x.thread : x \in Arrivals} \cup {"none"})
  <1>1. ThreadKey(m) \in {x.thread : x \in Arrivals} \cup {"none"}
    BY ArrivedMessage DEF ThreadKey
  <1> QED BY <1>1 DEF TypeOK

\* The agents one routing has yet to visit are replaced, and no others.
LEMMA FanSet ==
    ASSUME TypeOK, NEW m \in Msgs, NEW c \in Causes, NEW S \in SUBSET Agents,
           fan' = [fan EXCEPT ![m][c] = S]
    PROVE  /\ fan' \in [Msgs -> [Causes -> SUBSET Agents]]
           /\ \A n \in Msgs, d \in Causes : fan'[n][d] = IF n = m /\ d = c THEN S ELSE fan[n][d]
  <1>1. fan \in [Msgs -> [Causes -> SUBSET Agents]]
    BY DEF TypeOK
  <1>2. fan' = [fan EXCEPT ![m] = [fan[m] EXCEPT ![c] = S]]
    OBVIOUS
  <1>3. [fan[m] EXCEPT ![c] = S] \in [Causes -> SUBSET Agents]
    BY <1>1
  <1> QED BY <1>1, <1>2, <1>3

\* Who listens for a message, and whether the gate passes it, stays the same.
LEMMA ListensSame ==
    ASSUME TypeOK, Grows, NEW m \in Msgs, Arrived(m), NEW b \in Agents,
           wiring' = wiring \/ b \in Wired
    PROVE  (Listens(b, m)' <=> Listens(b, m)) /\ (Passes(m)' <=> Passes(m))
  <1>1. arrival'[m] = arrival[m] /\ wiring'[b] = wiring[b] /\ policy' = policy
    BY DEF Grows
  <1> QED BY <1>1 DEF Listens, Passes, Filtered, Denied, Sender, Mention

-----------------------------------------------------------------------------
(* Steps that route nothing.                                               *)

\* The router's state is left alone.
LEMMA QuietStep ==
    ASSUME IInv, UNCHANGED <<arrival, policy, wiring, member, sessions, dropped, inbox, fan, took,
                             routed, crashed>>,
           chat' \in {chat, "denied"}
    PROVE  Grows /\ PlaceInv' /\ WholeInv' /\ LossInv' /\ ReplayInv'
  <1> USE DEF IInv
  <1>1. Grows
    BY DEF Grows
  <1>2. PlaceInv'
    BY DEF PlaceInv, Arrived, Mention, Wired
  <1>3. WholeInv'
    BY DEF WholeInv, InInbox, Passes, Filtered, Denied, Listens, Sender, Mention
  <1>4. LossInv'
    BY DEF LossInv, Arrived, Mention, InInbox, Passes, Filtered, Denied, Sender
  <1>5. ReplayInv'
    BY DEF ReplayInv, Wants, Arrived, Sender, Wired, Engages, Mention, ThreadKey, Knows,
           Passes, Filtered, Denied
  <1> QED BY <1>1, <1>2, <1>3, <1>4, <1>5

\* Nothing about requests for the chat changes.
LEMMA ChannelAlone ==
    ASSUME IInv, Grows, UNCHANGED <<chat, wiring, channelRow, channelAsking, twice>>
    PROVE  ChannelInv'
  <1>1. \A r \in channelAsking : r[1] \in Msgs
    BY DEF IInv, TypeOK, Routings
  <1>2. channelRow # NoRow => channelRow.msg \in Msgs
    BY DEF IInv, TypeOK, Pending
  <1>3. \A m \in Msgs : Arrived(m) => Arrived(m)'
    BY DEF Grows, Arrived
  <1> QED BY <1>1, <1>2, <1>3 DEF IInv, ChannelInv, Wired

\* The parts of a sender's row and request.
LEMMA SenderRows ==
    ASSUME TypeOK
    PROVE  /\ \A u \in Users : senderRow[u] # NoRow =>
                 senderRow[u].agent \in Agents /\ senderRow[u].msg \in Msgs
           /\ \A q \in senderAsking : /\ q[1] \in Agents /\ q[2] \in Routings
                                       /\ q[2][1] \in Msgs /\ q[2][2] \in Causes
                                       /\ q = <<q[1], <<q[2][1], q[2][2]>>>>
  BY DEF TypeOK, Pending, Routings

\* Nothing about requests for senders changes; whoever becomes a member had no
\* request under way.
LEMMA SenderAlone ==
    ASSUME IInv, Grows, UNCHANGED <<senderRow, senderAsking, overlap>>,
           \A u \in Users, a \in Wired : <<u, a>> \in member' => <<u, a>> \in member
    PROVE  AskingInv' /\ SenderInv'
  <1> USE DEF IInv
  <1>1. \A q \in senderAsking :
          LET m == q[2][1] IN m \in Msgs /\ Arrived(m) /\ Sender(m)' = Sender(m)
    BY SenderRows DEF AskingInv, Wants, Grows, Arrived, Sender
  <1>2. AskingInv'
    <2> SUFFICES ASSUME NEW q \in senderAsking
                 PROVE  LET a == q[1]
                            m == q[2][1]
                            u == Sender(m)
                        IN  /\ u \in Users /\ Wants(u, a, m)'
                            /\ <<u, a>> \in overlap \/
                                 /\ <<u, a>> \notin member'
                                 /\ senderRow[u] # NoRow => senderRow[u].agent # a
                                 /\ \A p \in senderAsking : p[1] = a /\ Sender(p[2][1]) = u => p = q
      BY <1>1 DEF AskingInv
    <2>1. Sender(q[2][1]) \in Users /\ Wants(Sender(q[2][1]), q[1], q[2][1]) /\ q[1] \in Wired
      BY DEF AskingInv, Wants
    <2>2. Wants(Sender(q[2][1]), q[1], q[2][1])'
      BY <1>1, <2>1, WantsGrown
    <2> QED BY <2>1, <2>2 DEF AskingInv
  <1>3. SenderInv'
    <2> SUFFICES ASSUME NEW u \in Users, senderRow[u] # NoRow
                 PROVE  LET a == senderRow[u].agent
                            m == senderRow[u].msg
                        IN  /\ Wants(u, a, m)'
                            /\ <<u, a>> \in overlap \/ <<u, a>> \notin member'
      BY DEF SenderInv
    <2>1. senderRow[u].msg \in Msgs /\ Wants(u, senderRow[u].agent, senderRow[u].msg)
          /\ senderRow[u].agent \in Wired
      BY SenderRows DEF SenderInv, Wants
    <2>2. Wants(u, senderRow[u].agent, senderRow[u].msg)'
      BY <2>1, WantsGrown
    <2> QED BY <2>1, <2>2 DEF SenderInv
  <1> QED BY <1>2, <1>3

\* A card that is lost costs a fault, and there are no more than MaxFaults.
LEMMA CardFaults ==
    ASSUME TypeOK,
           Fault \/ UNCHANGED faults \/ \E card \in Cards : FaultIf(card = "lost")
    PROVE  faults' \in 0..MaxFaults
  BY BoundsAssumption DEF TypeOK, Fault, Cards, FaultIf

\* A sender's row is written, or there is one already.
LEMMA SenderRequestKeeps ==
    ASSUME IInv, NEW a \in Agents, NEW m \in Msgs, NEW c \in Causes, SenderRequest(a, m, c)
    PROVE  IInv'
  <1> USE DEF IInv
  <1> DEFINE q0 == <<a, <<m, c>>>>
             u0 == Sender(m)
  <1>1. /\ q0 \in senderAsking /\ senderAsking' = senderAsking \ {q0}
        /\ UNCHANGED <<arrival, chat, policy, wiring, member, channelRow, sessions, dropped, inbox,
                       running, fan, took, channelAsking, overlap, twice, routed, crashed>>
    BY DEF SenderRequest, chatVars, fanVars
  <1>2. /\ u0 \in Users /\ Wants(u0, a, m)
        /\ <<u0, a>> \in overlap \/
              /\ <<u0, a>> \notin member
              /\ senderRow[u0] # NoRow => senderRow[u0].agent # a
              /\ \A p \in senderAsking : p[1] = a /\ Sender(p[2][1]) = u0 => p = q0
    BY <1>1 DEF AskingInv
  <1>3. \/ senderRow' = senderRow
        \/ /\ senderRow[u0] = NoRow
           /\ \E card \in {"shown", "lost"} :
                 senderRow' = [senderRow EXCEPT ![u0] = [agent |-> a, msg |-> m, card |-> card]]
    BY DEF SenderRequest, Cards
  <1>4. TypeOK'
    <2>1. faults' \in 0..MaxFaults
      BY CardFaults DEF SenderRequest
    <2>2. senderRow' \in [Users -> Pending]
      BY <1>3 DEF TypeOK, Pending
    <2> QED BY <1>1, <2>1, <2>2 DEF TypeOK
  <1>5. Grows /\ PlaceInv' /\ WholeInv' /\ LossInv' /\ ReplayInv'
    BY <1>1, QuietStep
  <1>6. ChannelInv'
    BY <1>1, <1>5, ChannelAlone
  <1>7. \/ senderRow' = senderRow
        \/ /\ senderRow'[u0] # NoRow /\ senderRow'[u0].agent = a /\ senderRow'[u0].msg = m
           /\ \A u \in Users \ {u0} : senderRow'[u] = senderRow[u]
    BY <1>2, <1>3, AgentsAssumption DEF TypeOK, NoRow
  <1>8. \A n : Sender(n)' = Sender(n)
    BY <1>1 DEF Sender
  <1>9. AskingInv'
    <2> SUFFICES ASSUME NEW q \in senderAsking, q # q0
                 PROVE  LET b == q[1]
                            n == q[2][1]
                            u == Sender(n)
                        IN  /\ u \in Users /\ Wants(u, b, n)'
                            /\ <<u, b>> \in overlap \/
                                 /\ <<u, b>> \notin member
                                 /\ senderRow'[u] # NoRow => senderRow'[u].agent # b
                                 /\ \A p \in senderAsking' : p[1] = b /\ Sender(p[2][1]) = u => p = q
      BY <1>1, <1>8 DEF AskingInv
    <2> DEFINE b == q[1]
               n == q[2][1]
               u == Sender(n)
    <2>1. /\ u \in Users /\ Wants(u, b, n)
          /\ <<u, b>> \in overlap \/
               /\ <<u, b>> \notin member
               /\ senderRow[u] # NoRow => senderRow[u].agent # b
               /\ \A p \in senderAsking : p[1] = b /\ Sender(p[2][1]) = u => p = q
      BY DEF AskingInv
    <2>2. Wants(u, b, n)'
      BY <1>5, <1>8, <2>1, SenderRows, WantsGrown
    <2>3. <<u, b>> \notin overlap => ~(b = a /\ u = u0)
      BY <1>1, <1>2
    <2>4. <<u, b>> \notin overlap => (senderRow'[u] # NoRow => senderRow'[u].agent # b)
      BY <1>7, <2>1, <2>3
    <2>5. <<u, b>> \notin overlap =>
             \A p \in senderAsking' : p[1] = b /\ Sender(p[2][1]) = u => p = q
      BY <1>1, <2>1
    <2>6. <<u, b>> \in overlap \/
            /\ <<u, b>> \notin member
            /\ senderRow'[u] # NoRow => senderRow'[u].agent # b
            /\ \A p \in senderAsking' : p[1] = b /\ Sender(p[2][1]) = u => p = q
      BY <2>1, <2>4, <2>5
    <2> QED BY <2>1, <2>2, <2>6
  <1>10. SenderInv'
    <2> SUFFICES ASSUME NEW u \in Users, senderRow'[u] # NoRow
                 PROVE  LET b == senderRow'[u].agent
                            n == senderRow'[u].msg
                        IN  Wants(u, b, n) /\ (<<u, b>> \in overlap \/ <<u, b>> \notin member)
      BY <1>1 DEF SenderInv, Wants, Arrived, Sender, Wired, Engages, Mention, ThreadKey
    <2>1. CASE senderRow'[u] = senderRow[u]
      BY <2>1 DEF SenderInv
    <2>2. CASE senderRow'[u] # senderRow[u]
      BY <1>2, <1>7, <2>2
    <2> QED BY <2>1, <2>2
  <1> QED BY <1>4, <1>5, <1>6, <1>9, <1>10

\* The chat's row is written, or there is one already.
LEMMA ChannelRequestKeeps ==
    ASSUME IInv, NEW m \in Msgs, NEW c \in Causes, ChannelRequest(m, c)
    PROVE  IInv'
  <1> USE DEF IInv
  <1>1. /\ <<m, c>> \in channelAsking /\ channelAsking' = channelAsking \ {<<m, c>>}
        /\ UNCHANGED <<arrival, chat, policy, wiring, member, senderRow, sessions, dropped, inbox,
                       running, fan, took, senderAsking, overlap, twice, routed, crashed>>
    BY DEF ChannelRequest, chatVars, fanVars
  <1>2. \/ channelRow' = channelRow
        \/ channelRow = NoRow /\ \E card \in {"shown", "lost"} :
                                    channelRow' = [agent |-> Target, msg |-> m, card |-> card]
    BY DEF ChannelRequest, Cards
  <1>3. TypeOK'
    <2>1. faults' \in 0..MaxFaults
      BY CardFaults DEF ChannelRequest
    <2>2. channelRow' \in Pending
      BY <1>2, AgentsAssumption DEF TypeOK, Pending
    <2> QED BY <1>1, <2>1, <2>2 DEF TypeOK
  <1>4. Grows /\ PlaceInv' /\ WholeInv' /\ LossInv' /\ ReplayInv'
    BY <1>1, QuietStep
  <1>5. AskingInv' /\ SenderInv'
    BY <1>1, <1>4, SenderAlone
  <1>6. ChannelInv'
    <2>1. Arrived(m) /\ \A n : Arrived(n)' = Arrived(n)
      BY <1>1 DEF ChannelInv, Arrived
    <2>2. /\ \A r \in channelAsking' : Arrived(r[1])
          /\ channelRow' # NoRow => Arrived(channelRow'.msg)
      BY <1>1, <1>2, <2>1 DEF ChannelInv
    <2>3. ~twice =>
            /\ \A r, s \in channelAsking' : r = s
            /\ channelRow' # NoRow => channelAsking' = {}
            /\ channelRow' # NoRow \/ channelAsking' # {} => chat = "open" /\ Wired = {}
      BY <1>1, <1>2 DEF ChannelInv
    <2> QED BY <1>1, <2>1, <2>2, <2>3 DEF ChannelInv, Wired
  <1> QED BY <1>3, <1>4, <1>5, <1>6

\* An owner denies a sender, or the chat.
LEMMA DenyKeeps ==
    ASSUME IInv, DenyChannel \/ \E u \in Users : DenySender(u)
    PROVE  IInv'
  <1> USE DEF IInv
  <1>1. CASE DenyChannel
    <2>1. /\ channelRow # NoRow /\ channelRow' = NoRow /\ chat' = "denied"
          /\ UNCHANGED <<arrival, policy, wiring, member, senderRow, sessions, dropped, inbox,
                         running, fan, took, senderAsking, channelAsking, overlap, twice, routed,
                         crashed, faults>>
      BY <1>1 DEF DenyChannel, Asked, fanVars, askVars
    <2>2. TypeOK'
      BY <2>1 DEF TypeOK, Pending
    <2>3. Grows /\ PlaceInv' /\ WholeInv' /\ LossInv' /\ ReplayInv'
      BY <2>1, QuietStep
    <2>4. AskingInv' /\ SenderInv'
      BY <2>1, <2>3, SenderAlone
    <2>5. ChannelInv'
      BY <2>1 DEF ChannelInv, Arrived, Wired
    <2> QED BY <2>2, <2>3, <2>4, <2>5
  <1>2. ASSUME NEW u \in Users, DenySender(u) PROVE IInv'
    <2>1. /\ senderRow' = [senderRow EXCEPT ![u] = NoRow]
          /\ UNCHANGED <<arrival, chat, policy, wiring, member, channelRow, sessions, dropped, inbox,
                         running, fan, took, senderAsking, channelAsking, overlap, twice, routed,
                         crashed, faults>>
      BY <1>2 DEF DenySender, chatVars, fanVars, askVars
    <2>2. TypeOK'
      BY <2>1 DEF TypeOK, Pending
    <2>3. Grows /\ PlaceInv' /\ WholeInv' /\ LossInv' /\ ReplayInv'
      BY <2>1, QuietStep
    <2>4. ChannelInv'
      BY <2>1, <2>3, ChannelAlone
    <2>5. \A v \in Users : senderRow'[v] # NoRow => senderRow'[v] = senderRow[v]
      BY <2>1 DEF TypeOK
    <2>6. \A x, b, n : Wants(x, b, n)' <=> Wants(x, b, n)
      BY <2>1 DEF Wants, Arrived, Sender, Wired, Engages, Mention, ThreadKey
    <2>7. AskingInv'
      BY <2>1, <2>5, <2>6 DEF AskingInv, Sender
    <2>8. SenderInv'
      <3>0. UNCHANGED <<arrival, wiring, sessions, member, overlap>>
        BY <2>1
      <3> SUFFICES ASSUME NEW v \in Users, senderRow'[v] # NoRow
                   PROVE  LET b == senderRow'[v].agent
                              n == senderRow'[v].msg
                          IN  Wants(v, b, n) /\ (<<v, b>> \in overlap \/ <<v, b>> \notin member)
        BY <3>0 DEF SenderInv, Wants, Arrived, Sender, Wired, Engages, Mention, ThreadKey
      <3>1. senderRow'[v] = senderRow[v]
        BY <2>5
      <3> QED BY <3>1 DEF SenderInv
    <2> QED BY <2>2, <2>3, <2>4, <2>7, <2>8
  <1> QED BY <1>1, <1>2

\* The host dies: every routing that was under way is cut off.
LEMMA HostRestartKeeps ==
    ASSUME IInv, HostRestart
    PROVE  IInv'
  <1> USE DEF IInv
  <1>1. /\ crashed' = crashed \cup {r \in Routings : fan[r[1]][r[2]] # {}}
        /\ fan' = [m \in Msgs |-> [c \in Causes |-> {}]]
        /\ running' = Idle /\ took' = {} /\ senderAsking' = {} /\ channelAsking' = {}
        /\ UNCHANGED <<arrival, chat, policy, wiring, member, senderRow, channelRow, sessions, dropped,
                       inbox, overlap, twice, routed>>
    BY DEF HostRestart, chatVars, rowVars
  <1>2. \A m \in Msgs, c \in Causes : fan[m][c] # {} => <<m, c>> \in crashed'
    BY <1>1 DEF Routings
  <1>3. TypeOK'
    <2>1. crashed' \in SUBSET routed
      BY <1>1 DEF TypeOK, PlaceInv, Routings
    <2>2. faults' \in 0..MaxFaults
      BY CardFaults DEF HostRestart
    <2> QED BY <1>1, <2>1, <2>2 DEF TypeOK
  <1>4. Grows
    BY <1>1 DEF Grows
  <1>5. PlaceInv'
    BY <1>1 DEF PlaceInv, Arrived, Mention, Wired
  <1>6. WholeInv'
    <2>1. \A n \in Msgs, a, b \in Agents :
             /\ \A c \in Causes : <<n, c>> \notin crashed'
             /\ inbox[n][a] # "none" /\ Listens(b, n)
             => inbox[n][b] # "none"
      BY <1>1, <1>2 DEF WholeInv
    <2>2. \A n \in Msgs, b \in Agents : Listens(b, n)' <=> Listens(b, n)
      BY <1>1 DEF Listens, Sender, Mention
    <2>3. \A n \in Msgs : (Passes(n)' <=> Passes(n)) /\ (InInbox(n)' <=> InInbox(n))
      BY <1>1 DEF InInbox, Passes, Filtered, Denied, Sender
    <2>4. \A n \in Msgs, d \in Causes : fan'[n][d] = {}
      BY <1>1
    <2>5. \A n \in Msgs : InInbox(n)' => Passes(n)'
      BY <2>3 DEF WholeInv
    <2>6. inbox' = inbox
      BY <1>1
    <2> HIDE DEF IInv
    <2> QED BY <2>1, <2>2, <2>4, <2>5, <2>6 DEF WholeInv
  <1>7. AskingInv' /\ ChannelInv'
    BY <1>1 DEF AskingInv, ChannelInv, Arrived, Wired
  <1>8. SenderInv'
    BY <1>1 DEF SenderInv, Wants, Arrived, Sender, Wired, Engages, Mention, ThreadKey
  <1>9. LossInv'
    <2>1. \A m \in Msgs : <<m, "first">> \in routed \ crashed' => fan[m]["first"] = {}
                          /\ <<m, "first">> \in routed \ crashed
      BY <1>1, <1>2 DEF Causes
    <2> QED BY <1>1, <2>1 DEF LossInv, Arrived, Mention, InInbox, Passes, Filtered, Denied, Sender
  <1>10. ReplayInv'
    <2>1. \A m \in Msgs, a \in Agents : <<m, a>> \notin crashed' => fan[m][a] = {}
                                       /\ <<m, a>> \notin crashed
      BY <1>1, <1>2 DEF Causes
    <2>2. \A x, b, n : Wants(x, b, n)' <=> Wants(x, b, n)
      BY <1>1 DEF Wants, Arrived, Sender, Wired, Engages, Mention, ThreadKey
    <2> QED BY <1>1, <2>1, <2>2 DEF ReplayInv, Sender, Knows, Passes, Filtered, Denied
  <1> QED BY <1>3, <1>5, <1>6, <1>7, <1>8, <1>9, <1>10

-----------------------------------------------------------------------------
(* Steps that route a message.                                             *)

\* A routing visits all wired agents, or asks and drops where there are none.
LEMMA RouteFacts ==
    ASSUME IInv, Grows, wiring' \in [Agents -> Wiring \cup {Unwired}],
           NEW m \in Msgs, NEW c \in Causes, Route(m, c)
    PROVE  /\ fan' \in [Msgs -> [Causes -> SUBSET Agents]]
           /\ \A n \in Msgs, d \in Causes : fan'[n][d] = IF n = m /\ d = c THEN Wired' ELSE fan[n][d]
           /\ routed' = routed \cup {<<m, c>>} /\ routed' \in SUBSET Routings
           /\ took' = took \ {<<m, c>>} /\ took' \in SUBSET Routings
           /\ running' \in Routings \cup {Idle}
           /\ dropped' \in SUBSET Msgs /\ dropped \subseteq dropped'
           /\ Wired' = {} /\ Mention(m)' /\ chat # "denied" => m \in dropped'
  <1> USE DEF IInv
  <1>1. Wired' = {a \in Agents : wiring'[a] # Unwired} /\ Wired' \in SUBSET Agents
    BY DEF Wired
  <1>2. Wired \subseteq Wired'
    BY DEF Grows, Wired
  <1>3. <<m, c>> \in Routings
    BY DEF Routings
  <1>4. /\ routed' = routed \cup {<<m, c>>} /\ routed' \in SUBSET Routings
        /\ took' = took \ {<<m, c>>} /\ took' \in SUBSET Routings
    BY <1>3 DEF Route, TypeOK
  <1>5. CASE Wired' # {}
    <2>1. fan' = [fan EXCEPT ![m][c] = Wired'] /\ running' = <<m, c>> /\ dropped' = dropped
      BY <1>1, <1>5 DEF Route
    <2> QED BY <1>1, <1>3, <1>4, <1>5, <2>1, FanSet DEF TypeOK
  <1>6. CASE Wired' = {}
    <2>1. fan' = fan /\ running' = running /\ dropped' \in SUBSET Msgs /\ dropped \subseteq dropped'
          /\ (Mention(m)' /\ chat # "denied" => m \in dropped')
      BY <1>1, <1>6 DEF Route, TypeOK, Mention
    <2>2. fan[m][c] = {}
      BY <1>2, <1>6 DEF PlaceInv
    <2> QED BY <1>4, <1>6, <2>1, <2>2 DEF TypeOK
  <1> QED BY <1>5, <1>6

\* A routing keeps the router's part of the invariant.  A replay is for an agent
\* that wants the message and to which its sender has been admitted.
LEMMA RouteStep ==
    ASSUME IInv, Grows, wiring' \in [Agents -> Wiring \cup {Unwired}],
           NEW m \in Msgs, NEW c \in Causes, Route(m, c),
           Arrived(m)', \A n \in Msgs \ {m} : arrival'[n] = arrival[n],
           UNCHANGED <<inbox, crashed>>, (chat' = "denied") <=> (chat = "denied"),
           \A n \in Msgs : Arrived(n)' /\ Mention(n)' => chat' # "absent",
           c \in Agents => Wants(Sender(m), c, m)' /\ Knows(c, Sender(m))',
           fan[m][c] = {}, wiring' = wiring \/ (Wired = {} /\ Wired' \subseteq {Target})
    PROVE  PlaceInv' /\ WholeInv' /\ LossInv' /\ ReplayInv'
  <1> USE DEF IInv
  <1>1. /\ \A n \in Msgs, d \in Causes : fan'[n][d] = IF n = m /\ d = c THEN Wired' ELSE fan[n][d]
        /\ routed' = routed \cup {<<m, c>>} /\ took' = took \ {<<m, c>>} /\ dropped \subseteq dropped'
        /\ Wired' = {} /\ Mention(m)' /\ chat # "denied" => m \in dropped'
    BY RouteFacts
  <1>2. Wired \subseteq Wired'
    BY DEF Grows, Wired
  <1>3. \A n \in Msgs : Arrived(n) => /\ Arrived(n)' /\ arrival'[n] = arrival[n]
                                      /\ Mention(n)' = Mention(n) /\ Sender(n)' = Sender(n)
                                      /\ Passes(n)' = Passes(n)
    BY DEF Grows, Arrived, Mention, Sender, Passes, Filtered, Denied
  <1>4. PlaceInv'
    <2>1. ASSUME NEW n \in Msgs, NEW d \in Causes
          PROVE  /\ fan'[n][d] \subseteq Wired'
                 /\ fan'[n][d] # {} => <<n, d>> \in routed'
                 /\ <<n, d>> \in routed' \cup took' => Arrived(n)'
      <3>1. CASE n = m /\ d = c
        BY <1>1, <3>1
      <3>2. CASE ~(n = m /\ d = c)
        BY <1>1, <1>2, <1>3, <3>2 DEF PlaceInv
      <3> QED BY <3>1, <3>2
    <2> QED BY <1>2, <1>3, <2>1 DEF PlaceInv
  <1>5. WholeInv'
    <2>1. \A n \in Msgs : InInbox(n)' = InInbox(n) /\ (InInbox(n) => Arrived(n) /\ Wired # {})
      BY DEF InInbox, PlaceInv
    <2>2. \A n \in Msgs : InInbox(n) => Passes(n)'
      BY <1>3, <2>1 DEF WholeInv
    <2>3. ASSUME NEW n \in Msgs, Passes(n)', NEW d \in Causes, NEW b \in Agents,
                 fan'[n][d] # {}, Listens(b, n)'
          PROVE  b \in fan'[n][d] \/ inbox[n][b] # "none"
      <3>1. CASE n = m /\ d = c
        BY <1>1, <2>3, <3>1 DEF Listens, Wired
      <3>2. CASE ~(n = m /\ d = c)
        <4>1. fan'[n][d] = fan[n][d] /\ Arrived(n) /\ Wired # {}
          BY <1>1, <2>3, <3>2 DEF PlaceInv
        <4>2. Listens(b, n) /\ Passes(n)
          BY <1>3, <2>3, <4>1, ListensSame
        <4> QED BY <2>3, <4>1, <4>2 DEF WholeInv
      <3> QED BY <3>1, <3>2
    <2>4. ASSUME NEW n \in Msgs, \A d \in Causes : <<n, d>> \notin crashed,
                 NEW a \in Agents, NEW b \in Agents,
                 inbox[n][a] # "none", Listens(b, n)', inbox[n][b] = "none"
          PROVE  \E d \in Causes : b \in fan'[n][d] /\ \A y \in fan'[n][d] : Rank[a] < Rank[y]
      <3>1. Arrived(n) /\ wiring' = wiring
        BY <2>1, <2>4 DEF InInbox
      <3>2. Listens(b, n)
        BY <2>4, <3>1, ListensSame
      <3>3. PICK d \in Causes : b \in fan[n][d] /\ \A y \in fan[n][d] : Rank[a] < Rank[y]
        BY <2>4, <3>2 DEF WholeInv
      <3> QED BY <1>1, <3>3
    <2> QED BY <2>1, <2>2, <2>3, <2>4 DEF WholeInv
  <1>6. LossInv'
    <2> SUFFICES ASSUME NEW n \in Msgs, Arrived(n)', Passes(n)'
                 PROVE  /\ \A d \in Causes : <<n, d>> \in took' => InInbox(n)
                        /\ <<n, "first">> \in routed' \ crashed /\ Mention(n)' =>
                              n \in dropped' \/ chat' = "denied" \/ InInbox(n) \/ fan'[n]["first"] # {}
      BY DEF LossInv, InInbox
    <2>1. \A d \in Causes : <<n, d>> \in took' => InInbox(n)
      BY <1>1, <1>3 DEF LossInv, PlaceInv
    <2>2. ASSUME <<n, "first">> \in routed' \ crashed, Mention(n)'
          PROVE  n \in dropped' \/ chat' = "denied" \/ InInbox(n) \/ fan'[n]["first"] # {}
      <3>0. "first" \in Causes
        BY DEF Causes
      <3>1. CASE n = m /\ c = "first"
        BY <1>1, <2>2, <3>0, <3>1
      <3>2. CASE ~(n = m /\ c = "first")
        <4>1. <<n, "first">> \in routed \ crashed
          BY <1>1, <2>2, <3>2
        <4>2. Arrived(n) /\ Mention(n) /\ Passes(n)
          BY <1>3, <2>2, <3>0, <4>1 DEF PlaceInv
        <4> QED BY <1>1, <3>0, <3>2, <4>1, <4>2 DEF LossInv
      <3> QED BY <3>1, <3>2
    <2> QED BY <2>1, <2>2
  <1>7. ReplayInv'
    <2> SUFFICES ASSUME NEW n \in Msgs, NEW a \in Agents, <<n, a>> \in routed'
                 PROVE  /\ Wants(Sender(n), a, n)' /\ Knows(a, Sender(n))'
                        /\ <<n, a>> \notin crashed /\ Passes(n)' =>
                              a \in fan'[n][a] \/ \E b \in Agents : Rank[b] <= Rank[a] /\ inbox[n][b] # "none"
      BY DEF ReplayInv
    <2>0. a \in Causes
      BY DEF Causes
    <2>1. CASE n = m /\ a = c
      BY <1>1, <2>0, <2>1 DEF Wants
    <2>2. CASE ~(n = m /\ a = c)
      <3>1. <<n, a>> \in routed /\ Arrived(n) /\ fan'[n][a] = fan[n][a]
        BY <1>1, <2>0, <2>2 DEF PlaceInv
      <3>2. Wants(Sender(n), a, n) /\ Knows(a, Sender(n)) /\ a \in Wired
        BY <3>1 DEF ReplayInv, Wants
      <3>3. Wants(Sender(n), a, n)' /\ Knows(a, Sender(n))'
        BY <1>3, <3>1, <3>2, Grown DEF Wants
      <3> QED BY <1>3, <3>1, <3>3 DEF ReplayInv
    <2> QED BY <2>1, <2>2
  <1> QED BY <1>4, <1>5, <1>6, <1>7

\* A routing asks about the chat only where it is neither wired nor denied.
LEMMA RouteAsks ==
    ASSUME IInv, Grows, UNCHANGED <<wiring, channelRow>>,
           NEW m \in Msgs, NEW c \in Causes, Route(m, c),
           Arrived(m)', (chat' = "denied") <=> (chat = "denied"), chat = "open" => chat' = "open",
           chat' \in {"absent", "open", "denied"}, Mention(m)' => chat' # "absent"
    PROVE  /\ ChannelInv'
           /\ channelAsking' \in SUBSET Routings /\ twice' \in BOOLEAN
  <1> USE DEF IInv
  <1>1. /\ \A r \in channelAsking : r[1] \in Msgs
        /\ channelRow # NoRow => channelRow.msg \in Msgs
        /\ <<m, c>> \in Routings
    BY DEF TypeOK, Routings, Pending
  <1>2. \A n \in Msgs : Arrived(n) => Arrived(n)'
    BY DEF Grows, Arrived
  <1>3. Wired' = Wired
    BY DEF Wired
  <1>4. CASE UNCHANGED <<channelAsking, twice>>
    BY <1>1, <1>2, <1>3, <1>4 DEF ChannelInv, TypeOK
  <1>5. CASE /\ channelRow = NoRow /\ Wired = {} /\ Mention(m)' /\ chat # "denied"
             /\ channelAsking' = channelAsking \cup {<<m, c>>}
             /\ twice' = (twice \/ channelAsking # {})
    <2>1. chat' = "open"
      BY <1>5
    <2>2. \A r \in channelAsking' : Arrived(r[1])'
      BY <1>1, <1>2, <1>5 DEF ChannelInv
    <2>3. ~twice' => channelAsking' = {<<m, c>>}
      BY <1>5
    <2> QED BY <1>1, <1>3, <1>5, <2>1, <2>2, <2>3 DEF ChannelInv, TypeOK
  <1> QED BY <1>4, <1>5 DEF Route, AskChannel, Mention, Wired

\* The next message arrives.
LEMMA ArriveKeeps ==
    ASSUME IInv, NEW m \in Msgs, Arrive(m)
    PROVE  IInv'
  <1> USE DEF IInv
  <1>1. PICK x \in Arrivals : /\ arrival' = [arrival EXCEPT ![m] = x]
                              /\ chat' = IF chat = "absent" /\ x.mention THEN "open" ELSE chat
    BY DEF Arrive
  <1>2. /\ ~Arrived(m) /\ Route(m, "first")
        /\ UNCHANGED <<wiring, policy, member, senderRow, channelRow, sessions, inbox, senderAsking,
                       overlap, crashed, faults>>
    BY DEF Arrive, Arrived, rowVars
  <1>3. /\ arrival' \in [Msgs -> Arrivals \cup {NotSent}]
        /\ \A n \in Msgs : arrival'[n] = IF n = m THEN x ELSE arrival[n]
    BY <1>1 DEF TypeOK
  <1>4. x # NotSent
    <2>1. x \in Message
      BY ArrivalsAssumption
    <2>2. x.text \in Texts
      BY <2>1 DEF Message
    <2> QED BY <2>2 DEF NotSent, Texts
  <1>5. Grows
    BY <1>2, <1>3 DEF Grows, Arrived
  <1>6. /\ Arrived(m)' /\ Mention(m)' = x.mention
        /\ \A n \in Msgs \ {m} : Arrived(n)' = Arrived(n) /\ Mention(n)' = Mention(n)
    BY <1>3, <1>4 DEF Arrived, Mention
  <1>7. /\ chat' \in {"absent", "open", "denied"} /\ ((chat' = "denied") <=> (chat = "denied"))
        /\ chat = "open" => chat' = "open"
        /\ Mention(m)' => chat' # "absent"
        /\ chat # "absent" => chat' # "absent"
    BY <1>1, <1>6 DEF TypeOK
  <1>8. "first" \in Causes /\ "first" \notin Agents
    BY AgentsAssumption DEF Causes
  <1>9. wiring' \in [Agents -> Wiring \cup {Unwired}]
    BY <1>2 DEF TypeOK
  <1>10. PlaceInv' /\ WholeInv' /\ LossInv' /\ ReplayInv'
    <2>1. \A n \in Msgs : Arrived(n)' /\ Mention(n)' => chat' # "absent"
      BY <1>6, <1>7 DEF PlaceInv
    <2>2. fan[m]["first"] = {}
      BY <1>2, <1>8 DEF PlaceInv
    <2> QED BY <1>2, <1>3, <1>5, <1>6, <1>7, <1>8, <1>9, <2>1, <2>2, RouteStep
  <1>11. ChannelInv' /\ channelAsking' \in SUBSET Routings /\ twice' \in BOOLEAN
    BY <1>2, <1>5, <1>6, <1>7, <1>8, RouteAsks
  <1>12. AskingInv' /\ SenderInv'
    BY <1>2, <1>5, SenderAlone
  <1>13. TypeOK'
    <2>1. /\ fan' \in [Msgs -> [Causes -> SUBSET Agents]]
          /\ routed' \in SUBSET Routings /\ routed \subseteq routed' /\ took' \in SUBSET Routings
          /\ running' \in Routings \cup {Idle} /\ dropped' \in SUBSET Msgs
      BY <1>2, <1>5, <1>8, <1>9, RouteFacts
    <2> QED BY <1>2, <1>3, <1>7, <1>11, <2>1 DEF TypeOK
  <1> QED BY <1>10, <1>11, <1>12, <1>13

\* A message is delivered a second time.
LEMMA RedeliverKeeps ==
    ASSUME IInv, NEW m \in Msgs, Redeliver(m)
    PROVE  IInv'
  <1> USE DEF IInv
  <1>1. /\ Arrived(m) /\ Route(m, "again") /\ Fault
        /\ UNCHANGED <<arrival, chat, wiring, policy, member, senderRow, channelRow, sessions, inbox,
                       senderAsking, overlap, crashed>>
    BY DEF Redeliver, Arrived, rowVars
  <1>2. Grows
    BY <1>1 DEF Grows
  <1>3. \A n \in Msgs : Arrived(n)' = Arrived(n) /\ Mention(n)' = Mention(n)
    BY <1>1 DEF Arrived, Mention
  <1>4. "again" \in Causes /\ "again" \notin Agents
    BY AgentsAssumption DEF Causes
  <1>5. wiring' \in [Agents -> Wiring \cup {Unwired}] /\ chat' \in {"absent", "open", "denied"}
    BY <1>1 DEF TypeOK
  <1>6. \A n \in Msgs : Arrived(n)' /\ Mention(n)' => chat' # "absent"
    BY <1>1, <1>3 DEF PlaceInv
  <1>7. PlaceInv' /\ WholeInv' /\ LossInv' /\ ReplayInv'
    <2>1. fan[m]["again"] = {}
      BY <1>4 DEF Redeliver, PlaceInv
    <2> QED BY <1>1, <1>2, <1>3, <1>4, <1>5, <1>6, <2>1, RouteStep
  <1>8. ChannelInv' /\ channelAsking' \in SUBSET Routings /\ twice' \in BOOLEAN
    BY <1>1, <1>2, <1>3, <1>4, <1>5, <1>6, RouteAsks
  <1>9. AskingInv' /\ SenderInv'
    BY <1>1, <1>2, SenderAlone
  <1>10. TypeOK'
    <2>1. /\ fan' \in [Msgs -> [Causes -> SUBSET Agents]]
          /\ routed' \in SUBSET Routings /\ routed \subseteq routed' /\ took' \in SUBSET Routings
          /\ running' \in Routings \cup {Idle} /\ dropped' \in SUBSET Msgs
      BY <1>1, <1>2, <1>4, <1>5, RouteFacts
    <2>2. faults' \in 0..MaxFaults
      BY <1>1, CardFaults
    <2> QED BY <1>1, <1>8, <2>1, <2>2 DEF TypeOK
  <1> QED BY <1>7, <1>8, <1>9, <1>10

\* An owner admits a sender, whose message is routed again.
LEMMA ApproveSenderKeeps ==
    ASSUME IInv, NEW u \in Users, ApproveSender(u)
    PROVE  IInv'
  <1> USE DEF IInv
  <1>0. PICK a \in Agents, m \in Msgs : senderRow[u].agent = a /\ senderRow[u].msg = m
    BY SenderRows DEF ApproveSender, Asked
  <1>1. /\ senderRow[u] # NoRow /\ member' = member \cup {<<u, a>>}
        /\ senderRow' = [senderRow EXCEPT ![u] = NoRow]
        /\ Route(m, a) /\ fan[m][a] = {}
        /\ UNCHANGED <<arrival, chat, wiring, policy, channelRow, sessions, inbox, senderAsking,
                       overlap, crashed, faults>>
    BY <1>0 DEF ApproveSender, Asked
  <1>2. a \in Causes
    BY DEF Causes
  <1>3. Wants(u, a, m)
    BY <1>0, <1>1 DEF SenderInv
  <1>4. Grows
    BY <1>1 DEF Grows
  <1>5. \A n \in Msgs : Arrived(n)' = Arrived(n) /\ Mention(n)' = Mention(n) /\ Sender(n)' = Sender(n)
    BY <1>1 DEF Arrived, Mention, Sender
  <1>6. \A n \in Msgs : Arrived(n)' /\ Mention(n)' => chat' # "absent"
    BY <1>1, <1>5 DEF PlaceInv
  <1>7. wiring' \in [Agents -> Wiring \cup {Unwired}] /\ chat' \in {"absent", "open", "denied"}
    BY <1>1 DEF TypeOK
  <1>8. Wants(Sender(m), a, m)' /\ Knows(a, Sender(m))'
    <2>1. Wants(u, a, m)'
      BY <1>2, <1>3, <1>4, WantsGrown
    <2>2. Sender(m)' = u /\ <<u, a>> \in member'
      BY <1>1, <1>2, <1>3, <1>5 DEF Wants
    <2>3. Wants(Sender(m), a, m)'
      BY <1>1, <1>2, <1>3, <1>5, <2>1 DEF Wants
    <2> QED BY <1>1, <2>2, <2>3 DEF Knows
  <1>9. Arrived(m)'
    BY <1>2, <1>3, <1>5 DEF Wants
  <1>10. PlaceInv' /\ WholeInv' /\ LossInv' /\ ReplayInv'
    <2>1. a \in Agents => Wants(Sender(m), a, m)' /\ Knows(a, Sender(m))'
      BY <1>8
    <2> QED BY <1>1, <1>2, <1>4, <1>6, <1>7, <1>9, <2>1, RouteStep
  <1>11. ChannelInv' /\ channelAsking' \in SUBSET Routings /\ twice' \in BOOLEAN
    <2>1. Mention(m)' => chat' # "absent"
      BY <1>2, <1>6, <1>9
    <2> QED BY <1>1, <1>2, <1>4, <1>7, <1>9, <2>1, RouteAsks
  <1>12. \A v \in Users : senderRow'[v] # NoRow => v # u /\ senderRow'[v] = senderRow[v]
    BY <1>1 DEF TypeOK
  <1>13. AskingInv'
    <2> SUFFICES ASSUME NEW q \in senderAsking
                 PROVE  LET b == q[1]
                            n == q[2][1]
                            v == Sender(n)
                        IN  /\ v \in Users /\ Wants(v, b, n)'
                            /\ <<v, b>> \in overlap \/
                                 /\ <<v, b>> \notin member'
                                 /\ senderRow'[v] # NoRow => senderRow'[v].agent # b
                                 /\ \A p \in senderAsking : p[1] = b /\ Sender(p[2][1]) = v => p = q
      BY <1>1, <1>5, SenderRows DEF AskingInv
    <2> DEFINE b == q[1]
               n == q[2][1]
               v == Sender(n)
    <2>1. /\ v \in Users /\ Wants(v, b, n)
          /\ <<v, b>> \in overlap \/
               /\ <<v, b>> \notin member
               /\ senderRow[v] # NoRow => senderRow[v].agent # b
               /\ \A p \in senderAsking : p[1] = b /\ Sender(p[2][1]) = v => p = q
      BY DEF AskingInv
    <2>2. Wants(v, b, n)'
      BY <1>4, <1>5, <2>1, SenderRows, WantsGrown
    <2>3. <<v, b>> \notin overlap => ~(v = u /\ b = a)
      BY <1>0, <1>1, <2>1
    <2>4. <<v, b>> \notin overlap => <<v, b>> \notin member'
      BY <1>1, <2>1, <2>3
    <2>5. <<v, b>> \notin overlap => (senderRow'[v] # NoRow => senderRow'[v].agent # b)
      BY <1>12, <2>1
    <2> QED BY <2>1, <2>2, <2>4, <2>5
  <1>14. SenderInv'
    <2>1. \A v \in Users : senderRow'[v] # NoRow =>
             senderRow'[v].agent \in Agents /\ senderRow'[v].msg \in Msgs
      BY <1>12, SenderRows
    <2> SUFFICES ASSUME NEW v \in Users, senderRow'[v] # NoRow,
                        NEW b \in Agents, NEW n \in Msgs,
                        b = senderRow'[v].agent, n = senderRow'[v].msg
                 PROVE  Wants(v, b, n)' /\ (<<v, b>> \in overlap \/ <<v, b>> \notin member')
      BY <1>1, <2>1 DEF SenderInv
    <2>2. v # u /\ senderRow[v] # NoRow /\ senderRow[v].agent = b /\ senderRow[v].msg = n
      BY <1>12
    <2>3. Wants(v, b, n) /\ (<<v, b>> \in overlap \/ <<v, b>> \notin member)
      BY <2>2 DEF SenderInv
    <2>4. Wants(v, b, n)'
      BY <1>4, <2>3, WantsGrown
    <2> QED BY <1>1, <2>2, <2>3, <2>4
  <1>15. TypeOK'
    <2>1. /\ fan' \in [Msgs -> [Causes -> SUBSET Agents]]
          /\ routed' \in SUBSET Routings /\ routed \subseteq routed' /\ took' \in SUBSET Routings
          /\ running' \in Routings \cup {Idle} /\ dropped' \in SUBSET Msgs
      BY <1>1, <1>2, <1>4, <1>7, RouteFacts
    <2>2. member' \in SUBSET (Users \X Agents) /\ senderRow' \in [Users -> Pending]
      BY <1>1, <1>2 DEF TypeOK, Pending
    <2> QED BY <1>1, <1>11, <2>1, <2>2 DEF TypeOK
  <1> QED BY <1>10, <1>11, <1>13, <1>14, <1>15

\* An owner approves the chat, and the message that asked is routed again.
LEMMA ApproveChannelKeeps ==
    ASSUME IInv, ApproveChannel
    PROVE  IInv'
  <1> USE DEF IInv
  <1>0. PICK m \in Msgs : channelRow.msg = m
    BY DEF ApproveChannel, Asked, TypeOK, Pending
  <1>1. /\ channelRow # NoRow /\ channelRow' = NoRow /\ Target \notin Wired
        /\ wiring' = [wiring EXCEPT ![Target] = DefaultWiring(m)]
        /\ member' = IF Sender(m) = Nobody THEN member ELSE member \cup {<<Sender(m), Target>>}
        /\ Route(m, "channel")
        /\ UNCHANGED <<arrival, chat, policy, senderRow, sessions, inbox, senderAsking, overlap,
                       crashed, faults>>
    BY <1>0 DEF ApproveChannel, Asked
  <1>2. Arrived(m)
    BY <1>0, <1>1 DEF ChannelInv
  <1>3. "channel" \in Causes /\ "channel" \notin Agents /\ Target \in Agents
    BY AgentsAssumption DEF Causes
  <1>4. DefaultWiring(m) \in Wiring /\ DefaultWiring(m) # Unwired
    <2>1. DefaultWiring(m).mode \in Modes /\ DefaultWiring(m) \in Wiring
      BY DEF DefaultWiring, Wiring, Modes
    <2> QED BY <2>1 DEF Modes, Unwired
  <1>5. wiring' \in [Agents -> Wiring \cup {Unwired}] /\ chat' \in {"absent", "open", "denied"}
    BY <1>1, <1>4 DEF TypeOK
  <1>6. Grows
    <2>1. \A a \in Wired : wiring'[a] = wiring[a]
      BY <1>1 DEF TypeOK, Wired
    <2> QED BY <1>1, <2>1 DEF Grows
  <1>7. Target \in Wired'
    <2>1. wiring'[Target] = DefaultWiring(m)
      BY <1>1, <1>3 DEF TypeOK
    <2> QED BY <1>3, <1>4, <2>1 DEF Wired
  <1>8. \A n \in Msgs : Arrived(n)' = Arrived(n) /\ Mention(n)' = Mention(n)
    BY <1>1 DEF Arrived, Mention
  <1>9. PlaceInv' /\ WholeInv' /\ LossInv' /\ ReplayInv'
    <2>1. \A n \in Msgs : Arrived(n)' /\ Mention(n)' => chat' # "absent"
      BY <1>1, <1>8 DEF PlaceInv
    <2>2. Arrived(m)'
      BY <1>2, <1>8
    <2>3. Wired = {} /\ Wired' \subseteq {Target}
      BY <1>1 DEF ChannelInv, Wired, TypeOK
    <2>4. fan[m]["channel"] = {}
      BY <1>3, <2>3 DEF PlaceInv
    <2> QED BY <1>1, <1>3, <1>5, <1>6, <2>1, <2>2, <2>3, <2>4, RouteStep
  <1>10. UNCHANGED <<channelAsking, twice>>
    BY <1>1, <1>7 DEF Route, Wired
  <1>11. ChannelInv'
    <2>1. Wired' \subseteq {Target}
      BY <1>1 DEF ChannelInv, Wired, TypeOK
    <2>2. \A r \in channelAsking : Arrived(r[1])'
      BY <1>8 DEF ChannelInv, TypeOK, Routings
    <2>3. ~twice => channelAsking = {}
      BY <1>1 DEF ChannelInv
    <2> QED BY <1>1, <1>10, <2>1, <2>2, <2>3 DEF ChannelInv
  <1>12. AskingInv' /\ SenderInv'
    <2>1. \A u \in Users, a \in Wired : <<u, a>> \in member' => <<u, a>> \in member
      BY <1>1
    <2> QED BY <1>1, <1>6, <2>1, SenderAlone
  <1>13. TypeOK'
    <2>1. /\ fan' \in [Msgs -> [Causes -> SUBSET Agents]]
          /\ routed' \in SUBSET Routings /\ routed \subseteq routed' /\ took' \in SUBSET Routings
          /\ running' \in Routings \cup {Idle} /\ dropped' \in SUBSET Msgs
      BY <1>1, <1>3, <1>5, <1>6, RouteFacts
    <2>2. member' \in SUBSET (Users \X Agents)
      BY <1>1, <1>2, <1>3, ArrivedMessage DEF TypeOK
    <2>3. channelRow' \in Pending
      BY <1>1 DEF Pending
    <2> QED BY <1>1, <1>5, <1>10, <2>1, <2>2, <2>3 DEF TypeOK
  <1> QED BY <1>9, <1>11, <1>12, <1>13

-----------------------------------------------------------------------------
(* Visits to an agent.                                                     *)

\* The gate asks about a sender who is not a member and has no row; where another
\* request for the agent is under way the two overlap.
LEMMA GateStep ==
    ASSUME IInv, Grows, UNCHANGED <<arrival, member, senderRow>>,
           NEW m \in Msgs, NEW c \in Causes, NEW a \in Wired, Arrived(m), Gate(a, m, c)
    PROVE  /\ AskingInv' /\ SenderInv'
           /\ senderAsking' \in SUBSET (Agents \X Routings)
           /\ overlap' \in SUBSET (Users \X Agents)
  <1> USE DEF IInv
  <1> DEFINE q0 == <<a, <<m, c>>>>
             Same == \E q \in senderAsking : q[1] = a /\ Sender(q[2][1]) = Sender(m)
  <1>1. CASE UNCHANGED <<senderAsking, overlap>>
    BY <1>1, SenderAlone DEF TypeOK
  <1>2. ASSUME Refused(a, m), Sender(m) # Nobody, senderRow[Sender(m)] = NoRow,
               senderAsking' = senderAsking \cup {q0},
               overlap' = IF Same THEN overlap \cup {<<Sender(m), a>>} ELSE overlap
        PROVE  /\ AskingInv' /\ SenderInv'
               /\ senderAsking' \in SUBSET (Agents \X Routings)
               /\ overlap' \in SUBSET (Users \X Agents)
    <2>1. Sender(m) \in Users /\ a \in Agents
      BY <1>2, ArrivedMessage DEF Wired
    <2>2. Wants(Sender(m), a, m) /\ <<Sender(m), a>> \notin member
      BY <1>2 DEF Refused, AccessOk, Knows, Wants
    <2>3. /\ senderAsking' \in SUBSET (Agents \X Routings)
          /\ overlap' \in SUBSET (Users \X Agents) /\ overlap \subseteq overlap'
      BY <1>2, <2>1 DEF TypeOK, Routings
    <2>4. \A n \in Msgs : Sender(n)' = Sender(n)
      BY DEF Sender
    <2>5. AskingInv'
      <3> SUFFICES ASSUME NEW q \in senderAsking'
                   PROVE  LET b == q[1]
                              n == q[2][1]
                              v == Sender(n)
                          IN  /\ v \in Users /\ Wants(v, b, n)'
                              /\ <<v, b>> \in overlap' \/
                                   /\ <<v, b>> \notin member
                                   /\ senderRow[v] # NoRow => senderRow[v].agent # b
                                   /\ \A p \in senderAsking' : p[1] = b /\ Sender(p[2][1]) = v => p = q
        BY DEF AskingInv, Sender
      <3> DEFINE b == q[1]
                 n == q[2][1]
                 v == Sender(n)
      <3>1. n \in Msgs
        BY <1>2, SenderRows
      <3>2. v \in Users /\ Wants(v, b, n)
        <4>1. CASE q = q0
          BY <2>1, <2>2, <4>1
        <4>2. CASE q \in senderAsking
          BY <4>2 DEF AskingInv
        <4> QED BY <1>2, <4>1, <4>2
      <3>3. Wants(v, b, n)'
        BY <2>4, <3>1, <3>2, WantsGrown
      <3>4. ASSUME <<v, b>> \notin overlap'
            PROVE  /\ <<v, b>> \notin member
                   /\ senderRow[v] # NoRow => senderRow[v].agent # b
                   /\ \A p \in senderAsking' : p[1] = b /\ Sender(p[2][1]) = v => p = q
        <4>1. CASE b = a /\ v = Sender(m)
          <5>1. ~Same
            BY <1>2, <3>4, <4>1
          <5> QED BY <1>2, <2>2, <4>1, <5>1
        <4>2. CASE ~(b = a /\ v = Sender(m))
          <5>1. q \in senderAsking /\ <<v, b>> \notin overlap
            BY <1>2, <2>3, <3>4, <4>2
          <5>2. /\ <<v, b>> \notin member
                /\ senderRow[v] # NoRow => senderRow[v].agent # b
                /\ \A p \in senderAsking : p[1] = b /\ Sender(p[2][1]) = v => p = q
            BY <5>1 DEF AskingInv
          <5> QED BY <1>2, <4>2, <5>2
        <4> QED BY <4>1, <4>2
      <3> QED BY <3>2, <3>3, <3>4
    <2>6. SenderInv'
      <3> SUFFICES ASSUME NEW u \in Users, senderRow[u] # NoRow,
                          NEW b \in Agents, NEW n \in Msgs,
                          b = senderRow[u].agent, n = senderRow[u].msg
                   PROVE  Wants(u, b, n)' /\ (<<u, b>> \in overlap' \/ <<u, b>> \notin member)
        BY SenderRows DEF SenderInv
      <3>1. Wants(u, b, n) /\ (<<u, b>> \in overlap \/ <<u, b>> \notin member)
        BY DEF SenderInv
      <3>2. Wants(u, b, n)'
        BY <3>1, WantsGrown
      <3> QED BY <2>3, <3>1, <3>2
    <2> QED BY <2>3, <2>5, <2>6
  <1> QED BY <1>1, <1>2 DEF Gate, AskSender

\* A visit ends a routing's turn at an agent: what was delivered stays, a routing
\* that took the message has put it in an inbox, and the last agent of a routing,
\* or the one a replay is for, leaves a trace.
LEMMA VisitStep ==
    ASSUME IInv, Grows, UNCHANGED <<arrival, chat, wiring, routed>>, crashed \subseteq crashed',
           NEW m \in Msgs, NEW c \in Causes, NEW a \in Wired, Arrived(m),
           NEW S \in SUBSET Agents, S \subseteq fan[m][c], fan' = [fan EXCEPT ![m][c] = S],
           \A n \in Msgs, b \in Agents :
              inbox'[n][b] = inbox[n][b] \/ (n = m /\ b = a /\ inbox[n][b] = "none"),
           dropped \subseteq dropped', took' \subseteq took \cup {<<m, c>>},
           Passes(m) =>
              /\ <<m, c>> \in took' => InInbox(m)'
              /\ S = {} => m \in dropped' \/ InInbox(m)'
              /\ c \in fan[m][c] \ S => \E b \in Agents : Rank[b] <= Rank[c] /\ inbox'[m][b] # "none"
    PROVE  PlaceInv' /\ LossInv' /\ ReplayInv'
  <1> USE DEF IInv
  <1>1. \A n \in Msgs, d \in Causes : fan'[n][d] = IF n = m /\ d = c THEN S ELSE fan[n][d]
    BY FanSet
  <1>2. /\ \A n \in Msgs : /\ Arrived(n)' = Arrived(n) /\ Mention(n)' = Mention(n)
                           /\ Sender(n)' = Sender(n) /\ Passes(n)' = Passes(n)
        /\ Wired' = Wired
    BY DEF Arrived, Mention, Sender, Wired, Passes, Filtered, Denied
  <1>3. \A n \in Msgs, b \in Agents : inbox[n][b] # "none" => inbox'[n][b] # "none"
    OBVIOUS
  <1>4. \A n \in Msgs : InInbox(n) => InInbox(n)'
    BY <1>3 DEF InInbox
  <1>5. PlaceInv'
    <2>1. ASSUME NEW n \in Msgs, NEW d \in Causes
          PROVE  /\ fan'[n][d] \subseteq Wired
                 /\ fan'[n][d] # {} => <<n, d>> \in routed
                 /\ <<n, d>> \in routed \cup took' => Arrived(n)
      BY <1>1 DEF PlaceInv
    <2>2. \A n \in Msgs, b \in Agents : inbox'[n][b] # "none" => Arrived(n) /\ b \in Wired
      BY DEF PlaceInv
    <2> QED BY <1>2, <2>1, <2>2 DEF PlaceInv
  <1>6. LossInv'
    <2> SUFFICES ASSUME NEW n \in Msgs, Arrived(n), Passes(n)
                 PROVE  /\ \A d \in Causes : <<n, d>> \in took' => InInbox(n)'
                        /\ <<n, "first">> \in routed \ crashed' /\ Mention(n) =>
                              n \in dropped' \/ chat = "denied" \/ InInbox(n)' \/ fan'[n]["first"] # {}
      BY <1>2 DEF LossInv
    <2>1. \A d \in Causes : <<n, d>> \in took' => InInbox(n)'
      BY <1>4 DEF LossInv
    <2>2. ASSUME <<n, "first">> \in routed \ crashed', Mention(n)
          PROVE  n \in dropped' \/ chat = "denied" \/ InInbox(n)' \/ fan'[n]["first"] # {}
      <3>1. "first" \in Causes
        BY DEF Causes
      <3>2. n \in dropped \/ chat = "denied" \/ InInbox(n) \/ fan[n]["first"] # {}
        BY <2>2 DEF LossInv
      <3>3. CASE n = m /\ c = "first"
        BY <1>1, <1>4, <3>1, <3>2, <3>3
      <3>4. CASE ~(n = m /\ c = "first")
        BY <1>1, <1>4, <3>1, <3>2, <3>4
      <3> QED BY <3>3, <3>4
    <2> QED BY <2>1, <2>2
  <1>7. ReplayInv'
    <2> SUFFICES ASSUME NEW n \in Msgs, NEW x \in Agents, <<n, x>> \in routed
                 PROVE  /\ Wants(Sender(n), x, n)' /\ Knows(x, Sender(n))'
                        /\ <<n, x>> \notin crashed' /\ Passes(n) =>
                              x \in fan'[n][x] \/ \E b \in Agents : Rank[b] <= Rank[x] /\ inbox'[n][b] # "none"
      BY <1>2 DEF ReplayInv
    <2>1. Wants(Sender(n), x, n) /\ Knows(x, Sender(n)) /\ x \in Wired /\ Arrived(n) /\ x \in Causes
      BY DEF ReplayInv, Wants, Causes
    <2>2. Wants(Sender(n), x, n)' /\ Knows(x, Sender(n))'
      BY <1>2, <2>1, Grown DEF Wants
    <2>3. ASSUME <<n, x>> \notin crashed', Passes(n)
          PROVE  x \in fan'[n][x] \/ \E b \in Agents : Rank[b] <= Rank[x] /\ inbox'[n][b] # "none"
      <3>1. x \in fan[n][x] \/ \E b \in Agents : Rank[b] <= Rank[x] /\ inbox[n][b] # "none"
        BY <2>3 DEF ReplayInv
      <3>2. CASE n = m /\ x = c
        BY <1>1, <1>3, <2>1, <2>3, <3>1, <3>2
      <3>3. CASE ~(n = m /\ x = c)
        BY <1>1, <1>3, <2>1, <3>1, <3>3
      <3> QED BY <3>2, <3>3
    <2> QED BY <2>2, <2>3
  <1> QED BY <1>5, <1>6, <1>7

\* An agent that listens takes the message, or keeps it.
LEMMA ListensVisited ==
    ASSUME TypeOK, NEW m \in Msgs, NEW a \in Agents, Listens(a, m)
    PROVE  Triggers(a, m) \/ Keeps(a, m)
  <1>1. wiring[a] \in Wiring
    BY DEF TypeOK, Listens
  <1>2. CASE wiring[a].ignored = "accumulate"
    BY <1>2 DEF Keeps
  <1>3. CASE wiring[a].ignored # "accumulate"
    <2>1. Engages(a, m)
      BY <1>1, <1>3 DEF Listens, Engages
    <2>2. AccessOk(a, m) /\ ScopeOk(a, m)
      BY <1>1, <1>3 DEF Listens, AccessOk, ScopeOk, Knows, Wiring
    <2> QED BY <2>1, <2>2 DEF Triggers
  <1> QED BY <1>2, <1>3

\* The turn of agent a: S is what the routing still has to visit, and nobody but a
\* gets the message.
Visited(m, c, a, S) ==
    /\ Turn(m, c, a) /\ S \subseteq fan[m][c] \ {a} /\ fan' = [fan EXCEPT ![m][c] = S]
    /\ \A n \in Msgs, b \in Agents :
          inbox'[n][b] = inbox[n][b] \/ (n = m /\ b = a /\ inbox[n][b] = "none" /\ Passes(m))
    /\ Passes(m) /\ Listens(a, m) => inbox'[m][a] # "none"
    /\ \/ S = fan[m][c] \ {a}
       \/ S = {} /\ (<<m, c>> \in crashed' \/ (Passes(m) => inbox[m][a] # "none"))
    /\ crashed \subseteq crashed' /\ UNCHANGED <<arrival, policy, wiring>>

\* A visit leaves the message with an agent that listens.  A routing that ends there
\* has been cut off, or the agent had the message from another, which is further on.
LEMMA WholeStep ==
    ASSUME IInv, NEW m \in Msgs, NEW c \in Causes, NEW a \in Agents, NEW S \in SUBSET Agents,
           Visited(m, c, a, S)
    PROVE  WholeInv'
  <1> USE DEF Visited
  <1>0. fan \in [Msgs -> [Causes -> SUBSET Agents]]
    BY DEF IInv, TypeOK
  <1>1. \A n \in Msgs, d \in Causes : fan'[n][d] = IF n = m /\ d = c THEN S ELSE fan[n][d]
    BY <1>0
  <1> USE DEF IInv
  <1>2. \A n \in Msgs, b \in Agents : Listens(b, n)' = Listens(b, n) /\ Passes(n)' = Passes(n)
    BY DEF Passes, Filtered, Denied, Listens, Sender, Mention
  <1>3. a \in fan[m][c] /\ \A y \in fan[m][c] \ {a} : Rank[a] < Rank[y]
    <2>1. fan[m][c] \subseteq Agents
      BY DEF TypeOK
    <2> QED BY <2>1, AgentsAssumption DEF Turn
  <1>4. \A n \in Msgs : InInbox(n)' => Passes(n)
    BY DEF InInbox, WholeInv
  <1>5. ASSUME NEW n \in Msgs, Passes(n), NEW d \in Causes, NEW b \in Agents,
               fan'[n][d] # {}, Listens(b, n)
        PROVE  b \in fan'[n][d] \/ inbox'[n][b] # "none"
    <2>1. fan[n][d] # {}
      BY <1>1, <1>5
    <2>2. b \in fan[n][d] \/ inbox[n][b] # "none"
      BY <1>5, <2>1 DEF WholeInv
    <2>3. inbox[n][b] # "none" => inbox'[n][b] # "none"
      OBVIOUS
    <2>4. CASE n = m /\ d = c
      <3>1. S = fan[m][c] \ {a}
        BY <1>1, <1>5, <2>4
      <3> QED BY <1>1, <1>5, <2>2, <2>3, <2>4, <3>1
    <2>5. CASE ~(n = m /\ d = c)
      BY <1>1, <2>2, <2>3, <2>5
    <2> QED BY <2>4, <2>5
  <1>6. ASSUME NEW n \in Msgs, \A d \in Causes : <<n, d>> \notin crashed',
               NEW x \in Agents, NEW b \in Agents,
               inbox'[n][x] # "none", Listens(b, n), inbox'[n][b] = "none"
        PROVE  \E d \in Causes : b \in fan'[n][d] /\ \A y \in fan'[n][d] : Rank[x] < Rank[y]
    <2>0. \A d \in Causes : <<n, d>> \notin crashed
      BY <1>6
    <2>1. inbox[n][b] = "none"
      BY <1>6
    <2>2. CASE n # m
      <3>1. inbox[n][x] # "none"
        BY <1>6, <2>2
      <3>2. PICK d \in Causes : b \in fan[n][d] /\ \A y \in fan[n][d] : Rank[x] < Rank[y]
        BY <1>6, <2>0, <2>1, <3>1 DEF WholeInv
      <3> QED BY <1>1, <2>2, <3>2
    <2>3. CASE n = m
      <3>1. Passes(m) /\ b # a
        BY <1>4, <1>6, <2>3 DEF InInbox
      <3>2. ASSUME S # fan[m][c] \ {a}
            PROVE  \E d \in Causes : d # c /\ b \in fan[m][d] /\ \A y \in fan[m][d] : Rank[a] < Rank[y]
        <4>1. inbox[m][a] # "none"
          BY <1>6, <2>3, <3>1, <3>2
        <4>2. PICK d \in Causes : b \in fan[m][d] /\ \A y \in fan[m][d] : Rank[a] < Rank[y]
          BY <1>6, <2>0, <2>1, <2>3, <4>1 DEF WholeInv
        <4>3. Rank[a] \in Nat
          BY AgentsAssumption
        <4> QED BY <1>3, <4>2, <4>3
      <3>3. CASE x = a
        <4>1. CASE S = fan[m][c] \ {a}
          <5>1. b \in fan[m][c]
            BY <1>3, <1>6, <2>1, <2>3, <3>1 DEF WholeInv
          <5>2. b \in fan'[m][c] /\ \A y \in fan'[m][c] : Rank[x] < Rank[y]
            BY <1>1, <1>3, <3>1, <3>3, <4>1, <5>1
          <5> QED BY <2>3, <5>2
        <4>2. CASE S # fan[m][c] \ {a}
          BY <1>1, <2>3, <3>2, <3>3, <4>2
        <4> QED BY <4>1, <4>2
      <3>4. CASE x # a
        <4>1. inbox[m][x] # "none"
          BY <1>6, <2>3, <3>4
        <4>2. PICK d \in Causes : b \in fan[m][d] /\ \A y \in fan[m][d] : Rank[x] < Rank[y]
          BY <1>6, <2>0, <2>1, <2>3, <4>1 DEF WholeInv
        <4>3. CASE d # c
          BY <1>1, <2>3, <4>2, <4>3
        <4>4. CASE d = c /\ S = fan[m][c] \ {a}
          <5>1. b \in fan'[m][c] /\ \A y \in fan'[m][c] : Rank[x] < Rank[y]
            BY <1>1, <3>1, <4>2, <4>4
          <5> QED BY <2>3, <5>1
        <4>5. CASE d = c /\ S # fan[m][c] \ {a}
          <5>1. PICK e \in Causes : e # c /\ b \in fan[m][e] /\ \A y \in fan[m][e] : Rank[a] < Rank[y]
            BY <3>2, <4>5
          <5>2. Rank[x] < Rank[a]
            BY <1>3, <4>2, <4>5
          <5>3. fan[m][e] \subseteq Agents
            BY DEF TypeOK
          <5>4. \A y \in fan[m][e] : Rank[x] < Rank[y]
            BY <5>1, <5>2, <5>3, AgentsAssumption
          <5> QED BY <1>1, <2>3, <5>1, <5>4
        <4> QED BY <4>3, <4>4, <4>5
      <3> QED BY <3>3, <3>4
    <2> QED BY <2>2, <2>3
  <1>7. \A n \in Msgs : InInbox(n)' => Passes(n)'
    BY <1>2, <1>4, AgentsAssumption
  <1> QED BY <1>2, <1>5, <1>6, <1>7 DEF WholeInv

\* The agent a routing visits is a wired one, and the message has arrived.
LEMMA TurnFacts ==
    ASSUME IInv, NEW m \in Msgs, NEW c \in Causes, NEW a \in Agents, Turn(m, c, a)
    PROVE  a \in Wired /\ Arrived(m) /\ <<m, c>> \in routed /\ <<m, c>> \in Routings
           /\ \A b \in fan[m][c] : Rank[a] <= Rank[b]
  BY DEF IInv, Turn, PlaceInv, Routings

\* What the writing of a message leaves behind: at most one row, of a message the
\* gate passes, and one unless the gate filters it.
Written(m, c, a) ==
    /\ a \in Wired /\ Arrived(m) /\ <<m, c>> \in Routings
    /\ \A b \in fan[m][c] : Rank[a] <= Rank[b]
    /\ Grows /\ ~Denied(m)
    /\ UNCHANGED <<arrival, chat, policy, wiring, member, senderRow, channelRow, channelAsking,
                   twice, routed>>
    /\ running' = Idle /\ ChannelInv' /\ AskingInv' /\ SenderInv'
    /\ senderAsking' \in SUBSET (Agents \X Routings) /\ overlap' \in SUBSET (Users \X Agents)
    /\ sessions' \subseteq Agents \X ({x.thread : x \in Arrivals} \cup {"none"})
    /\ inbox' \in [Msgs -> [Agents -> {"none", "context", "trigger"}]]
    /\ \A n \in Msgs, b \in Agents :
          inbox'[n][b] = inbox[n][b] \/ (n = m /\ b = a /\ inbox[n][b] = "none" /\ Passes(m))
    /\ ~Filtered(m) => inbox'[m][a] # "none"

\* Writing a message does just that, and keeps what is known of the requests.
LEMMA WriteFacts ==
    ASSUME IInv, NEW m \in Msgs, NEW c \in Causes, NEW a \in Agents, Write(m, c, a)
    PROVE  Written(m, c, a)
  <1> USE DEF IInv
  <1>1. /\ Filtered(m) \/ inbox[m][a] = "none"
        /\ ~Denied(m)
        /\ Gate(a, m, c)
        /\ sessions' = sessions \cup {<<a, ThreadKey(m)>>}
        /\ inbox' = IF Filtered(m) THEN inbox
                    ELSE [inbox EXCEPT ![m][a] = IF Triggers(a, m) THEN "trigger" ELSE "context"]
        /\ running' = Idle
    BY DEF Write
  <1>2. UNCHANGED <<arrival, chat, policy, wiring, member, senderRow, channelRow, channelAsking, twice,
                    routed>>
    BY DEF Write, chatVars, rowVars
  <1>3. a \in Wired /\ Arrived(m) /\ <<m, c>> \in Routings /\ \A b \in fan[m][c] : Rank[a] <= Rank[b]
    BY TurnFacts DEF Write
  <1>4. Grows
    BY <1>1, <1>2 DEF Grows
  <1>5. /\ inbox' \in [Msgs -> [Agents -> {"none", "context", "trigger"}]]
        /\ \A n \in Msgs, b \in Agents :
              inbox'[n][b] = inbox[n][b]
                 \/ (n = m /\ b = a /\ inbox[n][b] = "none" /\ Passes(m))
        /\ ~Filtered(m) => inbox'[m][a] # "none"
    <2>1. CASE Filtered(m)
      BY <1>1, <2>1 DEF TypeOK
    <2>2. CASE ~Filtered(m)
      <3> DEFINE w == IF Triggers(a, m) THEN "trigger" ELSE "context"
      <3>1. inbox \in [Msgs -> [Agents -> {"none", "context", "trigger"}]]
            /\ w \in {"context", "trigger"}
        BY DEF TypeOK
      <3>2. inbox' = [inbox EXCEPT ![m] = [inbox[m] EXCEPT ![a] = w]]
        BY <1>1, <2>2
      <3> HIDE DEF w
      <3>3. [inbox[m] EXCEPT ![a] = w] \in [Agents -> {"none", "context", "trigger"}]
        BY <3>1
      <3>4. \A n \in Msgs, b \in Agents : inbox'[n][b] = IF n = m /\ b = a THEN w ELSE inbox[n][b]
        BY <3>1, <3>2
      <3>5. inbox[m][a] = "none" /\ Passes(m)
        BY <1>1, <2>2 DEF Passes
      <3>6. inbox' \in [Msgs -> [Agents -> {"none", "context", "trigger"}]]
        BY <3>1, <3>2, <3>3
      <3> QED BY <3>1, <3>4, <3>5, <3>6
    <2> QED BY <2>1, <2>2
  <1>6. ChannelInv'
    BY <1>2, <1>4, ChannelAlone
  <1>7. /\ AskingInv' /\ SenderInv'
        /\ senderAsking' \in SUBSET (Agents \X Routings) /\ overlap' \in SUBSET (Users \X Agents)
    BY <1>1, <1>2, <1>3, <1>4, GateStep
  <1>8. sessions' \subseteq Agents \X ({x.thread : x \in Arrivals} \cup {"none"})
    BY <1>1, <1>2, <1>3, SessionTypes
  <1> QED BY <1>1, <1>2, <1>3, <1>4, <1>5, <1>6, <1>7, <1>8 DEF Written

\* An agent takes the message.
LEMMA DeliverKeeps ==
    ASSUME IInv, NEW m \in Msgs, NEW c \in Causes, NEW a \in Agents, Deliver(m, c, a)
    PROVE  IInv'
  <1> USE DEF IInv
  <1>1. /\ Write(m, c, a) /\ Turn(m, c, a)
        /\ took' = took \cup {<<m, c>>}
        /\ dropped \subseteq dropped' /\ dropped' \in SUBSET Msgs
        /\ fan' = [fan EXCEPT ![m][c] = fan[m][c] \ {a}]
        /\ UNCHANGED <<crashed, faults>>
    BY DEF Deliver, Write, Records, Rest, TypeOK
  <1>0. Written(m, c, a)
    BY <1>1, WriteFacts
  <1>2. PICK S \in SUBSET Agents : S = fan[m][c] \ {a}
    <2>1. fan[m][c] \ {a} \in SUBSET Agents
      BY DEF TypeOK
    <2> QED BY <2>1, Zenon
  <1>3. S \subseteq fan[m][c] \ {a} /\ fan' = [fan EXCEPT ![m][c] = S]
    BY <1>1, <1>2
  <1>4. Passes(m) => inbox'[m][a] # "none" /\ InInbox(m)'
    BY <1>0, <1>1 DEF Passes, InInbox, Written
  <1>5. PlaceInv' /\ LossInv' /\ ReplayInv'
    <2>1. Passes(m) =>
             /\ <<m, c>> \in took' => InInbox(m)'
             /\ S = {} => m \in dropped' \/ InInbox(m)'
             /\ c \in fan[m][c] \ S => \E b \in Agents : Rank[b] <= Rank[c] /\ inbox'[m][b] # "none"
      BY <1>0, <1>1, <1>4 DEF Written
    <2>2. /\ S \subseteq fan[m][c] /\ fan' = [fan EXCEPT ![m][c] = S]
          /\ took' \subseteq took \cup {<<m, c>>} /\ crashed \subseteq crashed'
      BY <1>1, <1>3
    <2>3. \A n \in Msgs, b \in Agents :
             inbox'[n][b] = inbox[n][b] \/ (n = m /\ b = a /\ inbox[n][b] = "none")
      BY <1>0, <1>1 DEF Written
    <2>4. /\ a \in Wired /\ Arrived(m) /\ Grows
          /\ UNCHANGED <<arrival, chat, wiring, routed>>
      BY <1>0, <1>1 DEF Written
    <2>5. dropped \subseteq dropped'
      BY <1>1
    <2> QED BY <2>1, <2>2, <2>3, <2>4, <2>5, VisitStep
  <1>6. WholeInv'
    <2>1. crashed \subseteq crashed' /\ UNCHANGED <<arrival, policy, wiring>>
      BY <1>0, <1>1 DEF Written
    <2>2. \A n \in Msgs, b \in Agents :
             inbox'[n][b] = inbox[n][b] \/ (n = m /\ b = a /\ inbox[n][b] = "none" /\ Passes(m))
      BY <1>0, <1>1 DEF Written
    <2>3. Turn(m, c, a) /\ (Passes(m) /\ Listens(a, m) => inbox'[m][a] # "none")
      BY <1>1, <1>4
    <2>4. \/ S = fan[m][c] \ {a}
          \/ S = {} /\ (<<m, c>> \in crashed' \/ (Passes(m) => inbox[m][a] # "none"))
      BY <1>2
    <2>5. Visited(m, c, a, S)
      BY <1>3, <2>1, <2>2, <2>3, <2>4 DEF Visited
    <2> QED BY <2>5, WholeStep
  <1>7. TypeOK'
    <2>1. fan' \in [Msgs -> [Causes -> SUBSET Agents]]
      BY <1>3, FanSet
    <2>2. took' \in SUBSET Routings
      BY <1>0, <1>1 DEF TypeOK, Written
    <2> QED BY <1>0, <1>1, <2>1, <2>2 DEF TypeOK, Written
  <1> QED BY <1>0, <1>1, <1>5, <1>6, <1>7 DEF Written

\* An agent has the message, and its wake throws: the routing is cut off.
LEMMA WakeThrowsKeeps ==
    ASSUME IInv, NEW m \in Msgs, NEW c \in Causes, NEW a \in Agents, WakeThrows(m, c, a)
    PROVE  IInv'
  <1> USE DEF IInv
  <1>1. /\ Write(m, c, a) /\ Turn(m, c, a) /\ ~Filtered(m) /\ Fault
        /\ crashed' = IF fan[m][c] \ {a} = {} THEN crashed ELSE crashed \cup {<<m, c>>}
        /\ \E S \in SUBSET Agents : S = {} /\ fan' = [fan EXCEPT ![m][c] = S]
        /\ UNCHANGED <<took, dropped>>
    BY DEF WakeThrows, Write, Rest
  <1>0. Written(m, c, a)
    BY <1>1, WriteFacts
  <1>2. PICK S \in SUBSET Agents : S = {} /\ fan' = [fan EXCEPT ![m][c] = S]
    BY <1>1
  <1>3. <<m, c>> \in routed
    BY <1>1, TurnFacts
  <1>4. crashed \subseteq crashed' /\ crashed' \in SUBSET routed
    BY <1>1, <1>3 DEF TypeOK
  <1>5. inbox'[m][a] # "none" /\ InInbox(m)'
    BY <1>0, <1>1 DEF InInbox, Written
  <1>6. PlaceInv' /\ LossInv' /\ ReplayInv'
    <2>1. Passes(m) =>
             /\ <<m, c>> \in took' => InInbox(m)'
             /\ S = {} => m \in dropped' \/ InInbox(m)'
             /\ c \in fan[m][c] \ S => \E b \in Agents : Rank[b] <= Rank[c] /\ inbox'[m][b] # "none"
      BY <1>0, <1>1, <1>5 DEF Written
    <2>2. S \subseteq fan[m][c] /\ took' \subseteq took \cup {<<m, c>>} /\ dropped \subseteq dropped'
      BY <1>1, <1>2
    <2>3. \A n \in Msgs, b \in Agents :
             inbox'[n][b] = inbox[n][b] \/ (n = m /\ b = a /\ inbox[n][b] = "none")
      BY <1>0, <1>1 DEF Written
    <2>4. /\ a \in Wired /\ Arrived(m) /\ Grows
          /\ UNCHANGED <<arrival, chat, wiring, routed>>
      BY <1>0, <1>1 DEF Written
    <2> QED BY <1>2, <1>4, <2>1, <2>2, <2>3, <2>4, VisitStep
  <1>7. WholeInv'
    <2>1. UNCHANGED <<arrival, policy, wiring>>
      BY <1>0, <1>1 DEF Written
    <2>2. \A n \in Msgs, b \in Agents :
             inbox'[n][b] = inbox[n][b] \/ (n = m /\ b = a /\ inbox[n][b] = "none" /\ Passes(m))
      BY <1>0, <1>1 DEF Written
    <2>3. Turn(m, c, a) /\ (Passes(m) /\ Listens(a, m) => inbox'[m][a] # "none")
      BY <1>1, <1>5
    <2>4. \/ S = fan[m][c] \ {a}
          \/ S = {} /\ (<<m, c>> \in crashed' \/ (Passes(m) => inbox[m][a] # "none"))
      BY <1>1, <1>2
    <2>5. S \subseteq fan[m][c] \ {a} /\ fan' = [fan EXCEPT ![m][c] = S] /\ crashed \subseteq crashed'
      BY <1>2, <1>4
    <2>6. Visited(m, c, a, S)
      BY <2>1, <2>2, <2>3, <2>4, <2>5 DEF Visited
    <2> QED BY <2>6, WholeStep
  <1>8. TypeOK'
    <2>1. fan' \in [Msgs -> [Causes -> SUBSET Agents]]
      BY <1>2, FanSet
    <2>2. faults' \in 0..MaxFaults
      BY <1>1, CardFaults
    <2>3. routed' = routed
      BY <1>0, <1>1 DEF Written
    <2> QED BY <1>0, <1>1, <1>4, <2>1, <2>2, <2>3 DEF TypeOK, Written
  <1> QED BY <1>0, <1>1, <1>6, <1>7, <1>8 DEF Written

\* The delivery to an agent throws, and ends the routing.
LEMMA DeliverThrowsKeeps ==
    ASSUME IInv, NEW m \in Msgs, NEW c \in Causes, NEW a \in Agents, DeliverThrows(m, c, a)
    PROVE  IInv'
  <1> USE DEF IInv
  <1>1. /\ Denied(m) \/ (~Filtered(m) /\ inbox[m][a] # "none")
        /\ Gate(a, m, c)
        /\ sessions' = sessions \cup {<<a, ThreadKey(m)>>}
        /\ dropped \subseteq dropped' /\ dropped' \in SUBSET Msgs
        /\ \E S \in SUBSET Agents : S = {} /\ fan' = [fan EXCEPT ![m][c] = S]
        /\ running' = Idle
    BY DEF DeliverThrows, TypeOK
  <1>2. UNCHANGED <<arrival, chat, policy, wiring, member, senderRow, channelRow, inbox, took,
                    channelAsking, twice, routed, crashed, faults>>
    BY DEF DeliverThrows, chatVars, rowVars
  <1>3. a \in Wired /\ Arrived(m) /\ <<m, c>> \in Routings /\ \A b \in fan[m][c] : Rank[a] <= Rank[b]
    BY TurnFacts DEF DeliverThrows
  <1>4. Grows
    BY <1>1, <1>2 DEF Grows
  <1>5. PlaceInv' /\ WholeInv' /\ LossInv' /\ ReplayInv'
    <2>1. Passes(m) => inbox[m][a] # "none"
      BY <1>1 DEF Passes
    <2>2. Passes(m) => InInbox(m)'
      BY <1>2, <2>1 DEF InInbox
    <2>3. c \in fan[m][c] => Rank[a] <= Rank[c]
      BY <1>3
    <2>4. PICK S \in SUBSET Agents : S = {} /\ fan' = [fan EXCEPT ![m][c] = S]
      BY <1>1
    <2>5. Passes(m) =>
             /\ <<m, c>> \in took' => InInbox(m)'
             /\ S = {} => m \in dropped' \/ InInbox(m)'
             /\ c \in fan[m][c] \ S => \E b \in Agents : Rank[b] <= Rank[c] /\ inbox'[m][b] # "none"
      BY <1>2, <2>1, <2>2, <2>3
    <2>6. S \subseteq fan[m][c] /\ took' \subseteq took \cup {<<m, c>>} /\ crashed \subseteq crashed'
      BY <1>2, <2>4
    <2>7. PlaceInv' /\ LossInv' /\ ReplayInv'
      BY <1>1, <1>2, <1>3, <1>4, <2>4, <2>5, <2>6, VisitStep
    <2>8. WholeInv'
      <3>1. Turn(m, c, a) /\ S \subseteq fan[m][c] \ {a}
        BY <2>4 DEF DeliverThrows
      <3>2. Passes(m) /\ Listens(a, m) => inbox'[m][a] # "none"
        BY <1>2, <2>1
      <3>3. \A n \in Msgs, b \in Agents :
               inbox'[n][b] = inbox[n][b] \/ (n = m /\ b = a /\ inbox[n][b] = "none" /\ Passes(m))
        BY <1>2
      <3>4. Visited(m, c, a, S)
        BY <1>2, <2>1, <2>4, <2>6, <3>1, <3>2, <3>3 DEF Visited
      <3> QED BY <3>4, WholeStep
    <2> QED BY <2>7, <2>8
  <1>6. ChannelInv'
    BY <1>2, <1>4, ChannelAlone
  <1>7. /\ AskingInv' /\ SenderInv'
        /\ senderAsking' \in SUBSET (Agents \X Routings) /\ overlap' \in SUBSET (Users \X Agents)
    BY <1>1, <1>2, <1>3, <1>4, GateStep
  <1>8. TypeOK'
    <2>1. sessions' \subseteq Agents \X ({x.thread : x \in Arrivals} \cup {"none"})
      BY <1>1, <1>2, <1>3, SessionTypes
    <2>2. fan' \in [Msgs -> [Causes -> SUBSET Agents]]
      BY <1>1, FanSet
    <2> QED BY <1>1, <1>2, <1>7, <2>1, <2>2 DEF TypeOK
  <1> QED BY <1>5, <1>6, <1>7, <1>8

\* An agent declines.  The one a replay is for never does.
LEMMA DeclineKeeps ==
    ASSUME IInv, NEW m \in Msgs, NEW c \in Causes, NEW a \in Agents, Decline(m, c, a)
    PROVE  IInv'
  <1> USE DEF IInv
  <1>1. /\ ~Triggers(a, m) /\ ~Keeps(a, m)
        /\ Gate(a, m, c)
        /\ dropped \subseteq dropped' /\ dropped' \in SUBSET Msgs
        /\ fan[m][c] = {a} /\ <<m, c>> \notin took => m \in dropped'
        /\ fan' = [fan EXCEPT ![m][c] = fan[m][c] \ {a}]
        /\ running' \in {Idle, <<m, c>>}
        /\ a \in fan[m][c]
    BY DEF Decline, Records, Rest, Turn, TypeOK
  <1>2. UNCHANGED <<arrival, chat, policy, wiring, member, senderRow, channelRow, sessions, inbox, took,
                    channelAsking, twice, routed, crashed, faults>>
    BY DEF Decline, chatVars, rowVars
  <1>3. a \in Wired /\ Arrived(m) /\ <<m, c>> \in Routings /\ <<m, c>> \in routed
    BY TurnFacts DEF Decline
  <1>4. Grows
    BY <1>1, <1>2 DEF Grows
  <1>5. PICK S \in SUBSET Agents : S = fan[m][c] \ {a}
    <2>1. fan[m][c] \ {a} \in SUBSET Agents
      BY DEF TypeOK
    <2> QED BY <2>1, Zenon
  <1>6. a # c
    <2> SUFFICES ASSUME a = c PROVE Triggers(a, m)
      BY <1>1
    <2>1. Wants(Sender(m), a, m) /\ Knows(a, Sender(m))
      BY <1>3 DEF ReplayInv
    <2> QED BY <2>1 DEF Triggers, Wants, AccessOk, ScopeOk
  <1>7. PlaceInv' /\ WholeInv' /\ LossInv' /\ ReplayInv'
    <2>1. InInbox(m)' = InInbox(m)
      BY <1>2 DEF InInbox
    <2>2. Passes(m) => (<<m, c>> \in took => InInbox(m))
      BY <1>3 DEF LossInv
    <2>3. c \notin fan[m][c] \ S
      BY <1>5, <1>6
    <2>4. S = {} => fan[m][c] = {a}
      BY <1>1, <1>5
    <2>5. S \subseteq fan[m][c] /\ fan' = [fan EXCEPT ![m][c] = S]
      BY <1>1, <1>5
    <2>6. Passes(m) =>
             /\ <<m, c>> \in took' => InInbox(m)'
             /\ S = {} => m \in dropped' \/ InInbox(m)'
             /\ c \in fan[m][c] \ S => \E b \in Agents : Rank[b] <= Rank[c] /\ inbox'[m][b] # "none"
      BY <1>1, <1>2, <2>1, <2>2, <2>3, <2>4
    <2>7. took' \subseteq took \cup {<<m, c>>} /\ crashed \subseteq crashed'
      BY <1>2
    <2>8. PlaceInv' /\ LossInv' /\ ReplayInv'
      BY <1>1, <1>2, <1>3, <1>4, <2>5, <2>6, <2>7, VisitStep
    <2>9. WholeInv'
      <3>1. Turn(m, c, a) /\ S \subseteq fan[m][c] \ {a}
        BY <1>5 DEF Decline
      <3>2. Passes(m) /\ Listens(a, m) => inbox'[m][a] # "none"
        BY <1>1, ListensVisited
      <3>3. \A n \in Msgs, b \in Agents :
               inbox'[n][b] = inbox[n][b] \/ (n = m /\ b = a /\ inbox[n][b] = "none" /\ Passes(m))
        BY <1>2
      <3>4. \/ S = fan[m][c] \ {a}
            \/ S = {} /\ (<<m, c>> \in crashed' \/ (Passes(m) => inbox[m][a] # "none"))
        BY <1>5
      <3>5. UNCHANGED <<arrival, policy, wiring>>
        BY <1>2
      <3>6. Visited(m, c, a, S)
        BY <2>5, <2>7, <3>1, <3>2, <3>3, <3>4, <3>5 DEF Visited
      <3> QED BY <3>6, WholeStep
    <2> QED BY <2>8, <2>9
  <1>8. ChannelInv'
    BY <1>2, <1>4, ChannelAlone
  <1>9. /\ AskingInv' /\ SenderInv'
        /\ senderAsking' \in SUBSET (Agents \X Routings) /\ overlap' \in SUBSET (Users \X Agents)
    BY <1>1, <1>2, <1>3, <1>4, GateStep
  <1>10. TypeOK'
    <2>1. fan' \in [Msgs -> [Causes -> SUBSET Agents]]
      BY <1>1, <1>5, FanSet
    <2> QED BY <1>1, <1>2, <1>3, <1>9, <2>1 DEF TypeOK
  <1> QED BY <1>7, <1>8, <1>9, <1>10

-----------------------------------------------------------------------------
(* The invariant and the theorems.                                         *)

\* A chat starts with its wirings and nothing else.
LEMMA IInvInit == Init => IInv
  <1> SUFFICES ASSUME Init PROVE IInv
    OBVIOUS
  <1>1. wiring \in [Agents -> Wiring \cup {Unwired}]
    BY SetupsAssumption DEF Init
  <1>2. chat \in {"absent", "open"} /\ policy \in {"strict", "request_approval", "public"}
    BY PolicyAssumption DEF Init
  <1>3. \A m \in Msgs : ~Arrived(m)
    BY DEF Init, Arrived
  <1>4. TypeOK
    <2>1. /\ arrival \in [Msgs -> Arrivals \cup {NotSent}]
          /\ inbox \in [Msgs -> [Agents -> {"none", "context", "trigger"}]]
          /\ fan \in [Msgs -> [Causes -> SUBSET Agents]]
          /\ senderRow \in [Users -> Pending] /\ channelRow \in Pending
      BY DEF Init, Pending
    <2>2. /\ member = {} /\ sessions = {} /\ dropped = {} /\ running = Idle /\ took = {}
          /\ senderAsking = {} /\ channelAsking = {} /\ routed = {} /\ crashed = {} /\ overlap = {}
          /\ twice = FALSE /\ faults = 0
      BY DEF Init
    <2>3. faults \in 0..MaxFaults
      BY <2>2, BoundsAssumption
    <2> QED BY <1>1, <1>2, <2>1, <2>2, <2>3 DEF TypeOK
  <1>5. PlaceInv /\ WholeInv /\ LossInv /\ ReplayInv
    BY <1>3 DEF Init, PlaceInv, WholeInv, InInbox, LossInv, ReplayInv
  <1>6. AskingInv /\ SenderInv /\ ChannelInv
    BY DEF Init, AskingInv, SenderInv, ChannelInv
  <1> QED BY <1>4, <1>5, <1>6 DEF IInv

\* Every step keeps the invariant.
LEMMA IInvStep == IInv /\ [Next]_vars => IInv'
  <1> SUFFICES ASSUME IInv, [Next]_vars PROVE IInv'
    OBVIOUS
  <1>1. ASSUME NEW m \in Msgs, Arrive(m) PROVE IInv'
    BY <1>1, ArriveKeeps
  <1>2. ASSUME NEW m \in Msgs, Redeliver(m) PROVE IInv'
    BY <1>2, RedeliverKeeps
  <1>3. ASSUME NEW m \in Msgs, NEW c \in Causes, NEW a \in Agents, Deliver(m, c, a) PROVE IInv'
    BY <1>3, DeliverKeeps
  <1>4. ASSUME NEW m \in Msgs, NEW c \in Causes, NEW a \in Agents, DeliverThrows(m, c, a) PROVE IInv'
    BY <1>4, DeliverThrowsKeeps
  <1>5. ASSUME NEW m \in Msgs, NEW c \in Causes, NEW a \in Agents, Decline(m, c, a) PROVE IInv'
    BY <1>5, DeclineKeeps
  <1>6. ASSUME NEW m \in Msgs, NEW c \in Causes, ChannelRequest(m, c) PROVE IInv'
    BY <1>6, ChannelRequestKeeps
  <1>7. ASSUME NEW m \in Msgs, NEW c \in Causes, NEW a \in Agents, SenderRequest(a, m, c) PROVE IInv'
    BY <1>7, SenderRequestKeeps
  <1>8. ASSUME NEW u \in Users, ApproveSender(u) PROVE IInv'
    BY <1>8, ApproveSenderKeeps
  <1>9. ASSUME ApproveChannel PROVE IInv'
    BY <1>9, ApproveChannelKeeps
  <1>10. ASSUME DenyChannel \/ \E u \in Users : DenySender(u) PROVE IInv'
    BY <1>10, DenyKeeps
  <1>11. ASSUME HostRestart PROVE IInv'
    BY <1>11, HostRestartKeeps
  <1>12. ASSUME UNCHANGED vars PROVE IInv'
    <2>1. UNCHANGED <<arrival, chat, policy, wiring, member, senderRow, channelRow, sessions, dropped,
                      inbox, running, fan, took, senderAsking, channelAsking, overlap, twice, routed,
                      crashed, faults>>
      BY <1>12 DEF vars, chatVars, rowVars, fanVars, askVars
    <2>2. Grows /\ PlaceInv' /\ WholeInv' /\ LossInv' /\ ReplayInv'
      BY <2>1, QuietStep
    <2>3. AskingInv' /\ SenderInv' /\ ChannelInv'
      BY <2>1, <2>2, SenderAlone, ChannelAlone
    <2>4. TypeOK'
      BY <2>1 DEF IInv, TypeOK
    <2> QED BY <2>2, <2>3, <2>4 DEF IInv
  <1>13. ASSUME NEW m \in Msgs, NEW c \in Causes, NEW a \in Agents, WakeThrows(m, c, a) PROVE IInv'
    BY <1>13, WakeThrowsKeeps
  <1> QED BY <1>1, <1>2, <1>3, <1>4, <1>5, <1>6, <1>7, <1>8, <1>9, <1>10, <1>11, <1>12, <1>13 DEF Next

\* The invariant holds in every reachable state.
THEOREM Invariance == Spec => []IInv
  BY IInvInit, IInvStep, PTL DEF Spec

\* Every variable keeps its type; a lost card, a redelivery and a crash each cost
\* a fault, and the faults stay within their bound.
THEOREM TypeCorrect == Spec => []TypeOK
  <1>1. IInv => TypeOK
    BY DEF IInv
  <1> QED BY <1>1, Invariance, PTL

\* The fan-out is all or nothing (routeInbound's loop over the wired agents): where
\* no routing of a message was cut off, every agent that listens for it has it once
\* one agent has, however replays and second deliveries of it overlapped.
THEOREM FanOutWhole == Spec => []FanOutIsWhole
  <1>1. IInv => FanOutIsWhole
    BY DEF IInv, WholeInv, FanOutIsWhole
  <1> QED BY <1>1, Invariance, PTL

\* What an approval routes again reaches the agent it was approved for
\* (handleSenderApprovalResponse): nothing on the way refuses it.
THEOREM ApprovalsReachTheAgent == Spec => []ApprovedReachesInbox
  <1>1. IInv => ApprovedReachesInbox
    BY DEF IInv, ReplayInv, ApprovedReachesInbox
  <1> QED BY <1>1, Invariance, PTL

\* A message that addresses the bot and that the command gate neither filters nor
\* denies is in an inbox or among the dropped ones once it has been routed, unless an
\* owner denied the chat (routeInbound's audit).
THEOREM NothingVanishes == Spec => []NoSilentLoss
  <1>1. IInv => NoSilentLoss
    <2> SUFFICES ASSUME IInv, NEW m \in Msgs, <<m, "first">> \in routed \ crashed,
                        \A c \in Causes : fan[m][c] = {}, Mention(m), Passes(m)
                 PROVE  m \in dropped \/ chat = "denied" \/ InInbox(m)
      BY DEF NoSilentLoss, InInbox, Mention
    <2>1. "first" \in Causes
      BY DEF Causes
    <2>2. Arrived(m)
      BY <2>1 DEF IInv, PlaceInv
    <2> QED BY <2>1, <2>2 DEF IInv, LossInv
  <1> QED BY <1>1, Invariance, PTL

\* No card is open beside the answer it asks for: not for a chat that is wired or
\* denied, and not for a sender who is a member (channel-approval.ts and
\* sender-approval.ts, where requests have not overlapped).
THEOREM CardsStayOpen == Spec => []CardsAreOpen
  <1>1. IInv => CardsAreOpen
    BY DEF IInv, ChannelInv, SenderInv, CardsAreOpen, ChannelCardIsOpen, SenderCardIsOpen
  <1> QED BY <1>1, Invariance, PTL

=============================================================================
