------------------------------- MODULE Agents -------------------------------
(***************************************************************************)
(* Agents that create and write to each other (src/modules/agent-to-agent, *)
(* src/group-init.ts, the channel wiring of src/db/messaging-groups.ts and *)
(* the delivery of such rows in src/delivery.ts).  What an agent may reach *)
(* is in the central table agent_destinations; a container resolves names  *)
(* in the copy its session's inbound.db got when it was spawned, or when   *)
(* the host last projected it.  A handler runs without an interruption but *)
(* it can throw, or the host die, after any of its writes; its row is then *)
(* due again.                                                              *)
(***************************************************************************)
EXTENDS Naturals, FiniteSets, Sequences

CONSTANTS
  Names,        \* what agents and chats are called, normalised
  Chats,        \* messaging groups an operator may wire to the first agent
  MaxGroups,    \* agent groups in a behaviour
  MaxRows,      \* rows agents write
  MaxAttempts,  \* MAX_DELIVERY_ATTEMPTS
  MaxFaults     \* handlers that throw, and deaths of the host

ASSUME BoundsAssumption ==
  /\ MaxGroups \in Nat \ {0} /\ MaxRows \in Nat
  /\ MaxAttempts \in Nat \ {0} /\ MaxFaults \in Nat
  /\ Names \cap {"parent", "main"} = {}

\* The rows of agent_destinations tell agents and chats apart (target_type).
ASSUME ChatsAssumption == IsFiniteSet(Chats) /\ Chats \cap 1..MaxGroups = {}

VARIABLES
  groups,    \* agent groups: folder, and whether the files have been set up
  dests,     \* agent_destinations: owner, name and target of a row
  sessions,  \* sessions: their agent, container, projection and mail
  rows,      \* messages_out: rows for an agent, and create_agent requests
  tries,     \* deliveryAttempts, in the host's memory
  faults     \* faults so far

vars == <<groups, dests, sessions, rows, tries, faults>>

GroupIds == 1..Len(groups)

\* A name as it is stored: base, or base-n when n > 1.
LocalNames == (Names \union {"parent"}) \X (1..(MaxGroups + Cardinality(Chats)))

\* The name of a row that was addressed without one.
NoName == <<"none", 0>>

Own(ds, a)     == {d \in ds : d.owner = a}
Named(a, name) == \E d \in dests : d.owner = a /\ d.name = name
Reaches(a, t)  == \E d \in dests : d.owner = a /\ d.target = t

\* The base, whether it is taken or not.
BaseName(base, taken) == <<base, 1>>

\* The first of base, base-2, base-3, ... that is not taken.
FreeName(base, taken) ==
  <<base, CHOOSE n \in 1..(Cardinality(taken) + 1) :
            /\ <<base, n>> \notin taken
            /\ \A m \in 1..(n - 1) : <<base, m>> \in taken>>

Stopped(ss)    == [i \in DOMAIN ss |-> [ss[i] EXCEPT !.running = FALSE]]
NewSession(a)  == [agent |-> a, running |-> FALSE, proj |-> {}, mail |-> {}]
SessionsOf(a)  == {i \in DOMAIN sessions : sessions[i].agent = a}
Tells(s, what) == sessions' = [sessions EXCEPT ![s].mail = @ \union {what}]

\* An installed agent with a session in each of two chats, whose own
\* destinations are left out.
Init ==
  /\ groups = <<[folder |-> <<"main", 1>>, files |-> TRUE]>>
  /\ dests = {}
  /\ sessions = <<NewSession(1), NewSession(1)>>
  /\ rows = <<>>
  /\ tries = [r \in 1..MaxRows |-> 0]
  /\ faults = 0

-----------------------------------------------------------------------------
(* The agents and the operator.                                            *)

Spawn(s) ==
  /\ ~sessions[s].running
  /\ sessions' = [sessions EXCEPT ![s].running = TRUE,
                                  ![s].proj = Own(dests, sessions[s].agent)]
  /\ groups' = [groups EXCEPT ![sessions[s].agent].files = TRUE]
  /\ UNCHANGED <<dests, rows, tries, faults>>

Exit(s) ==
  /\ sessions[s].running
  /\ sessions' = [sessions EXCEPT ![s].running = FALSE]
  /\ UNCHANGED <<groups, dests, rows, tries, faults>>

Writes(s, kind, name, target) ==
  /\ sessions[s].running /\ Len(rows) < MaxRows
  /\ rows' = Append(rows, [kind |-> kind, name |-> name, target |-> target,
                           from |-> s, state |-> "due"])
  /\ UNCHANGED <<groups, dests, sessions, tries, faults>>

RequestAgent(s) ==
  \E base \in Names : Writes(s, "create", <<base, 1>>, 0)

\* send_message and <message to="...">: the name is looked up in the
\* projection as it is now, an unknown one goes nowhere.
SendTo(s) ==
  \E d \in sessions[s].proj :
    /\ d.target \in GroupIds
    /\ Writes(s, "send", d.name, d.target)

\* Where an answer to a message goes: to the agent that wrote it, and for the
\* host's notices to the agent itself.
ReturnAddress(s, m) ==
  IF m[1] = "text" THEN sessions[rows[m[2]].from].agent ELSE sessions[s].agent

\* Plain text of the agent, an error of its query, and the answer to /clear go
\* where the message came from; no name is looked up.
Reply(s) ==
  \E m \in sessions[s].mail : Writes(s, "send", NoName, ReturnAddress(s, m))

\* createMessagingGroupAgent: the chat's name gets a suffix when the agent has
\* it for something else.  No session's projection is refreshed.
WireChat(c) ==
  /\ ~Reaches(1, c)
  /\ \E base \in Names :
       dests' = dests \union {[owner |-> 1, target |-> c,
                   name |-> FreeName(base, {d.name : d \in Own(dests, 1)})]}
  /\ UNCHANGED <<groups, sessions, rows, tries, faults>>

-----------------------------------------------------------------------------
(* drainSession: what becomes of a row whose handler is over.              *)

Fault == faults < MaxFaults /\ faults' = faults + 1

Marked(r, state) == rows' = [rows EXCEPT ![r].state = state]

Done(r) ==
  /\ Marked(r, "done") /\ tries' = [tries EXCEPT ![r] = 0]
  /\ UNCHANGED faults

\* The last attempt gives the row up.
Threw(r) ==
  IF tries[r] + 1 < MaxAttempts
  THEN tries' = [tries EXCEPT ![r] = @ + 1] /\ UNCHANGED rows
  ELSE tries' = [tries EXCEPT ![r] = 0] /\ Marked(r, "failed")

\* The counters go with the host, and the containers when it comes back.
HostDies ==
  /\ Fault
  /\ sessions' = Stopped(sessions)
  /\ tries' = [r \in 1..MaxRows |-> 0]
  /\ UNCHANGED <<groups, dests, rows>>

-----------------------------------------------------------------------------
(* handleCreateAgent.                                                      *)

\* The destination before the files are there.
CreateStepsGrantFirst ==
  <<"group", "grant", "files", "parent", "project", "notify">>

\* The notice before the name is projected.
CreateStepsNoticeFirst ==
  <<"group", "files", "grant", "parent", "notify", "project">>

\* Its writes, in their order.
CreateSteps == <<"group", "files", "grant", "parent", "project", "notify">>

\* The first k writes for row r, on sessions ss: the agent group, with a folder of its own,
\* its files, a destination each way, the creator's projection, the notice.
CreateUpTo(ss, r, k) ==
  LET Did(step) == \E i \in 1..k : CreateSteps[i] = step
      s == rows[r].from
      a == sessions[s].agent
      g == Len(groups) + 1
      folder == FreeName(rows[r].name[1], {groups[i].folder : i \in GroupIds})
      Grant(owner, name, target) ==
        {[owner |-> owner, name |-> name, target |-> target]}
  IN  /\ groups' = IF Did("group")
                   THEN Append(groups, [folder |-> folder, files |-> Did("files")])
                   ELSE groups
      /\ dests' = dests
           \union (IF Did("grant") THEN Grant(a, rows[r].name, g) ELSE {})
           \union (IF Did("parent") THEN Grant(g, <<"parent", 1>>, a) ELSE {})
      /\ sessions' = [ss EXCEPT
           ![s].proj = IF Did("project") THEN Own(dests', a) ELSE @,
           ![s].mail = IF Did("notify") THEN @ \union {<<"created", rows[r].name>>} ELSE @]

Due(r, kind) == rows[r].state = "due" /\ rows[r].kind = kind

Creates(r) == Due(r, "create") /\ ~Named(sessions[rows[r].from].agent, rows[r].name)
              /\ Len(groups) < MaxGroups

CreateAgent(r) == Creates(r) /\ CreateUpTo(sessions, r, Len(CreateSteps)) /\ Done(r)

CreateAgentThrows(r) ==
  /\ Creates(r)
  /\ \E k \in 0..(Len(CreateSteps) - 1) : CreateUpTo(sessions, r, k)
  /\ Threw(r) /\ Fault

\* The host dies in the handler, or before the row is marked.
CreateAgentDies(r) ==
  /\ Creates(r) /\ Fault
  /\ \E k \in 1..Len(CreateSteps) : CreateUpTo(Stopped(sessions), r, k)
  /\ tries' = [i \in 1..MaxRows |-> 0]
  /\ UNCHANGED rows

CreateRefused(r) ==
  /\ Due(r, "create") /\ Named(sessions[rows[r].from].agent, rows[r].name)
  /\ Tells(rows[r].from, <<"exists", rows[r].name>>)
  /\ Done(r) /\ UNCHANGED <<groups, dests>>

-----------------------------------------------------------------------------
(* routeAgentMessage: to the newest session of the target, or to a new one. *)

\* A check for a row the other way round.
AllowedBack(a, t) == t = a \/ Reaches(t, a)

Allowed(a, t) == t = a \/ Reaches(a, t)

TargetSession(t) ==
  IF SessionsOf(t) = {} THEN Len(sessions) + 1
  ELSE CHOOSE i \in SessionsOf(t) : \A j \in SessionsOf(t) : j <= i

Opened(t) ==
  IF SessionsOf(t) = {} THEN Append(sessions, NewSession(t)) ELSE sessions

Posted(r) ==
  LET t == rows[r].target
  IN  [Opened(t) EXCEPT ![TargetSession(t)].mail = @ \union {<<"text", r>>}]

Route(r) ==
  /\ Due(r, "send") /\ Allowed(sessions[rows[r].from].agent, rows[r].target)
  /\ sessions' = Posted(r)
  /\ Done(r) /\ UNCHANGED <<groups, dests>>

\* An agent without a destination for the target: the handler throws before it
\* has looked for a session.
RouteRefused(r) ==
  /\ Due(r, "send") /\ ~Allowed(sessions[rows[r].from].agent, rows[r].target)
  /\ Threw(r) /\ UNCHANGED <<groups, dests, sessions, faults>>

RouteThrows(r) ==
  /\ Due(r, "send") /\ Allowed(sessions[rows[r].from].agent, rows[r].target)
  /\ sessions' \in {sessions, Opened(rows[r].target), Posted(r)}
  /\ Threw(r) /\ Fault /\ UNCHANGED <<groups, dests>>

\* The host dies once the message is there and before the row is marked: while
\* it awaits the wake of the target.
RouteDies(r) ==
  /\ Due(r, "send") /\ Allowed(sessions[rows[r].from].agent, rows[r].target)
  /\ Fault
  /\ sessions' = Stopped(Posted(r))
  /\ tries' = [i \in 1..MaxRows |-> 0]
  /\ UNCHANGED <<groups, dests, rows>>

-----------------------------------------------------------------------------
Next ==
  \/ \E s \in DOMAIN sessions : Spawn(s) \/ Exit(s) \/ RequestAgent(s)
                                  \/ SendTo(s) \/ Reply(s)
  \/ \E c \in Chats : WireChat(c)
  \/ \E r \in DOMAIN rows :
       \/ CreateAgent(r) \/ CreateAgentThrows(r) \/ CreateAgentDies(r)
       \/ CreateRefused(r)
       \/ Route(r) \/ RouteRefused(r) \/ RouteThrows(r) \/ RouteDies(r)
  \/ HostDies

Spec == Init /\ [][Next]_vars

-----------------------------------------------------------------------------
(***************************************************************************)
(* Types and keys.  No agent has two destinations of one name and no two   *)
(* agent groups share a folder: the tables' keys would make the handler    *)
(* throw, again and again.                                                 *)
(***************************************************************************)
TypeOK ==
  /\ Len(groups) \in 1..MaxGroups /\ Len(rows) \in 0..MaxRows
  /\ \A g, h \in GroupIds : groups[g].folder = groups[h].folder => g = h
  /\ \A d, e \in dests : d.owner = e.owner /\ d.name = e.name => d = e
  /\ \A d \in dests : d.owner \in GroupIds /\ d.target \in GroupIds \union Chats
  /\ \A s \in DOMAIN sessions : sessions[s].agent \in GroupIds
  /\ \A r \in DOMAIN rows : rows[r].state \in {"due", "done", "failed"}
  /\ tries \in [1..MaxRows -> 0..(MaxAttempts - 1)]

(***************************************************************************)
(* An agent that anyone can write to has its folder and the instructions   *)
(* it was created with (initGroupFilesystem): spawning it first would have *)
(* left it an empty AGENTS.local.md for good.  This holds whatever stopped *)
(* its request's handler; what a stop can leave out is the way back to the *)
(* creator (NothingIsRefused).                                             *)
(***************************************************************************)
NamedChildrenAreWhole ==
  \A d \in dests : d.target \in GroupIds => groups[d.target].files

(***************************************************************************)
(* 'Agent "x" created. You can now message it' (handleCreateAgent): the    *)
(* creator's session knows the name, and the child can write back.         *)
(***************************************************************************)
CreatedIsTwoWay ==
  \A s \in DOMAIN sessions : \A name \in LocalNames :
    <<"created", name>> \in sessions[s].mail =>
      \E d \in sessions[s].proj :
        d.name = name /\ d \in dests /\ Reaches(d.target, sessions[s].agent)

(***************************************************************************)
(* A container may resolve names in a stale copy, but never to something   *)
(* the host refuses (destinations.ts: the table "is both the routing map   *)
(* and the container-visible ACL", the host's check is authoritative):     *)
(* while there are fewer faults than attempts, no row with a name is given *)
(* up.  An answer, which has none, is given up only where the request that *)
(* created its author was stopped between the two destinations: the author *)
(* can be written to and cannot write back, for good, since the repetition *)
(* of the request finds the name taken (handleCreateAgent).                *)
(***************************************************************************)
OneWay(child, creator) == Reaches(creator, child) /\ ~Reaches(child, creator)

NothingIsRefused ==
  \A r \in DOMAIN rows :
    rows[r].state = "failed" =>
      rows[r].name = NoName /\ OneWay(sessions[rows[r].from].agent, rows[r].target)
=============================================================================
