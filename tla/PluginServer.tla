---------------------------- MODULE PluginServer ----------------------------
(***************************************************************************)
(* The Unix socket through which the coda plugin drives the host           *)
(* (src/src/plugin-server.ts).  Hosts contend for one path: the default    *)
(* path is per user, and nothing keeps a second host from starting while   *)
(* another one serves or shuts down.  A file at the path is named by the   *)
(* host that created it, so the file is stale when its owner does not      *)
(* listen.  The plugin sends each message until it is told ok, and a host  *)
(* may die between any two of its statements.                              *)
(***************************************************************************)
EXTENDS Naturals, SequencesExt

CONSTANTS
  Hosts,      \* host processes that may run for this user
  Messages,   \* messages coda delivers
  Senders,    \* their coda-side senders
  From,       \* the sender of each message
  NoHost,     \* no socket file at the path
  NoSender,   \* a session whose last_coda_sender is null
  MaxFaults   \* crashes of a host in a behaviour

ASSUME HostsAssumption == NoHost \notin Hosts
ASSUME SendersAssumption ==
  NoSender \notin Senders /\ From \in [Messages -> Senders]
ASSUME BoundsAssumption == MaxFaults \in Nat

Phases == {"down", "starting", "probing", "stale", "retrying", "bound",
           "serving", "closing"}

Containers == {"none", "starting", "running"}

VARIABLES
  phase,      \* where each host is in startPluginServer or stopPluginServer
  listening,  \* hosts whose server accepts connections
  file,       \* the host that created the socket file at the path, or NoHost
  overlapped, \* a host bound the path while another held an outdated view of it
  session,    \* what start made of the agent's session, in the order it is made
  inbox,      \* the ids of the coda rows in the session's inbox, oldest first
  sender,     \* sessions.last_coda_sender
  container,  \* the session's container, as each host's activeContainers has it
  answered,   \* messages whose deliver was answered ok
  torn,       \* a host died between the row and the sender of the last deliver
  faults      \* crashes so far

socketVars == <<phase, listening, file, overlapped>>
sessionVars == <<session, inbox, sender, container, answered, torn>>
vars == <<socketVars, sessionVars, faults>>

\* How far start has come: agent group, session row, coda_managed.
Steps == {"nothing", "group", "session", "managed"}

(***************************************************************************)
(* Types.  The inbox holds an id once, however often the plugin repeats a  *)
(* deliver, and an answered message is in it.                              *)
(***************************************************************************)
TypeOK ==
  /\ phase \in [Hosts -> Phases]
  /\ listening \in SUBSET Hosts
  /\ file \in Hosts \union {NoHost}
  /\ session \in Steps
  /\ inbox \in Seq(Messages) /\ IsInjective(inbox)
  /\ sender \in Senders \union {NoSender}
  /\ container \in [Hosts -> Containers]
  /\ answered \subseteq Range(inbox)
  /\ overlapped \in BOOLEAN /\ torn \in BOOLEAN
  /\ faults \in 0..MaxFaults
  /\ listening = {h \in Hosts : phase[h] \in {"bound", "serving"}}

Init ==
  /\ phase = [h \in Hosts |-> "down"]
  /\ listening = {} /\ file = NoHost /\ overlapped = FALSE
  /\ session = "nothing" /\ inbox = <<>> /\ sender = NoSender
  /\ container = [h \in Hosts |-> "none"]
  /\ answered = {} /\ torn = FALSE /\ faults = 0

-----------------------------------------------------------------------------
(* The socket path.                                                        *)

\* A host that acts on what it saw of the path before an await.
Outdated(h) == phase[h] \in {"stale", "closing"}

StartServer(h) ==
  /\ phase[h] = "down"
  /\ phase' = [phase EXCEPT ![h] = "starting"]
  /\ UNCHANGED <<listening, file, overlapped, sessionVars, faults>>

Listens(h) ==
  /\ phase[h] \in {"starting", "retrying"}
  /\ file = NoHost
  /\ phase' = [phase EXCEPT ![h] = "bound"]
  /\ listening' = listening \union {h}
  /\ file' = h
  /\ overlapped' = (overlapped \/ \E g \in Hosts \ {h} : Outdated(g))
  /\ UNCHANGED <<sessionVars, faults>>

\* A startup that takes any file for another host's socket.
InUseGivesUp(h) ==
  /\ phase[h] \in {"starting", "retrying"}
  /\ file # NoHost
  /\ phase' = [phase EXCEPT ![h] = "down"]
  /\ UNCHANGED <<listening, file, overlapped, sessionVars, faults>>

\* EADDRINUSE: the first attempt probes, the second one gives up, and a
\* startup that throws ends the process.
InUse(h) ==
  /\ phase[h] \in {"starting", "retrying"}
  /\ file # NoHost
  /\ phase' = [phase EXCEPT
                 ![h] = IF phase[h] = "starting" THEN "probing" ELSE "down"]
  /\ UNCHANGED <<listening, file, overlapped, sessionVars, faults>>

\* A probe that takes any file for a stale one.
ProbeBlind(h) ==
  /\ phase[h] = "probing"
  /\ phase' = [phase EXCEPT ![h] = "stale"]
  /\ UNCHANGED <<listening, file, overlapped, sessionVars, faults>>

\* A file nobody listens behind refuses the probe; so does no file at all.
Probe(h) ==
  /\ phase[h] = "probing"
  /\ phase' = [phase EXCEPT
                 ![h] = IF file \in listening THEN "down" ELSE "stale"]
  /\ UNCHANGED <<listening, file, overlapped, sessionVars, faults>>

\* unlinkSync throws when the file has gone in the meantime.
RemoveStale(h) ==
  /\ phase[h] = "stale"
  /\ phase' = [phase EXCEPT ![h] = IF file = NoHost THEN "down" ELSE "retrying"]
  /\ file' = NoHost
  /\ UNCHANGED <<listening, overlapped, sessionVars, faults>>

\* chmodSync on the bound path, which another host may have unlinked.
Secures(h) ==
  /\ phase[h] = "bound"
  /\ \/ /\ file # NoHost
        /\ phase' = [phase EXCEPT ![h] = "serving"]
        /\ UNCHANGED listening
     \/ /\ file = NoHost
        /\ phase' = [phase EXCEPT ![h] = "down"]
        /\ listening' = listening \ {h}
  /\ UNCHANGED <<file, overlapped, sessionVars, faults>>

\* server.close() stops listening and unlinks the path it was bound to; its
\* callback comes when the open connections have ended.
StopServer(h) ==
  /\ phase[h] = "serving"
  /\ phase' = [phase EXCEPT ![h] = "closing"]
  /\ listening' = listening \ {h}
  /\ file' = NoHost
  /\ UNCHANGED <<overlapped, sessionVars, faults>>

\* What is at the path by then is unlinked, whoever created it.
Closed(h) ==
  /\ phase[h] = "closing"
  /\ phase' = [phase EXCEPT ![h] = "down"]
  /\ file' = NoHost
  /\ UNCHANGED <<listening, overlapped, sessionVars, faults>>

-----------------------------------------------------------------------------
(* Requests, each one turn of the host the path leads to.  A host dies     *)
(* between two statements of a turn or between turns, leaving its socket   *)
(* file behind.                                                            *)

Serves == file \in listening /\ phase[file] = "serving"

Wake(h) == [container EXCEPT ![h] = IF @ = "none" THEN "starting" ELSE @]

Dies(h) ==
  /\ faults < MaxFaults
  /\ phase' = [phase EXCEPT ![h] = "down"]
  /\ listening' = listening \ {h}
  /\ container' = [container EXCEPT ![h] = "none"]
  /\ faults' = faults + 1
  /\ UNCHANGED <<file, overlapped>>

HostDies(h) ==
  /\ phase[h] # "down"
  /\ Dies(h)
  /\ UNCHANGED <<session, inbox, sender, answered, torn>>

\* handleStart repeats what is already there without changing it.
Start ==
  /\ Serves
  /\ session' = "managed"
  /\ container' = Wake(file)
  /\ UNCHANGED <<socketVars, inbox, sender, answered, torn, faults>>

StartDies ==
  /\ Serves /\ session # "managed"
  /\ \/ session = "nothing" /\ session' \in {"group", "session"}
     \/ session = "group" /\ session' = "session"
  /\ Dies(file)
  /\ UNCHANGED <<inbox, sender, answered, torn>>

\* The plugin repeats a deliver until it is answered, with the session id an
\* answered start has given it.
Open(m) == Serves /\ session = "managed" /\ m \in Messages \ answered

\* The row, then the sender, then the wake.
Deliver(m) ==
  /\ Open(m) /\ m \notin Range(inbox)
  /\ inbox' = Append(inbox, m)
  /\ sender' = From[m]
  /\ container' = Wake(file)
  /\ answered' = answered \union {m}
  /\ torn' = FALSE
  /\ UNCHANGED <<socketVars, session, faults>>

\* A redelivery that names its sender before it inserts.
RedeliverSenderFirst(m) ==
  /\ Open(m) /\ m \in Range(inbox)
  /\ sender' = From[m]
  /\ UNCHANGED <<socketVars, session, inbox, container, answered, torn, faults>>

\* The same id again: the insert violates the primary key, the plugin is told
\* of an internal error, and nothing else of the handler runs.
Redeliver(m) ==
  /\ Open(m) /\ m \in Range(inbox)
  /\ UNCHANGED vars

\* The host dies after the row or after the sender, and answers nothing.
DeliverDies(m) ==
  /\ Open(m) /\ m \notin Range(inbox)
  /\ inbox' = Append(inbox, m)
  /\ \/ sender' = From[m] /\ torn' = FALSE
     \/ torn' = TRUE /\ UNCHANGED sender
  /\ Dies(file)
  /\ UNCHANGED <<session, answered>>

\* killContainer finds no entry while the container is still starting.
Stop ==
  /\ Serves /\ session = "managed"
  /\ container' = [container EXCEPT ![file] = IF @ = "running" THEN "none" ELSE @]
  /\ UNCHANGED <<socketVars, session, inbox, sender, answered, torn, faults>>

Spawned(h) ==
  /\ container[h] = "starting"
  /\ container' = [container EXCEPT ![h] = "running"]
  /\ UNCHANGED <<socketVars, session, inbox, sender, answered, torn, faults>>

\* The spawn throws, or the running container ends by itself.
Exits(h) ==
  /\ container[h] # "none"
  /\ container' = [container EXCEPT ![h] = "none"]
  /\ UNCHANGED <<socketVars, session, inbox, sender, answered, torn, faults>>

-----------------------------------------------------------------------------
Startup(h) ==
  \/ Listens(h) \/ InUse(h) \/ Probe(h) \/ RemoveStale(h) \/ Secures(h)

Next ==
  \/ \E h \in Hosts :
       \/ StartServer(h) \/ Startup(h)
       \/ StopServer(h) \/ Closed(h) \/ HostDies(h)
       \/ Spawned(h) \/ Exits(h)
  \/ Start \/ StartDies \/ Stop
  \/ \E m \in Messages : Deliver(m) \/ Redeliver(m) \/ DeliverDies(m)

Spec == Init /\ [][Next]_vars

(***************************************************************************)
(* The service manager restarts a host that has ended, a startup and a     *)
(* shutdown run to their end, and the plugin repeats a request until it is *)
(* answered, so one that finds a host serving again and again gets in.     *)
(***************************************************************************)
FairSpec ==
  /\ Spec
  /\ \A h \in Hosts :
       WF_vars(StartServer(h)) /\ WF_vars(Startup(h)) /\ WF_vars(Closed(h))
  /\ SF_vars(Start)
  /\ \A m \in Messages : SF_vars(Deliver(m))

-----------------------------------------------------------------------------
(***************************************************************************)
(* startPluginServer never takes the path from a live listener: every host *)
(* that listens is the one the path leads to, so there are never two,      *)
(* unless a host bound the path while another one was between its probe    *)
(* and its unlink or between the two unlinks of its shutdown.              *)
(***************************************************************************)
ListenerIsReachable ==
  ~overlapped => \A h \in listening : file = h

(***************************************************************************)
(* Replies go to whoever spoke last (handleDeliver): last_coda_sender is   *)
(* the sender of the newest row of the inbox through crashes and repeated  *)
(* delivers, except after a host died right between the row and the sender.*)
(***************************************************************************)
LastSenderIsNewest ==
  inbox # <<>> /\ ~torn => sender = From[Last(inbox)]

(***************************************************************************)
(* A message the plugin keeps delivering reaches the inbox through         *)
(* crashes, stale socket files and restarts of either host, unless two     *)
(* hosts have overlapped and the path may lead nowhere for good.           *)
(***************************************************************************)
MessagesArrive ==
  \A m \in Messages : <>(m \in Range(inbox) \/ overlapped)
=============================================================================
