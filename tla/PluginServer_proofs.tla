------------------------ MODULE PluginServer_proofs ------------------------
(***************************************************************************)
(* Proofs about PluginServer, for any hosts, messages and crashes, and     *)
(* about the cursor its clients read a session's output by: the numbers of *)
(* MessageNumbers, for any number of writers and any bound.                *)
(*                                                                         *)
(* A live listener keeps its path because whoever may still unlink it, a   *)
(* host that has found the file stale or one that is closing, has seen     *)
(* that nobody listens; only a host that binds the path in between makes   *)
(* that view outdated, and this is what overlapped records.                *)
(***************************************************************************)
EXTENDS PluginServer, MessageNumbers, TLAPS

\* Nobody listens while a host is about to unlink the path.
UnlinkInv == ~overlapped /\ (\E h \in Hosts : Outdated(h)) => listening = {}

IInv == TypeOK /\ ListenerIsReachable /\ UnlinkInv

\* A served request reaches the host the path leads to.
LEMMA ServesHost == ASSUME TypeOK, Serves PROVE file \in Hosts /\ phase[file] = "serving"
  BY DEF TypeOK, Serves

\* Waking a container keeps the table of containers well typed.
LEMMA WakeType ==
  ASSUME TypeOK, NEW h \in Hosts
  PROVE  Wake(h) \in [Hosts -> Containers]
  BY DEF TypeOK, Wake, Containers

\* An id that is not in the inbox is appended without a repetition.
LEMMA InboxGrows ==
  ASSUME NEW m \in Messages, inbox \in Seq(Messages), IsInjective(inbox),
         m \notin Range(inbox)
  PROVE  /\ Append(inbox, m) \in Seq(Messages)
         /\ IsInjective(Append(inbox, m))
         /\ Range(Append(inbox, m)) = Range(inbox) \union {m}
         /\ Append(inbox, m) # <<>> /\ Last(Append(inbox, m)) = m
  <1>1. /\ Append(inbox, m) \in Seq(Messages)
        /\ Len(Append(inbox, m)) = Len(inbox) + 1
        /\ DOMAIN inbox = 1..Len(inbox) /\ Len(inbox) \in Nat
        /\ DOMAIN Append(inbox, m) = 1..(Len(inbox) + 1)
        /\ \A i \in 1..Len(inbox) : Append(inbox, m)[i] = inbox[i]
        /\ Append(inbox, m)[Len(inbox) + 1] = m
    OBVIOUS
  <1>2. \A i \in 1..(Len(inbox) + 1) : i \in 1..Len(inbox) \/ i = Len(inbox) + 1
    BY <1>1
  <1>3. IsInjective(Append(inbox, m))
    BY <1>1, <1>2 DEF IsInjective, Range
  <1>4. Range(Append(inbox, m)) = Range(inbox) \union {m}
    BY <1>1, <1>2 DEF Range
  <1>5. Append(inbox, m) # <<>> /\ Last(Append(inbox, m)) = m
    BY <1>1 DEF Last
  <1> QED BY <1>1, <1>3, <1>4, <1>5

-----------------------------------------------------------------------------
(* The socket path.                                                        *)

\* A startup and a shutdown keep a live listener at its path.
LEMMA SocketStep ==
  ASSUME IInv, NEW h \in Hosts,
         \/ StartServer(h) \/ Startup(h) \/ StopServer(h) \/ Closed(h)
  PROVE  IInv'
  <1> USE DEF IInv, sessionVars
  <1>0. h # NoHost
    BY HostsAssumption
  <1>1. CASE StartServer(h)
    <2>1. TypeOK'
      BY <1>1 DEF StartServer, TypeOK, Phases
    <2>2. \A g \in Hosts : Outdated(g)' => Outdated(g)
      BY <1>1 DEF StartServer, Outdated, TypeOK
    <2> QED BY <1>1, <2>1, <2>2 DEF StartServer, ListenerIsReachable, UnlinkInv
  <1>2. CASE Listens(h)
    <2>1. TypeOK'
      BY <1>2 DEF Listens, TypeOK, Phases
    <2>2. ~overlapped' => listening = {}
      BY <1>2, HostsAssumption DEF Listens, ListenerIsReachable, TypeOK
    <2>3. ~overlapped' => \A g \in Hosts : ~Outdated(g)'
      BY <1>2 DEF Listens, Outdated, TypeOK
    <2> QED BY <1>2, <2>1, <2>2, <2>3 DEF Listens, ListenerIsReachable, UnlinkInv
  <1>3. CASE InUse(h)
    <2>1. TypeOK'
      BY <1>3 DEF InUse, TypeOK, Phases
    <2>2. \A g \in Hosts : Outdated(g)' => Outdated(g)
      BY <1>3 DEF InUse, Outdated, TypeOK
    <2> QED BY <1>3, <2>1, <2>2 DEF InUse, ListenerIsReachable, UnlinkInv
  <1>4. CASE Probe(h)
    <2>1. TypeOK'
      BY <1>4 DEF Probe, TypeOK, Phases
    <2>2. CASE file \in listening
      <3>1. \A g \in Hosts : Outdated(g)' => Outdated(g)
        BY <1>4, <2>2 DEF Probe, Outdated, TypeOK
      <3> QED BY <1>4, <2>1, <3>1 DEF Probe, ListenerIsReachable, UnlinkInv
    <2>3. CASE file \notin listening
      <3>1. ~overlapped => listening = {}
        BY <2>3 DEF ListenerIsReachable
      <3> QED BY <1>4, <2>1, <3>1 DEF Probe, ListenerIsReachable, UnlinkInv
    <2> QED BY <2>2, <2>3
  <1>5. CASE RemoveStale(h)
    <2>1. TypeOK'
      BY <1>5 DEF RemoveStale, TypeOK, Phases
    <2>2. ~overlapped => listening = {}
      BY <1>5 DEF RemoveStale, Outdated, UnlinkInv
    <2> QED BY <1>5, <2>1, <2>2 DEF RemoveStale, ListenerIsReachable, UnlinkInv
  <1>6. CASE Secures(h)
    <2>1. TypeOK'
      BY <1>6 DEF Secures, TypeOK, Phases
    <2>2. /\ \A g \in Hosts : Outdated(g)' => Outdated(g)
          /\ listening' \subseteq listening
          /\ file' = file /\ overlapped' = overlapped
      BY <1>6 DEF Secures, Outdated, TypeOK
    <2> QED BY <2>1, <2>2 DEF ListenerIsReachable, UnlinkInv
  <1>7. CASE StopServer(h)
    <2>1. TypeOK'
      BY <1>7 DEF StopServer, TypeOK, Phases
    <2>2. ~overlapped => listening' = {}
      <3>1. h \in listening
        BY <1>7 DEF StopServer, TypeOK
      <3> QED BY <1>7, <3>1 DEF StopServer, ListenerIsReachable
    <2> QED BY <1>7, <2>1, <2>2 DEF StopServer, ListenerIsReachable, UnlinkInv
  <1>8. CASE Closed(h)
    <2>1. TypeOK'
      BY <1>8 DEF Closed, TypeOK, Phases
    <2>2. ~overlapped => listening = {}
      BY <1>8 DEF Closed, Outdated, UnlinkInv
    <2> QED BY <1>8, <2>1, <2>2 DEF Closed, ListenerIsReachable, UnlinkInv
  <1> QED BY <1>1, <1>2, <1>3, <1>4, <1>5, <1>6, <1>7, <1>8 DEF Startup

\* A host that dies takes its listener and its containers with it; the socket
\* file stays, so nothing that was unreachable or outdated comes to be.
LEMMA DeathStep ==
  ASSUME IInv, NEW h \in Hosts, Dies(h)
  PROVE  /\ phase' \in [Hosts -> Phases] /\ container' \in [Hosts -> Containers]
         /\ listening' \in SUBSET Hosts /\ faults' \in 0..MaxFaults
         /\ listening' = {g \in Hosts : phase'[g] \in {"bound", "serving"}}
         /\ UNCHANGED <<file, overlapped>>
         /\ ListenerIsReachable' /\ UnlinkInv'
  <1>1. /\ phase' \in [Hosts -> Phases] /\ container' \in [Hosts -> Containers]
        /\ listening' \in SUBSET Hosts
        /\ listening' = {g \in Hosts : phase'[g] \in {"bound", "serving"}}
        /\ UNCHANGED <<file, overlapped>>
    BY DEF IInv, TypeOK, Dies, Phases, Containers
  <1>2. faults' \in 0..MaxFaults
    BY BoundsAssumption DEF IInv, TypeOK, Dies
  <1>3. /\ \A g \in Hosts : Outdated(g)' => Outdated(g)
        /\ listening' \subseteq listening
    BY DEF IInv, TypeOK, Dies, Outdated
  <1>4. ListenerIsReachable' /\ UnlinkInv'
    BY <1>1, <1>3 DEF IInv, ListenerIsReachable, UnlinkInv
  <1> QED BY <1>1, <1>2, <1>4

\* What only depends on the socket is kept while the socket does not change.
LEMMA SocketAlone ==
  ASSUME IInv, UNCHANGED socketVars
  PROVE  ListenerIsReachable' /\ UnlinkInv'
  BY DEF IInv, socketVars, ListenerIsReachable, UnlinkInv, Outdated

\* A request, served to its end or cut short by a crash, keeps the invariant.
LEMMA RequestStep ==
  ASSUME IInv,
         \/ Start \/ StartDies \/ Stop
         \/ \E m \in Messages : Deliver(m) \/ Redeliver(m) \/ DeliverDies(m)
  PROVE  IInv'
  <1> USE DEF IInv
  <1>1. CASE Start
    <2>1. Wake(file) \in [Hosts -> Containers]
      BY <1>1, ServesHost, WakeType DEF Start
    <2>2. TypeOK'
      BY <1>1, <2>1 DEF Start, socketVars, TypeOK, Steps
    <2> QED BY <1>1, <2>2, SocketAlone DEF Start
  <1>2. CASE StartDies
    <2>1. file \in Hosts /\ Dies(file)
      BY <1>2, ServesHost DEF StartDies
    <2>2. TypeOK'
      BY <1>2, <2>1, DeathStep DEF StartDies, TypeOK, Steps
    <2> QED BY <2>1, <2>2, DeathStep
  <1>3. CASE Stop
    <2>1. TypeOK'
      BY <1>3 DEF Stop, socketVars, TypeOK, Containers
    <2> QED BY <1>3, <2>1, SocketAlone DEF Stop
  <1>4. ASSUME NEW m \in Messages, Deliver(m) PROVE IInv'
    <2>1. Wake(file) \in [Hosts -> Containers]
      BY <1>4, ServesHost, WakeType DEF Deliver, Open
    <2>2. /\ inbox' \in Seq(Messages) /\ IsInjective(inbox')
          /\ Range(inbox') = Range(inbox) \union {m}
      BY <1>4, InboxGrows DEF Deliver, TypeOK
    <2>3. answered' \subseteq Range(inbox') /\ sender' \in Senders
      BY <1>4, <2>2, SendersAssumption DEF Deliver, TypeOK
    <2>4. TypeOK'
      BY <1>4, <2>1, <2>2, <2>3 DEF Deliver, socketVars, TypeOK
    <2> QED BY <1>4, <2>4, SocketAlone DEF Deliver
  <1>5. ASSUME NEW m \in Messages, Redeliver(m) PROVE IInv'
    <2>1. UNCHANGED socketVars /\ TypeOK'
      BY <1>5 DEF Redeliver, vars, socketVars, sessionVars, TypeOK
    <2> QED BY <2>1, SocketAlone
  <1>6. ASSUME NEW m \in Messages, DeliverDies(m) PROVE IInv'
    <2>1. file \in Hosts /\ Dies(file)
      BY <1>6, ServesHost DEF DeliverDies, Open
    <2>2. /\ inbox' \in Seq(Messages) /\ IsInjective(inbox')
          /\ Range(inbox') = Range(inbox) \union {m}
      BY <1>6, InboxGrows DEF DeliverDies, TypeOK
    <2>3. answered' \subseteq Range(inbox') /\ session' \in Steps
      BY <1>6, <2>2 DEF DeliverDies, TypeOK
    <2>4. sender' \in Senders \union {NoSender}
      BY <1>6, SendersAssumption DEF DeliverDies, TypeOK
    <2>5. torn' \in BOOLEAN
      BY <1>6 DEF DeliverDies, TypeOK
    <2>6. TypeOK'
      BY <2>1, <2>2, <2>3, <2>4, <2>5, DeathStep DEF TypeOK
    <2> QED BY <2>1, <2>6, DeathStep
  <1> QED BY <1>1, <1>2, <1>3, <1>4, <1>5, <1>6

\* IInv is inductive.
LEMMA IInvStep == IInv /\ [Next]_vars => IInv'
  <1> SUFFICES ASSUME IInv, [Next]_vars PROVE IInv'
    OBVIOUS
  <1> USE DEF IInv
  <1>1. ASSUME NEW h \in Hosts, HostDies(h) PROVE IInv'
    <2>1. TypeOK'
      BY <1>1, DeathStep DEF HostDies, TypeOK
    <2> QED BY <1>1, <2>1, DeathStep DEF HostDies
  <1>2. ASSUME NEW h \in Hosts, Spawned(h) \/ Exits(h) PROVE IInv'
    <2>1. UNCHANGED socketVars /\ TypeOK'
      BY <1>2 DEF Spawned, Exits, socketVars, TypeOK, Containers
    <2> QED BY <2>1, SocketAlone
  <1>3. CASE UNCHANGED vars
    <2>1. UNCHANGED socketVars /\ TypeOK'
      BY <1>3 DEF vars, socketVars, sessionVars, TypeOK
    <2> QED BY <2>1, SocketAlone
  <1> QED BY <1>1, <1>2, <1>3, SocketStep, RequestStep DEF Next

\* At boot nobody listens and the inbox is empty.
LEMMA IInvInit == Init => IInv
  <1> SUFFICES ASSUME Init PROVE IInv
    OBVIOUS
  <1>1. IsInjective(<<>>) /\ <<>> \in Seq(Messages)
    BY DEF IsInjective
  <1>2. TypeOK
    <2>1. inbox \in Seq(Messages) /\ IsInjective(inbox) /\ answered \subseteq Range(inbox)
      BY <1>1 DEF Init
    <2>2. /\ phase \in [Hosts -> Phases] /\ container \in [Hosts -> Containers]
          /\ listening = {h \in Hosts : phase[h] \in {"bound", "serving"}}
      BY DEF Init, Phases, Containers
    <2>3. session \in Steps /\ faults \in 0..MaxFaults
      BY BoundsAssumption DEF Init, Steps
    <2> QED BY <2>1, <2>2, <2>3 DEF Init, TypeOK
  <1> QED BY <1>2 DEF Init, IInv, ListenerIsReachable, UnlinkInv

\* Every host, session row, inbox and container is well typed: an inbox holds
\* an id once, and an answered message is in it (handleDeliver).
THEOREM TypeCorrect == Spec => []TypeOK
  <1>1. IInv => TypeOK
    BY DEF IInv
  <1> QED BY <1>1, IInvInit, IInvStep, PTL DEF Spec

\* Any number of hosts: unless a bind fell between another host's probe and
\* unlink or between the two unlinks of its shutdown, every listener is at the
\* path, so there is at most one (startPluginServer, stopPluginServer).
THEOREM ListenerIsReachableHolds == Spec => []ListenerIsReachable
  <1>1. IInv => ListenerIsReachable
    BY DEF IInv
  <1> QED BY <1>1, IInvInit, IInvStep, PTL DEF Spec

-----------------------------------------------------------------------------
(* The session.                                                            *)

\* Only a deliver changes the inbox, and it names its sender or is torn.
LEMMA LastSenderStep ==
  TypeOK /\ LastSenderIsNewest /\ [Next]_vars => LastSenderIsNewest'
  <1> SUFFICES ASSUME TypeOK, LastSenderIsNewest, [Next]_vars
               PROVE  LastSenderIsNewest'
    OBVIOUS
  <1>1. ASSUME NEW m \in Messages, Deliver(m) PROVE LastSenderIsNewest'
    <2>1. Last(inbox') = m
      BY <1>1, InboxGrows DEF Deliver, TypeOK
    <2> QED BY <1>1, <2>1 DEF Deliver, LastSenderIsNewest
  <1>2. ASSUME NEW m \in Messages, DeliverDies(m) PROVE LastSenderIsNewest'
    <2>1. Last(inbox') = m
      BY <1>2, InboxGrows DEF DeliverDies, TypeOK
    <2> QED BY <1>2, <2>1 DEF DeliverDies, LastSenderIsNewest
  <1>3. CASE UNCHANGED <<inbox, sender, torn>>
    BY <1>3 DEF LastSenderIsNewest
  <1>4. \/ UNCHANGED <<inbox, sender, torn>>
        \/ \E m \in Messages : Deliver(m) \/ DeliverDies(m)
    BY DEF Next, Startup, StartServer, Listens, InUse, Probe, RemoveStale, Secures,
           StopServer, Closed, HostDies, Spawned, Exits, Start, StartDies, Stop,
           Redeliver, vars, sessionVars
  <1> QED BY <1>1, <1>2, <1>3, <1>4

\* Any messages and senders: a reply goes to the sender of the newest row,
\* except after a crash between the row and the sender (handleDeliver).
THEOREM LastSenderIsNewestHolds == Spec => []LastSenderIsNewest
  <1>1. Init => LastSenderIsNewest
    BY DEF Init, LastSenderIsNewest
  <1>2. []TypeOK /\ [][Next]_vars /\ LastSenderIsNewest => []LastSenderIsNewest
    BY LastSenderStep, PTL
  <1> QED BY <1>1, <1>2, TypeCorrect, PTL DEF Spec

-----------------------------------------------------------------------------
(* The numbers of a session, whose output the plugin reads by its cursor.  *)

\* A table has a highest number (every insert is compared with the last one).
HasTop(S) == S # {} => \E m \in S : \A n \in S : n <= m

NumbersBounded == HasTop(inbound) /\ HasTop(outbound) /\ HasTop(coda)

\* The host numbers evenly, the container oddly, also what is not inserted yet.
NumbersParity ==
    /\ \A s \in inbound : s % 2 = 0
    /\ \A s \in outbound : s % 2 = 1
    /\ \A w \in Writers : pc[w] = "ready" => next[w] % 2 = 1

\* Without overlap one writer at most is busy, and what it has read or chosen
\* is still up to date; the cursor is the number of a row, or none yet.
WritersSerial ==
    /\ \A v, w \in Writers : pc[v] # "idle" /\ pc[w] # "idle" => v = w
    /\ \A w \in Writers : pc[w] = "reading" => \A s \in outbound : s <= seen[w]
    /\ \A w \in Writers : pc[w] = "ready" => \A s \in outbound : s < next[w]
    /\ NothingBehindCursor

CursorKnown == cursor = 0 \/ cursor \in outbound

NumbersInv ==
  /\ NumbersTypeOK /\ NumbersBounded /\ NumbersParity /\ CursorKnown
  /\ ~racing => WritersSerial

-----------------------------------------------------------------------------
\* The top of a table is a number, in the table unless it is empty, and no row
\* is above it.
LEMMA TopFacts ==
    ASSUME NEW S \in SUBSET Nat, HasTop(S)
    PROVE  /\ Top(S) \in Nat
           /\ \A n \in S : n <= Top(S)
           /\ S # {} => Top(S) \in S
<1>1. CASE S = {}
  BY <1>1 DEF Top
<1>2. CASE S # {}
  <2>1. PICK m \in S : \A n \in S : n <= m
    BY <1>2 DEF HasTop
  <2>2. Top(S) \in S /\ \A n \in S : n <= Top(S)
    BY <1>2, <2>1 DEF Top
  <2> QED BY <1>2, <2>2
<1> QED BY <1>1, <1>2

\* A table keeps a highest number when a row is added to it.
LEMMA TopKept ==
    ASSUME NEW S \in SUBSET Nat, HasTop(S), NEW k \in Nat
    PROVE  HasTop(S \cup {k})
<1>1. CASE S = {}
  BY <1>1 DEF HasTop
<1>2. CASE S # {}
  <2>1. PICK m \in S : \A n \in S : n <= m
    BY <1>2 DEF HasTop
  <2>2. CASE k <= m
    BY <2>1, <2>2 DEF HasTop
  <2>3. CASE ~(k <= m)
    <3>1. \A n \in S \cup {k} : n <= k
      BY <2>1, <2>3
    <3> QED BY <3>1 DEF HasTop
  <2> QED BY <2>2, <2>3
<1> QED BY <1>1, <1>2

\* The host's next number is even and new; the container's is odd and above
\* everything it looked at.
LEMMA NextFacts ==
    ASSUME NEW max \in Nat
    PROVE  /\ NextOddSeq(max) \in Nat /\ NextOddSeq(max) % 2 = 1
           /\ NextOddSeq(max) > max
           /\ NextEvenSeq(max) \in Nat /\ NextEvenSeq(max) % 2 = 0
  BY DEF NextOddSeq, NextEvenSeq

-----------------------------------------------------------------------------
\* An empty session is in order.
LEMMA NumbersStart == NumbersInit => NumbersInv
<1> SUFFICES ASSUME NumbersInit PROVE NumbersInv
  OBVIOUS
<1>1. NumbersTypeOK
  BY DEF NumbersInit, NumbersTypeOK
<1>2. NumbersBounded /\ NumbersParity /\ CursorKnown
  BY DEF NumbersInit, NumbersBounded, HasTop, NumbersParity, CursorKnown
<1>3. WritersSerial
  BY DEF NumbersInit, WritersSerial, NothingBehindCursor
<1> QED BY <1>1, <1>2, <1>3 DEF NumbersInv

\* Every insert, read, death and drain keeps it in order.
LEMMA NumbersStep == NumbersInv /\ [NumbersNext]_numberVars => NumbersInv'
<1> SUFFICES ASSUME NumbersInv, [NumbersNext]_numberVars PROVE NumbersInv'
  OBVIOUS
<1> USE DEF NumbersInv, writerVars
<1>in. inbound \in SUBSET Nat /\ outbound \in SUBSET Nat /\ coda \in SUBSET outbound
  BY DEF NumbersTypeOK
<1>tin. /\ Top(inbound) \in Nat
        /\ \A n \in inbound : n <= Top(inbound)
  BY <1>in, TopFacts DEF NumbersBounded
<1>tout. /\ Top(outbound) \in Nat
         /\ \A n \in outbound : n <= Top(outbound)
  BY <1>in, TopFacts DEF NumbersBounded
<1>1. CASE InsertMessage
  <2> DEFINE k == NextEvenSeq(Top(inbound))
  <2>1. k \in Nat /\ k % 2 = 0
    BY <1>tin, NextFacts
  <2> HIDE DEF k
  <2>2. /\ inbound' = inbound \cup {k}
        /\ UNCHANGED <<outbound, coda, writerVars, cursor, drained, racing>>
    BY <1>1 DEF InsertMessage, k
  <2>3. NumbersTypeOK'
    BY <2>1, <2>2 DEF NumbersTypeOK
  <2>4. NumbersBounded'
    BY <2>1, <2>2, <1>in, TopKept DEF NumbersBounded
  <2>5. NumbersParity'
    BY <2>1, <2>2 DEF NumbersParity
  <2>6. CursorKnown' /\ (~racing' => WritersSerial')
    BY <2>2 DEF CursorKnown, WritersSerial, NothingBehindCursor
  <2> QED BY <2>3, <2>4, <2>5, <2>6
<1>2. CASE \E w \in Writers : WriterStep(w)
  <2> PICK w \in Writers : WriterStep(w)
    BY <1>2
  <2>1. CASE ReadOutbound(w)
    <3> USE <2>1 DEF ReadOutbound
    <3>1. NumbersTypeOK'
      BY <1>tout DEF NumbersTypeOK
    <3>2. NumbersBounded' /\ CursorKnown'
      BY DEF NumbersBounded, CursorKnown
    <3>3. NumbersParity'
      BY DEF NumbersParity, NumbersTypeOK
    <3>4. ~racing' => WritersSerial'
      <4> SUFFICES ASSUME ~racing' PROVE WritersSerial'
        OBVIOUS
      <4>1. ~racing /\ \A v \in Writers \ {w} : pc[v] = "idle"
        OBVIOUS
      <4>2. WritersSerial
        BY <4>1
      <4>3. \A v \in Writers \ {w} : pc'[v] = "idle"
        BY <4>1 DEF NumbersTypeOK
      <4>4. pc'[w] = "reading" /\ seen'[w] = Top(outbound)
        BY DEF NumbersTypeOK
      <4> QED BY <4>2, <4>3, <4>4, <1>tout DEF WritersSerial, NothingBehindCursor
    <3> QED BY <3>1, <3>2, <3>3, <3>4
  <2>2. CASE ReadInbound(w)
    <3> DEFINE max == IF seen[w] > Top(inbound) THEN seen[w] ELSE Top(inbound)
    <3>1. max \in Nat /\ seen[w] \in Nat /\ seen[w] <= max
      BY <1>tin DEF NumbersTypeOK
    <3> DEFINE k == NextOddSeq(max)
    <3>2. k \in Nat /\ k % 2 = 1 /\ k > max
      BY <3>1, NextFacts
    <3>3. /\ pc[w] = "reading"
          /\ next' = [next EXCEPT ![w] = k]
          /\ pc' = [pc EXCEPT ![w] = "ready"]
          /\ UNCHANGED <<inbound, outbound, coda, seen, cursor, drained, racing>>
      BY <2>2 DEF ReadInbound
    <3> HIDE DEF k, max
    <3>4. NumbersTypeOK'
      BY <3>2, <3>3 DEF NumbersTypeOK
    <3>5. NumbersBounded' /\ CursorKnown'
      BY <3>3 DEF NumbersBounded, CursorKnown
    <3>6. NumbersParity'
      BY <3>2, <3>3 DEF NumbersParity, NumbersTypeOK
    <3>7. ~racing' => WritersSerial'
      <4> SUFFICES ASSUME ~racing PROVE WritersSerial'
        BY <3>3
      <4>1. WritersSerial
        OBVIOUS
      <4>2. \A v \in Writers \ {w} : pc'[v] = pc[v] /\ pc'[v] = "idle"
        BY <4>1, <3>3 DEF WritersSerial, NumbersTypeOK
      <4>3. pc'[w] = "ready" /\ next'[w] = k
        BY <3>3 DEF NumbersTypeOK
      <4>4. \A s \in outbound : s < k
        BY <4>1, <3>1, <3>2, <3>3, <1>in DEF WritersSerial
      <4> QED BY <4>1, <4>2, <4>3, <4>4, <3>3 DEF WritersSerial, NothingBehindCursor
    <3> QED BY <3>4, <3>5, <3>6, <3>7
  <2>3. CASE InsertThrows(w)
    <3> USE <2>3 DEF InsertThrows
    <3>1. NumbersTypeOK'
      BY DEF NumbersTypeOK
    <3>2. NumbersBounded' /\ CursorKnown' /\ NumbersParity'
      BY DEF NumbersBounded, CursorKnown, NumbersParity, NumbersTypeOK
    <3>3. ~racing' => WritersSerial'
      BY DEF WritersSerial, NumbersTypeOK, NothingBehindCursor
    <3> QED BY <3>1, <3>2, <3>3
  <2>4. CASE \E toCoda \in BOOLEAN : InsertRow(w, toCoda)
    <3> PICK toCoda \in BOOLEAN : InsertRow(w, toCoda)
      BY <2>4
    <3> USE DEF InsertRow
    <3>0. next[w] \in Nat
      BY DEF NumbersTypeOK
    <3>1. NumbersTypeOK'
      BY <3>0 DEF NumbersTypeOK
    <3>2. NumbersBounded' /\ CursorKnown'
      BY <3>0, <1>in, TopKept DEF NumbersBounded, CursorKnown
    <3>3. NumbersParity'
      BY DEF NumbersParity, NumbersTypeOK
    <3>4. ~racing' => WritersSerial'
      <4> SUFFICES ASSUME ~racing PROVE WritersSerial'
        OBVIOUS
      <4>1. WritersSerial
        OBVIOUS
      <4>2. \A v \in Writers : pc'[v] = "idle"
        BY <4>1 DEF WritersSerial, NumbersTypeOK
      <4>3. next[w] > cursor
        BY <4>1, <3>0 DEF WritersSerial, CursorKnown, NumbersParity, NumbersTypeOK
      <4>4. NothingBehindCursor'
        BY <4>1, <4>3, <3>0, <1>in DEF WritersSerial, NothingBehindCursor, NumbersTypeOK
      <4> QED BY <4>2, <4>4 DEF WritersSerial
    <3> QED BY <3>1, <3>2, <3>3, <3>4
  <2> QED BY <2>1, <2>2, <2>3, <2>4 DEF WriterStep
<1>3. CASE ContainerDies
  <2> USE <1>3 DEF ContainerDies
  <2>1. NumbersTypeOK'
    BY DEF NumbersTypeOK
  <2>2. NumbersBounded' /\ CursorKnown' /\ NumbersParity'
    BY DEF NumbersBounded, CursorKnown, NumbersParity
  <2>3. ~racing' => WritersSerial'
    BY DEF WritersSerial, NothingBehindCursor
  <2> QED BY <2>1, <2>2, <2>3
<1>4. CASE \E since \in {0, cursor} : Output(since)
  <2> PICK since \in {0, cursor} : Output(since)
    BY <1>4
  <2> DEFINE rows == {s \in coda : s > since}
  <2>1. /\ rows # {}
        /\ drained' = drained \cup rows
        /\ cursor' = Top(rows)
        /\ UNCHANGED <<inbound, outbound, coda, writerVars, racing>>
    BY DEF Output
  <2>2. rows \in SUBSET Nat /\ rows \in SUBSET coda
    BY <1>in
  <2>3. HasTop(rows)
    <3>1. PICK m \in coda : \A n \in coda : n <= m
      BY <2>1 DEF NumbersBounded, HasTop
    <3>2. since \in Nat /\ m \in Nat
      BY <1>in DEF NumbersTypeOK
    <3>3. PICK r \in coda : r > since
      BY <2>1
    <3>4. r \in Nat /\ r <= m
      BY <3>1, <3>3, <1>in
    <3>5. m \in rows
      BY <3>2, <3>3, <3>4
    <3> QED BY <3>1, <3>5 DEF HasTop
  <2>4. Top(rows) \in rows /\ \A n \in rows : n <= Top(rows)
    BY <2>1, <2>2, <2>3, TopFacts
  <2>5. NumbersTypeOK'
    BY <2>1, <2>2, <2>4 DEF NumbersTypeOK
  <2>6. NumbersBounded' /\ CursorKnown' /\ NumbersParity'
    BY <2>1, <2>2, <2>4, <1>in DEF NumbersBounded, CursorKnown, NumbersParity
  <2>7. ~racing' => WritersSerial'
    <3> SUFFICES ASSUME ~racing PROVE WritersSerial'
      BY <2>1
    <3>1. WritersSerial
      OBVIOUS
    <3>2. since \in Nat /\ since <= cursor
      BY DEF NumbersTypeOK
    <3>3. \A s \in coda : s \in drained'
      <4> SUFFICES ASSUME NEW s \in coda PROVE s \in drained'
        OBVIOUS
      <4>1. s \in Nat /\ cursor \in Nat
        BY <1>in DEF NumbersTypeOK
      <4>2. CASE s > since
        BY <2>1, <4>2
      <4>3. CASE ~(s > since)
        <5>1. s <= cursor
          BY <3>2, <4>1, <4>3
        <5>2. s \in drained
          BY <3>1, <5>1 DEF WritersSerial, NothingBehindCursor
        <5> QED BY <2>1, <5>2
      <4> QED BY <4>2, <4>3
    <3>4. NothingBehindCursor'
      BY <2>1, <3>3 DEF NothingBehindCursor
    <3> QED BY <2>1, <3>1, <3>4 DEF WritersSerial
  <2> QED BY <2>5, <2>6, <2>7
<1>5. CASE UNCHANGED numberVars
  BY <1>5 DEF numberVars, NumbersTypeOK, NumbersBounded, NumbersParity, CursorKnown,
              WritersSerial, NothingBehindCursor
<1> QED BY <1>1, <1>2, <1>3, <1>4, <1>5 DEF NumbersNext
-----------------------------------------------------------------------------
(* The theorems about the numbers.                                         *)

\* The invariant of the numbers holds in every behaviour.
THEOREM NumbersInvariance == NumbersSpec => []NumbersInv
<1>1. NumbersInit => NumbersInv
  BY NumbersStart
<1>2. NumbersInv /\ [NumbersNext]_numberVars => NumbersInv'
  BY NumbersStep
<1> QED BY <1>1, <1>2, PTL DEF NumbersSpec

\* Numbers are naturals, the plugin's rows are rows, and it was given some of them.
THEOREM NumbersTypeCorrect == NumbersSpec => []NumbersTypeOK
<1>1. NumbersInv => NumbersTypeOK
  BY DEF NumbersInv
<1> QED BY <1>1, NumbersInvariance, PTL

\* The two sides of a session never give the same number to two messages
\* (nextEvenSeq and writeMessageOut), however their reads interleave.
THEOREM NumbersNeverClashHolds == NumbersSpec => []NumbersNeverClash
<1>1. NumbersInv => NumbersNeverClash
  <2> SUFFICES ASSUME NumbersInv, NEW s \in inbound, s \in outbound PROVE FALSE
    BY DEF NumbersNeverClash
  <2>1. s % 2 = 0 /\ s % 2 = 1
    BY DEF NumbersInv, NumbersParity
  <2> QED BY <2>1
<1> QED BY <1>1, NumbersInvariance, PTL

\* While the container's writers take turns, the plugin's cursor loses no row.
THEOREM SerialWritesKeepTheCursorHolds == NumbersSpec => []SerialWritesKeepTheCursor
<1>1. NumbersInv => SerialWritesKeepTheCursor
  BY DEF NumbersInv, WritersSerial, SerialWritesKeepTheCursor
<1> QED BY <1>1, NumbersInvariance, PTL
=============================================================================
