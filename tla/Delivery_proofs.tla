-------------------------- MODULE Delivery_proofs --------------------------
(***************************************************************************)
(* Proofs about Delivery, for any sessions, rows, attempts and faults.     *)
(*                                                                         *)
(* The invariant says what the guard inflightDeliveries is worth: the rows *)
(* in a queue belong to one session, that session is in flight, and no     *)
(* other poll holds rows of it.  Everything a poll read before its awaits  *)
(* (its queue) is thereby still true after them.                           *)
(***************************************************************************)
EXTENDS Delivery, TLAPS

\* The rows of a queue are written, open, and of one session in flight.
QueueInv ==
    \A p \in Polls : \A r \in queue[p] :
        /\ r \in written
        /\ record[r] = "none"
        /\ Owner[r] \in inflight
        /\ \A n \in queue[p] : Owner[n] = Owner[r]

\* Two polls hold rows of different sessions.
ApartInv ==
    \A p, q \in Polls : p # q =>
        \A r \in queue[p], n \in queue[q] : Owner[r] # Owner[n]

\* A row that is not written has no outcome.
RecordInv == \A r \in Rows \ written : record[r] = "none"

\* The platform has taken a row and the poll has not heard of it yet.
Unheard(p, r) == pc[p] = "accepted" /\ Delivering(p, r)

\* Each fault accounts for one delivery whose answer was lost; one more is
\* heard of, or about to be.
SendsInv ==
    \A r \in Rows :
        /\ sends[r] <= faults + 1
        /\ record[r] = "none" /\ (\A p \in Polls : ~Unheard(p, r)) => sends[r] <= faults

IInv == TypeOK /\ QueueInv /\ ApartInv /\ RecordInv /\ SendsInv

-----------------------------------------------------------------------------
LEMMA InvInit == Init => IInv
  <1> SUFFICES ASSUME Init PROVE IInv
    OBVIOUS
  <1>1. TypeOK
    BY RowsAssumption, BoundsAssumption DEF Init, TypeOK
  <1>2. QueueInv /\ ApartInv /\ RecordInv
    BY DEF Init, QueueInv, ApartInv, RecordInv
  <1>3. SendsInv
    BY DEF Init, SendsInv
  <1> QED BY <1>1, <1>2, <1>3 DEF IInv

\* Nothing but a delivery touches the queues, records and sends: a step that
\* leaves them alone, and takes no row back, keeps the invariant.
LEMMA Untouched ==
    ASSUME IInv, TypeOK',
           UNCHANGED <<record, pc, queue, sends, inflight, faults>>,
           written \subseteq written'
    PROVE  IInv'
  <1>1. QueueInv'
    BY DEF IInv, QueueInv
  <1>2. ApartInv'
    BY DEF IInv, ApartInv
  <1>3. RecordInv'
    BY DEF IInv, RecordInv
  <1>4. SendsInv'
    BY DEF IInv, SendsInv, Unheard, Delivering
  <1> QED BY <1>1, <1>2, <1>3, <1>4 DEF IInv

-----------------------------------------------------------------------------
(* Type correctness, one step per action.                                  *)

LEMMA TypeStep == TypeOK /\ [Next]_vars => TypeOK'
  <1> SUFFICES ASSUME TypeOK, [Next]_vars PROVE TypeOK'
    OBVIOUS
  <1> USE RowsAssumption, OwnerAssumption, BoundsAssumption
  <1>1. ASSUME NEW r \in Rows, Write(r) PROVE TypeOK'
    BY <1>1 DEF TypeOK, Write, pollVars
  <1>2. ASSUME NEW s \in Sessions, ContainerStarts(s) \/ ContainerStops(s) \/ PluginStart(s)
        PROVE  TypeOK'
    BY <1>2 DEF TypeOK, ContainerStarts, ContainerStops, PluginStart, pollVars
  <1>3. CASE HostRestart
    BY <1>3 DEF TypeOK, HostRestart, Fault, dbVars
  <1>4. ASSUME NEW p \in Polls, PollStarts(p) \/ PollEnds(p) PROVE TypeOK'
    <2>1. CASE PollStarts(p)
      <3>1. (IF p = "active" THEN running ELSE Sessions) \in SUBSET Sessions
        BY DEF TypeOK
      <3>2. todo' \in [Polls -> SUBSET Sessions]
        BY <2>1, <3>1 DEF TypeOK, PollStarts
      <3> QED BY <2>1, <3>2 DEF TypeOK, PollStarts, dbVars
    <2>2. CASE PollEnds(p)
      BY <2>2 DEF TypeOK, PollEnds, dbVars
    <2> QED BY <1>4, <2>1, <2>2
  <1>5. ASSUME NEW p \in Polls, NEW s \in Sessions, Skip(p, s) PROVE TypeOK'
    BY <1>5 DEF TypeOK, Skip, dbVars
  <1>6. ASSUME NEW p \in Polls, NEW s \in Sessions, Drain(p, s) PROVE TypeOK'
    <2>1. Undelivered(p, s) \in SUBSET Rows
      BY DEF Undelivered, OwnedByHost
    <2> QED BY <1>6, <2>1 DEF TypeOK, Drain, dbVars
  <1>7. ASSUME NEW p \in Polls, NEW s \in Sessions, DrainFails(p, s) PROVE TypeOK'
    BY <1>7 DEF TypeOK, DrainFails, Fault, dbVars
  <1>8. ASSUME NEW p \in Polls, NEW r \in Rows, Accept(p, r) PROVE TypeOK'
    BY <1>8 DEF TypeOK, Accept, dbVars
  <1>9. ASSUME NEW p \in Polls, NEW r \in Rows, Returns(p, r) PROVE TypeOK'
    BY <1>9 DEF TypeOK, Returns, Advance
  <1>10. ASSUME NEW p \in Polls, NEW r \in Rows, Throws(p, r) PROVE TypeOK'
    <2>1. faults' \in 0..MaxFaults
      BY <1>10 DEF TypeOK, Throws, Fault
    <2>2. attempts' \in [Rows -> 0 .. MaxAttempts - 1]
      BY <1>10 DEF TypeOK, Throws, GivesUp
    <2>3. record' \in [Rows -> {"none", "delivered", "failed"}]
      BY <1>10 DEF TypeOK, Throws
    <2> QED BY <1>10, <2>1, <2>2, <2>3 DEF TypeOK, Throws, Advance
  <1>11. ASSUME NEW p \in Polls, NEW r \in Rows, Hangs(p, r) PROVE TypeOK'
    BY <1>11 DEF TypeOK, Hangs, Fault, dbVars
  <1>12. CASE UNCHANGED vars
    BY <1>12 DEF TypeOK, vars, dbVars, pollVars
  <1> QED
    BY <1>1, <1>2, <1>3, <1>4, <1>5, <1>6, <1>7, <1>8, <1>9, <1>10, <1>11, <1>12
    DEF Next, Environment, PollStep, PollFault

-----------------------------------------------------------------------------
(* The steps of a poll that the invariant is about.                        *)

\* A drain takes the open rows of a session no poll has in flight.
LEMMA DrainStep ==
    ASSUME IInv, TypeOK', NEW p \in Polls, NEW s \in Sessions, Drain(p, s)
    PROVE  IInv'
  <1> DEFINE new == Undelivered(p, s)
  <1>1. CASE new = {}
    BY <1>1, Untouched DEF Drain, dbVars
  <1>2. CASE new # {}
    <2>1. /\ queue' = [queue EXCEPT ![p] = new]
          /\ inflight' = inflight \cup {s}
          /\ pc' = [pc EXCEPT ![p] = "sending"]
          /\ s \notin inflight
          /\ UNCHANGED <<written, record, sends, faults>>
      BY <1>2 DEF Drain, dbVars
    <2>2. \A r \in new : r \in written /\ record[r] = "none" /\ Owner[r] = s
      BY DEF Undelivered, OwnedByHost
    <2> HIDE DEF new
    <2>3. QueueInv'
      BY <2>1, <2>2 DEF IInv, QueueInv, TypeOK
    <2>4. ApartInv'
      <3> SUFFICES ASSUME NEW a \in Polls, NEW b \in Polls, a # b,
                          NEW r \in queue'[a], NEW n \in queue'[b]
                   PROVE  Owner[r] # Owner[n]
        BY DEF ApartInv
      <3>1. CASE a = p
        BY <3>1, <2>1, <2>2 DEF IInv, QueueInv, TypeOK
      <3>2. CASE b = p
        BY <3>2, <2>1, <2>2 DEF IInv, QueueInv, TypeOK
      <3>3. CASE a # p /\ b # p
        BY <3>3, <2>1 DEF IInv, ApartInv, TypeOK
      <3> QED BY <3>1, <3>2, <3>3
    <2>5. RecordInv'
      BY <2>1 DEF IInv, RecordInv
    <2>6. SendsInv'
      <3>1. pc[p] = "next"
        BY DEF Drain
      <3>2. \A q \in Polls, r \in Rows : Unheard(q, r) => Unheard(q, r)'
        BY <3>1, <2>1 DEF IInv, TypeOK, Unheard, Delivering
      <3> QED BY <3>2, <2>1 DEF IInv, SendsInv
    <2> QED BY <2>3, <2>4, <2>5, <2>6 DEF IInv
  <1> QED BY <1>1, <1>2

\* A poll that leaves its row behind, with an outcome or for another attempt,
\* frees the session only together with the last row of its queue.
LEMMA AdvanceStep ==
    ASSUME IInv, TypeOK', NEW p \in Polls, NEW r \in Rows,
           Delivering(p, r), Advance(p, r),
           UNCHANGED <<written, sends>>,
           \A n \in Rows \ {r} : record'[n] = record[n],
           faults' >= faults,
           \/ record'[r] # "none"
           \/ pc[p] = "accepted" => faults' >= faults + 1
    PROVE  IInv'
  <1>1. /\ queue' = [queue EXCEPT ![p] = @ \ {r}]
        /\ queue' \in [Polls -> SUBSET Rows]
        /\ queue \in [Polls -> SUBSET Rows]
        /\ r \in queue[p]
    BY DEF Advance, IInv, TypeOK, Delivering
  <1>2. \A q \in Polls : queue'[q] = IF q = p THEN queue[p] \ {r} ELSE queue[q]
    BY <1>1
  <1>3. \A q \in Polls : r \notin queue'[q]
    BY <1>1, <1>2 DEF IInv, ApartInv
  <1>4. \A q \in Polls : \A n \in queue'[q] : Owner[n] \in inflight'
    <2> SUFFICES ASSUME NEW q \in Polls, NEW n \in queue'[q]
                 PROVE  Owner[n] \in inflight'
      OBVIOUS
    <2>1. n \in queue[q] /\ Owner[n] \in inflight
      BY <1>2 DEF IInv, QueueInv
    <2>2. CASE queue[p] # {r}
      BY <2>1, <2>2 DEF Advance
    <2>3. CASE queue[p] = {r}
      <3>1. q # p
        BY <1>2, <2>3
      <3>2. Owner[n] \notin Draining(p)
        BY <3>1, <2>1 DEF Draining, IInv, ApartInv
      <3> QED BY <2>1, <2>3, <3>2 DEF Advance
    <2> QED BY <2>2, <2>3
  <1>5. QueueInv'
    BY <1>1, <1>2, <1>3, <1>4 DEF IInv, QueueInv
  <1>6. ApartInv'
    BY <1>2 DEF IInv, ApartInv
  <1>7. RecordInv'
    BY <1>1 DEF IInv, RecordInv, QueueInv
  <1>8. SendsInv'
    <2> SUFFICES ASSUME NEW n \in Rows
                 PROVE  /\ sends[n] <= faults' + 1
                        /\ record'[n] = "none" /\ (\A q \in Polls : ~Unheard(q, n)')
                              => sends[n] <= faults'
      BY DEF SendsInv
    <2>1. sends[n] \in Nat /\ faults \in Nat /\ faults' \in Nat
      BY BoundsAssumption DEF IInv, TypeOK
    <2>2. sends[n] <= faults + 1
      BY DEF IInv, SendsInv
    <2>3. CASE n = r
      <3>1. \A q \in Polls : q # p => ~Unheard(q, r)
        BY <1>1 DEF Unheard, Delivering, IInv, ApartInv
      <3>2. Unheard(p, r) <=> pc[p] = "accepted"
        BY DEF Unheard
      <3>3. record[r] = "none"
        BY <1>1 DEF IInv, QueueInv
      <3>4. pc[p] # "accepted" => sends[r] <= faults
        BY <3>1, <3>2, <3>3 DEF IInv, SendsInv
      <3> QED BY <2>1, <2>2, <2>3, <3>4
    <2>4. CASE n # r
      <3>1. \A q \in Polls : Unheard(q, n) => Unheard(q, n)'
        <4> SUFFICES ASSUME NEW q \in Polls, Unheard(q, n) PROVE Unheard(q, n)'
          OBVIOUS
        <4>1. CASE q = p
          BY <4>1, <2>4, RowsAssumption, <1>1 DEF Unheard, Delivering
        <4>2. CASE q # p
          BY <4>2, <1>2 DEF Unheard, Delivering, Advance, IInv, TypeOK
        <4> QED BY <4>1, <4>2
      <3> QED BY <2>1, <2>2, <2>4, <3>1 DEF IInv, SendsInv
    <2> QED BY <2>3, <2>4
  <1> QED BY <1>5, <1>6, <1>7, <1>8 DEF IInv

-----------------------------------------------------------------------------
\* A poll between two drains, or hanging in one, has heard of what it sent: the
\* queues, the outcomes and the sends stay, and no row becomes unheard of.
LEMMA QuietStep ==
    ASSUME IInv, TypeOK',
           UNCHANGED <<written, record, inflight, queue, sends>>,
           faults' >= faults,
           \A q \in Polls : pc[q] = "accepted" => pc'[q] = "accepted"
    PROVE  IInv'
  <1>1. QueueInv' /\ ApartInv' /\ RecordInv'
    BY DEF IInv, QueueInv, ApartInv, RecordInv
  <1>2. \A q \in Polls, r \in Rows : Unheard(q, r) => Unheard(q, r)'
    BY DEF Unheard, Delivering
  <1>3. SendsInv'
    <2>1. /\ sends \in [Rows -> Nat]
          /\ faults \in Nat /\ faults' \in Nat
      BY BoundsAssumption DEF IInv, TypeOK
    <2> QED BY <1>2, <2>1 DEF IInv, SendsInv
  <1> QED BY <1>1, <1>3 DEF IInv

\* The platform takes a row nobody else is delivering.
LEMMA AcceptStep ==
    ASSUME IInv, TypeOK', NEW p \in Polls, NEW r \in Rows, Accept(p, r)
    PROVE  IInv'
  <1>1. QueueInv' /\ ApartInv' /\ RecordInv'
    BY DEF Accept, dbVars, IInv, QueueInv, ApartInv, RecordInv
  <1>2. /\ pc[p] = "sending" /\ pc' = [pc EXCEPT ![p] = "accepted"]
        /\ Delivering(p, r) /\ r \in queue[p]
        /\ sends' = [sends EXCEPT ![r] = @ + 1]
        /\ UNCHANGED <<record, queue, faults>>
    BY DEF Accept, Delivering, dbVars
  <1>3. \A q \in Polls, n \in Rows : Unheard(q, n) => Unheard(q, n)'
    BY <1>2 DEF Unheard, Delivering, IInv, TypeOK
  <1>4. Unheard(p, r)'
    BY <1>2 DEF Unheard, Delivering, IInv, TypeOK
  <1>5. sends[r] <= faults
    <2>1. \A q \in Polls : ~Unheard(q, r)
      BY <1>2 DEF Unheard, Delivering, IInv, ApartInv
    <2> QED BY <1>2, <2>1 DEF IInv, SendsInv, QueueInv
  <1>6. SendsInv'
    <2>1. /\ sends \in [Rows -> Nat]
          /\ faults \in Nat
      BY BoundsAssumption DEF IInv, TypeOK
    <2> QED BY <1>2, <1>3, <1>4, <1>5, <2>1 DEF IInv, SendsInv
  <1> QED BY <1>1, <1>6 DEF IInv

\* A restart empties the queues and counts as a fault for every row under way.
LEMMA RestartStep ==
    ASSUME IInv, TypeOK', HostRestart
    PROVE  IInv'
  <1>1. QueueInv' /\ ApartInv' /\ RecordInv'
    BY DEF HostRestart, dbVars, IInv, QueueInv, ApartInv, RecordInv
  <1>2. SendsInv'
    <2>1. /\ sends \in [Rows -> Nat] /\ sends' = sends
          /\ faults \in Nat /\ faults' = faults + 1
      BY BoundsAssumption DEF IInv, TypeOK, HostRestart, Fault
    <2> QED BY <2>1 DEF IInv, SendsInv
  <1> QED BY <1>1, <1>2 DEF IInv

LEMMA InvStep == IInv /\ [Next]_vars => IInv'
  <1> SUFFICES ASSUME IInv, [Next]_vars PROVE IInv'
    OBVIOUS
  <1>0. TypeOK' /\ faults \in Nat
    BY TypeStep, BoundsAssumption DEF IInv, TypeOK
  <1>1. ASSUME NEW r \in Rows, Write(r) PROVE IInv'
    BY <1>0, <1>1, Untouched DEF Write, pollVars
  <1>2. ASSUME NEW s \in Sessions, ContainerStarts(s) \/ ContainerStops(s) \/ PluginStart(s)
        PROVE  IInv'
    BY <1>0, <1>2, Untouched DEF ContainerStarts, ContainerStops, PluginStart, pollVars
  <1>3. CASE HostRestart
    BY <1>0, <1>3, RestartStep
  <1>4. ASSUME NEW p \in Polls, PollStarts(p) \/ PollEnds(p) PROVE IInv'
    <2>1. \A q \in Polls : pc[q] = "accepted" => pc'[q] = "accepted"
      BY <1>4 DEF IInv, TypeOK, PollStarts, PollEnds
    <2> QED BY <1>0, <1>4, <2>1, QuietStep DEF PollStarts, PollEnds, dbVars
  <1>5. ASSUME NEW p \in Polls, NEW s \in Sessions, Skip(p, s) PROVE IInv'
    BY <1>0, <1>5, Untouched DEF Skip, dbVars
  <1>6. ASSUME NEW p \in Polls, NEW s \in Sessions, Drain(p, s) PROVE IInv'
    BY <1>0, <1>6, DrainStep
  <1>7. ASSUME NEW p \in Polls, NEW s \in Sessions, DrainFails(p, s) PROVE IInv'
    <2>1. \A q \in Polls : pc[q] = "accepted" => pc'[q] = "accepted"
      BY <1>7 DEF IInv, TypeOK, DrainFails
    <2> QED BY <1>0, <1>7, <2>1, QuietStep DEF DrainFails, Fault, dbVars
  <1>8. ASSUME NEW p \in Polls, NEW r \in Rows, Accept(p, r) PROVE IInv'
    BY <1>0, <1>8, AcceptStep
  <1>9. ASSUME NEW p \in Polls, NEW r \in Rows, Returns(p, r) PROVE IInv'
    <2>1. /\ record'[r] # "none"
          /\ \A n \in Rows \ {r} : record'[n] = record[n]
      BY <1>9 DEF Returns, IInv, TypeOK
    <2> QED BY <1>0, <1>9, <2>1, AdvanceStep DEF Returns
  <1>10. ASSUME NEW p \in Polls, NEW r \in Rows, Throws(p, r) PROVE IInv'
    <2>1. \A n \in Rows \ {r} : record'[n] = record[n]
      BY <1>10 DEF Throws, IInv, TypeOK
    <2>2. /\ faults' >= faults
          /\ pc[p] = "accepted" => faults' >= faults + 1
      BY <1>0, <1>10 DEF Throws, Fault
    <2> QED BY <1>0, <1>10, <2>1, <2>2, AdvanceStep DEF Throws
  <1>11. ASSUME NEW p \in Polls, NEW r \in Rows, Hangs(p, r) PROVE IInv'
    <2>1. \A q \in Polls : pc[q] = "accepted" => pc'[q] = "accepted"
      BY <1>11 DEF IInv, TypeOK, Hangs
    <2> QED BY <1>0, <1>11, <2>1, QuietStep DEF Hangs, Fault, dbVars
  <1>12. CASE UNCHANGED vars
    BY <1>0, <1>12, Untouched DEF vars, dbVars, pollVars
  <1> QED
    BY <1>1, <1>2, <1>3, <1>4, <1>5, <1>6, <1>7, <1>8, <1>9, <1>10, <1>11, <1>12
    DEF Next, Environment, PollStep, PollFault

\* The invariant holds in every reachable state.
THEOREM Invariance == Spec => []IInv
  <1> QED BY InvInit, InvStep, PTL DEF Spec

\* Type correctness: an attempt counter never reaches MAX_DELIVERY_ATTEMPTS.
THEOREM TypeCorrect == Spec => []TypeOK
  <1>1. IInv => TypeOK
    BY DEF IInv
  <1> QED BY <1>1, Invariance, PTL

\* The two polls never drain the same session at once (inflightDeliveries).
THEOREM OneDrainPerSessionHolds == Spec => []OneDrainPerSession
  <1>1. IInv => OneDrainPerSession
    BY DEF IInv, ApartInv, OneDrainPerSession, Draining
  <1> QED BY <1>1, Invariance, PTL

\* The rows a drain read before its awaits have no outcome when it gets to them.
THEOREM QueuedRowsAreOpenHolds == Spec => []QueuedRowsAreOpen
  <1>1. IInv => QueuedRowsAreOpen
    BY DEF IInv, QueueInv, QueuedRowsAreOpen
  <1> QED BY <1>1, Invariance, PTL

\* The platform takes a row at most once more than there were faults.
THEOREM DuplicatesOnlyByFaultHolds == Spec => []DuplicatesOnlyByFault
  <1>1. IInv => DuplicatesOnlyByFault
    BY BoundsAssumption DEF IInv, TypeOK, SendsInv, DuplicatesOnlyByFault
  <1> QED BY <1>1, Invariance, PTL

-----------------------------------------------------------------------------
(* The outbox contract.                                                    *)

\* A step that leaves outcomes and sends alone is a stutter of the contract.
LEMMA Stutter ==
    ASSUME UNCHANGED <<written, record, sends>>
    PROVE  UNCHANGED Contract!vars
  BY DEF outcome, Contract!vars

LEMMA ContractStep == IInv /\ IInv' /\ [Next]_vars => [Contract!Next]_Contract!vars
  <1> SUFFICES ASSUME IInv, IInv', [Next]_vars PROVE [Contract!Next]_Contract!vars
    OBVIOUS
  <1>1. ASSUME NEW r \in Rows, Write(r) PROVE Contract!Write(r)
    <2>1. outcome[r] = "unwritten"
      BY <1>1 DEF outcome, Write
    <2>2. outcome' = [outcome EXCEPT ![r] = "none"]
      <3>1. record[r] = "none" /\ record' = record /\ written' = written \cup {r}
        BY <1>1 DEF Write, IInv, RecordInv
      <3> QED BY <3>1 DEF outcome
    <2> QED BY <1>1, <2>1, <2>2 DEF Write, Contract!Write
  <1>2. ASSUME NEW p \in Polls, NEW r \in Rows, Accept(p, r) PROVE Contract!Send(r)
    <2>1. outcome[r] = "none"
      BY <1>2 DEF outcome, Accept, Delivering, IInv, QueueInv
    <2>2. outcome' = outcome
      BY <1>2 DEF outcome, Accept, dbVars
    <2> QED BY <1>2, <2>1, <2>2 DEF Accept, Contract!Send
  <1>3. ASSUME NEW p \in Polls, NEW r \in Rows, Delivering(p, r),
               NEW o \in {"delivered", "failed"},
               record' = [record EXCEPT ![r] = o], UNCHANGED <<written, sends>>
        PROVE  Contract!Settle(r)
    <2>1. r \in written /\ record[r] = "none" /\ record \in [Rows -> {"none", "delivered", "failed"}]
      BY <1>3 DEF Delivering, IInv, QueueInv, TypeOK
    <2>2. outcome[r] = "none" /\ outcome' = [outcome EXCEPT ![r] = o]
      BY <1>3, <2>1 DEF outcome
    <2> QED BY <1>3, <2>2 DEF Contract!Settle
  <1>4. ASSUME NEW p \in Polls, NEW r \in Rows, Returns(p, r) PROVE Contract!Settle(r)
    BY <1>3, <1>4 DEF Returns
  <1>5. ASSUME NEW p \in Polls, NEW r \in Rows, Throws(p, r)
        PROVE  Contract!Settle(r) \/ UNCHANGED Contract!vars
    <2>1. CASE GivesUp(r)
      BY <1>3, <1>5, <2>1 DEF Throws
    <2>2. CASE ~GivesUp(r)
      BY <1>5, <2>2, Stutter DEF Throws
    <2> QED BY <2>1, <2>2
  <1>6. ASSUME NEW s \in Sessions, ContainerStarts(s) \/ ContainerStops(s) \/ PluginStart(s)
        PROVE  UNCHANGED Contract!vars
    BY <1>6, Stutter DEF ContainerStarts, ContainerStops, PluginStart
  <1>7. CASE HostRestart
    BY <1>7, Stutter DEF HostRestart, dbVars
  <1>8. ASSUME NEW p \in Polls, PollStarts(p) \/ PollEnds(p) PROVE UNCHANGED Contract!vars
    BY <1>8, Stutter DEF PollStarts, PollEnds, dbVars
  <1>9. ASSUME NEW p \in Polls, NEW s \in Sessions, Skip(p, s) \/ Drain(p, s) \/ DrainFails(p, s)
        PROVE  UNCHANGED Contract!vars
    BY <1>9, Stutter DEF Skip, Drain, DrainFails, dbVars
  <1>10. ASSUME NEW p \in Polls, NEW r \in Rows, Hangs(p, r) PROVE UNCHANGED Contract!vars
    BY <1>10, Stutter DEF Hangs, dbVars
  <1>11. CASE UNCHANGED vars
    BY <1>11, Stutter DEF vars, dbVars
  <1> QED
    BY <1>1, <1>2, <1>4, <1>5, <1>6, <1>7, <1>8, <1>9, <1>10, <1>11
    DEF Next, Environment, PollStep, PollFault, Contract!Next

\* Delivery implements OutboxContract: an outcome is final, and a row with one
\* is never handed to the platform again.
THEOREM Implementation == Spec => ImplementsOutbox
  <1>1. Init => Contract!Init
    BY DEF Init, outcome, Contract!Init
  <1> QED BY <1>1, ContractStep, Invariance, PTL DEF Spec, ImplementsOutbox, Contract!Spec

-----------------------------------------------------------------------------
(* Cursor ownership.                                                       *)

\* A poll that read the session of r before the plugin claimed it and still has
\* an attempt at r ahead of it.
Risk(p, r) ==
    /\ pc[p] # "waiting"
    /\ Owner[r] \notin stale[p]
    /\ r \in queue[p] \/ Owner[r] \in todo[p]

RiskCount(r) == (IF Risk("active", r) THEN 1 ELSE 0) + (IF Risk("sweep", r) THEN 1 ELSE 0)

\* A coda row has no outcome, belongs to a managed session once written, and the
\* attempts it has cost and may still cost are two.
Spared(r) ==
    /\ record[r] = "none"
    /\ r \in written => Owner[r] \in managed
    /\ r \notin written => attempts[r] = 0
    /\ attempts[r] + RiskCount(r) <= 2

\* A coda row in a queue is one the poll read too early, and never one the
\* platform has taken.
HeldInError(p, r) ==
    r \in queue[p] =>
        /\ pc[p] \in {"sending", "accepted", "hung"}
        /\ Owner[r] \notin todo[p] \cup stale[p]
        /\ Delivering(p, r) => pc[p] # "accepted"

CodaInv == \A r \in CodaRows : Spared(r) /\ \A p \in Polls : HeldInError(p, r)

LEMMA RiskFalls ==
    ASSUME NEW r, \A p \in Polls : Risk(p, r)' => Risk(p, r)
    PROVE  RiskCount(r)' <= RiskCount(r)
  <1>1. (Risk("active", r)' => Risk("active", r)) /\ (Risk("sweep", r)' => Risk("sweep", r))
    BY DEF Polls
  <1> QED BY <1>1 DEF RiskCount

\* The poll that has tried a row has one attempt less ahead of it.
LEMMA RiskSpent ==
    ASSUME NEW r, NEW p \in Polls, Risk(p, r), ~Risk(p, r)',
           \A q \in Polls : Risk(q, r)' => Risk(q, r)
    PROVE  RiskCount(r)' + 1 <= RiskCount(r)
  <1>1. (Risk("active", r)' => Risk("active", r)) /\ (Risk("sweep", r)' => Risk("sweep", r))
    BY DEF Polls
  <1>2. p = "active" \/ p = "sweep"
    BY DEF Polls
  <1> QED BY <1>1, <1>2 DEF RiskCount

LEMMA RiskBound == \A r : RiskCount(r) \in 0..2 /\ RiskCount(r)' \in 0..2
  BY DEF RiskCount

LEMMA CodaInit == Init => CodaInv
  <1> SUFFICES ASSUME Init, NEW r \in CodaRows
               PROVE  Spared(r) /\ \A p \in Polls : HeldInError(p, r)
    BY DEF CodaInv
  <1>1. r \in Rows
    BY RowsAssumption
  <1>2. Spared(r)
    BY <1>1, RiskBound DEF Init, Spared
  <1>3. \A p \in Polls : HeldInError(p, r)
    BY DEF Init, HeldInError
  <1> QED BY <1>2, <1>3

\* A step that lets no poll come to r that would not have before, and neither
\* tries it nor settles it.
LEMMA LetAlone ==
    ASSUME IInv, NEW r \in CodaRows, Spared(r),
           record'[r] = record[r], attempts'[r] = attempts[r],
           r \in written' => Owner[r] \in managed',
           written \subseteq written',
           \A p \in Polls : Risk(p, r)' => Risk(p, r)
    PROVE  Spared(r)'
  <1>1. attempts[r] \in Nat
    BY RowsAssumption DEF IInv, TypeOK
  <1>2. RiskCount(r) \in Nat /\ RiskCount(r)' \in Nat /\ RiskCount(r)' <= RiskCount(r)
    BY RiskFalls, RiskBound
  <1> QED BY <1>1, <1>2 DEF Spared

\* A step that leaves the polls alone keeps what CodaInv says about them.
LEMMA PollsAlone ==
    ASSUME NEW r, UNCHANGED <<pc, todo, stale, queue>>
    PROVE  \A p \in Polls : (Risk(p, r)' <=> Risk(p, r)) /\ (HeldInError(p, r)' <=> HeldInError(p, r))
  BY DEF Risk, HeldInError, Delivering

\* The poll that leaves its row behind.
LEMMA LeaveStep ==
    ASSUME IInv, NEW p \in Polls, NEW n \in Rows, Delivering(p, n), Advance(p, n),
           UNCHANGED <<todo, stale>>, NEW r \in CodaRows,
           \A q \in Polls : HeldInError(q, r)
    PROVE  /\ \A q \in Polls : HeldInError(q, r)'
           /\ \A q \in Polls : Risk(q, r)' => Risk(q, r)
           /\ r = n => Risk(p, r) /\ ~Risk(p, r)'
  <1>1. /\ queue' = [queue EXCEPT ![p] = @ \ {n}]
        /\ queue \in [Polls -> SUBSET Rows]
        /\ pc \in [Polls -> {"waiting", "next", "sending", "accepted", "hung"}]
        /\ n \in queue[p] /\ pc[p] \in {"sending", "accepted"}
        /\ \/ queue[p] = {n} /\ pc' = [pc EXCEPT ![p] = "next"]
           \/ queue[p] # {n} /\ pc' = [pc EXCEPT ![p] = "sending"]
    BY DEF Advance, IInv, TypeOK, Delivering
  <1>2. \A q \in Polls : HeldInError(q, r)'
    <2> SUFFICES ASSUME NEW q \in Polls PROVE HeldInError(q, r)'
      OBVIOUS
    <2>1. CASE q = p
      BY <1>1, <2>1 DEF HeldInError
    <2>2. CASE q # p
      BY <1>1, <2>2 DEF HeldInError, Delivering
    <2> QED BY <2>1, <2>2
  <1>3. \A q \in Polls : Risk(q, r)' => Risk(q, r)
    BY <1>1 DEF Risk
  <1>4. r = n => Risk(p, r) /\ ~Risk(p, r)'
    BY <1>1 DEF Risk, HeldInError
  <1> QED BY <1>2, <1>3, <1>4

\* With at least three attempts the two that a coda row may cost are survived.
LEMMA CodaStep ==
    ASSUME MaxAttempts >= 3, IInv, CodaInv, [Next]_vars
    PROVE  CodaInv'
  <1> SUFFICES ASSUME NEW r \in CodaRows
               PROVE  Spared(r)' /\ \A p \in Polls : HeldInError(p, r)'
    BY DEF CodaInv
  <1>0. /\ Spared(r)
        /\ \A p \in Polls : HeldInError(p, r)
        /\ r \in Rows /\ attempts[r] \in Nat /\ attempts \in [Rows -> Nat]
        /\ pc \in [Polls -> {"waiting", "next", "sending", "accepted", "hung"}]
        /\ todo \in [Polls -> SUBSET Sessions] /\ stale \in [Polls -> SUBSET Sessions]
        /\ queue \in [Polls -> SUBSET Rows]
    BY RowsAssumption DEF CodaInv, IInv, TypeOK
  <1> DEFINE Goal == Spared(r)' /\ \A p \in Polls : HeldInError(p, r)'
  <1>1. ASSUME NEW n \in Rows, Write(n) PROVE Goal
    <2>1. r \in written' => Owner[r] \in managed'
      BY <1>0, <1>1 DEF Write, Spared
    <2> QED BY <1>0, <1>1, <2>1, LetAlone, PollsAlone DEF Write, pollVars
  <1>2. ASSUME NEW s \in Sessions, ContainerStarts(s) \/ ContainerStops(s) \/ PluginStart(s)
        PROVE  Goal
    <2>1. r \in written' => Owner[r] \in managed'
      BY <1>0, <1>2 DEF ContainerStarts, ContainerStops, PluginStart, Spared
    <2> QED BY <1>0, <1>2, <2>1, LetAlone, PollsAlone
            DEF ContainerStarts, ContainerStops, PluginStart, pollVars
  <1>3. CASE HostRestart
    <2>1. /\ attempts'[r] = 0 /\ UNCHANGED <<record, written, managed>>
          /\ \A p \in Polls : pc'[p] = "waiting" /\ queue'[p] = {}
      BY <1>0, <1>3 DEF HostRestart, dbVars
    <2> QED BY <1>0, <2>1, RiskBound DEF Spared, HeldInError
  <1>4. ASSUME NEW p \in Polls, PollStarts(p) PROVE Goal
    <2>1. /\ pc[p] = "waiting" /\ pc' = [pc EXCEPT ![p] = "next"]
          /\ stale' = [stale EXCEPT ![p] = managed]
          /\ \A q \in Polls : q # p => todo'[q] = todo[q]
          /\ UNCHANGED <<written, record, managed, attempts, queue>>
      BY <1>0, <1>4 DEF PollStarts, dbVars
    <2>2. \A q \in Polls : HeldInError(q, r)'
      BY <1>0, <2>1 DEF HeldInError, Delivering
    <2>3. CASE r \in written
      <3>1. \A q \in Polls : Risk(q, r)' => Risk(q, r)
        BY <1>0, <2>1, <2>3 DEF Risk, Spared
      <3> QED BY <1>0, <2>1, <2>2, <3>1, LetAlone DEF Spared
    <2>4. CASE r \notin written
      BY <1>0, <2>1, <2>2, <2>4, RiskBound DEF Spared
    <2> QED BY <2>3, <2>4
  <1>5. ASSUME NEW p \in Polls, NEW s \in Sessions,
               PollEnds(p) \/ Skip(p, s) \/ DrainFails(p, s)
        PROVE  Goal
    <2>1. /\ UNCHANGED <<written, record, managed, attempts, queue>>
          /\ pc[p] = "next"
          /\ \A q \in Polls :
                /\ q # p => pc'[q] = pc[q] /\ todo'[q] = todo[q] /\ stale'[q] = stale[q]
                /\ q = p => \/ pc'[q] = "waiting"
                            \/ pc'[q] = pc[q] /\ todo'[q] \subseteq todo[q] /\ stale'[q] = stale[q]
      BY <1>0, <1>5 DEF PollEnds, Skip, DrainFails, dbVars
    <2>2. \A q \in Polls : HeldInError(q, r)'
      BY <1>0, <2>1 DEF HeldInError, Delivering
    <2>3. \A q \in Polls : Risk(q, r)' => Risk(q, r)
      BY <1>0, <2>1 DEF Risk
    <2> QED BY <1>0, <2>1, <2>2, <2>3, LetAlone DEF Spared
  <1>6. ASSUME NEW p \in Polls, NEW s \in Sessions, Drain(p, s) PROVE Goal
    <2>1. /\ UNCHANGED <<written, record, managed, attempts, stale>>
          /\ pc[p] = "next" /\ s \in todo[p]
          /\ todo' = [todo EXCEPT ![p] = @ \ {s}]
      BY <1>6 DEF Drain, dbVars
    <2>2. \/ UNCHANGED <<pc, queue>>
          \/ /\ pc' = [pc EXCEPT ![p] = "sending"]
             /\ queue' = [queue EXCEPT ![p] = Undelivered(p, s)]
      BY <1>6 DEF Drain
    <2>3. r \in Undelivered(p, s) => Owner[r] = s /\ s \notin stale[p]
      BY DEF Undelivered, OwnedByHost
    <2>4. \A q \in Polls : HeldInError(q, r)'
      <3> SUFFICES ASSUME NEW q \in Polls PROVE HeldInError(q, r)'
        OBVIOUS
      <3>1. CASE q = p
        BY <1>0, <2>1, <2>2, <2>3, <3>1 DEF HeldInError
      <3>2. CASE q # p
        BY <1>0, <2>1, <2>2, <3>2 DEF HeldInError, Delivering
      <3> QED BY <3>1, <3>2
    <2>5. \A q \in Polls : Risk(q, r)' => Risk(q, r)
      BY <1>0, <2>1, <2>2, <2>3 DEF Risk
    <2> QED BY <1>0, <2>1, <2>4, <2>5, LetAlone DEF Spared
  <1>7. ASSUME NEW p \in Polls, NEW n \in Rows, Accept(p, n) \/ Hangs(p, n) PROVE Goal
    <2>1. /\ UNCHANGED <<written, record, managed, attempts, todo, stale, queue>>
          /\ pc[p] = "sending" /\ Delivering(p, n) /\ n # r
          /\ \E new \in {"accepted", "hung"} : pc' = [pc EXCEPT ![p] = new]
      BY <1>7 DEF Accept, Hangs, dbVars
    <2>2. \A q \in Polls : HeldInError(q, r)'
      <3> SUFFICES ASSUME NEW q \in Polls PROVE HeldInError(q, r)'
        OBVIOUS
      <3>1. CASE q = p
        BY <1>0, <2>1, <3>1, RowsAssumption DEF HeldInError, Delivering
      <3>2. CASE q # p
        BY <1>0, <2>1, <3>2 DEF HeldInError, Delivering
      <3> QED BY <3>1, <3>2
    <2>3. \A q \in Polls : Risk(q, r)' => Risk(q, r)
      BY <1>0, <2>1 DEF Risk
    <2> QED BY <1>0, <2>1, <2>2, <2>3, LetAlone DEF Spared
  <1>8. ASSUME NEW p \in Polls, NEW n \in Rows, Returns(p, n) PROVE Goal
    <2>1. n # r
      BY <1>0, <1>8 DEF Returns, Delivering, HeldInError
    <2>2. record'[r] = record[r] /\ attempts'[r] = attempts[r] /\ UNCHANGED <<written, managed>>
      BY <1>0, <1>8, <2>1 DEF Returns, IInv, TypeOK
    <2>3. \A q \in Polls : HeldInError(q, r)' /\ (Risk(q, r)' => Risk(q, r))
      BY <1>0, <1>8, LeaveStep DEF Returns
    <2> QED BY <1>0, <2>2, <2>3, LetAlone DEF Spared
  <1>9. ASSUME NEW p \in Polls, NEW n \in Rows, Throws(p, n) PROVE Goal
    <2>1. /\ \A q \in Polls : HeldInError(q, r)' /\ (Risk(q, r)' => Risk(q, r))
          /\ r = n => Risk(p, r) /\ ~Risk(p, r)'
      BY <1>0, <1>9, LeaveStep DEF Throws
    <2>2. UNCHANGED <<written, managed>>
      BY <1>9 DEF Throws
    <2>3. CASE n # r
      <3>1. record'[r] = record[r] /\ attempts'[r] = attempts[r]
        BY <1>0, <1>9, <2>3 DEF Throws, IInv, TypeOK
      <3> QED BY <1>0, <2>1, <2>2, <3>1, LetAlone DEF Spared
    <2>4. CASE n = r
      <3>1. RiskCount(r)' + 1 <= RiskCount(r) /\ RiskCount(r) \in 0..2 /\ RiskCount(r)' \in 0..2
        BY <2>1, <2>4, RiskSpent, RiskBound
      <3>2. attempts[r] <= 1 /\ attempts[r] + 1 + RiskCount(r)' <= 2
        BY <1>0, <3>1 DEF Spared
      <3>3. ~GivesUp(r)
        BY <1>0, <3>2, BoundsAssumption DEF GivesUp
      <3>4. record' = record /\ attempts'[r] = attempts[r] + 1
        BY <1>0, <1>9, <2>4, <3>3 DEF Throws
      <3>5. r \in written
        BY <1>9, <2>4 DEF Throws, Delivering, IInv, QueueInv
      <3> QED BY <1>0, <2>1, <2>2, <3>2, <3>4, <3>5 DEF Spared
    <2> QED BY <2>3, <2>4
  <1>10. CASE UNCHANGED vars
    BY <1>0, <1>10, LetAlone, PollsAlone DEF vars, dbVars, pollVars, Spared
  <1>11. \A p \in Polls : PollEnds(p) => Goal
    <2>1. CASE Sessions = {}
      BY <1>0, <2>1, OwnerAssumption
    <2>2. CASE Sessions # {}
      BY <1>5, <2>2
    <2> QED BY <2>1, <2>2
  <1> QED
    BY <1>1, <1>2, <1>3, <1>4, <1>5, <1>6, <1>7, <1>8, <1>9, <1>10, <1>11
    DEF Next, Environment, PollStep, PollFault

\* The host settles no coda row, as long as a row has three attempts or more
\* (applyCursorOwnershipFilter; the code gives it exactly three).
THEOREM CodaRowsStayWithPluginHolds ==
    ASSUME MaxAttempts >= 3
    PROVE  Spec => []CodaRowsStayWithPlugin
  <1>1. CodaInv => CodaRowsStayWithPlugin
    BY DEF CodaInv, Spared, CodaRowsStayWithPlugin
  <1>2. IInv /\ CodaInv /\ [Next]_vars => CodaInv'
    BY CodaStep
  <1> QED BY <1>1, <1>2, CodaInit, Invariance, PTL DEF Spec

=============================================================================
