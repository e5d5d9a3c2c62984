---------------------------- MODULE Agents_proofs ----------------------------
(***************************************************************************)
(* Proofs about Agents, for any names, chats, agent groups, rows, attempts *)
(* and faults.                                                             *)
(*                                                                         *)
(* Destinations are never taken back, an agent that writes has its files,  *)
(* and a session knows no destination its agent does not have: what a      *)
(* container may have looked up the host allows.  An answer goes to an     *)
(* agent that was allowed to write; it is refused only where the way back  *)
(* is missing, and then it is missing for good.                            *)
(***************************************************************************)
EXTENDS Agents, FiniteSetTheorems, SequenceTheorems, WellFoundedInduction, TLAPS

-----------------------------------------------------------------------------
(* Names that are not taken.                                               *)

\* A set of naturals that is not empty has a least element.
LEMMA LeastNatural ==
    ASSUME NEW S \in SUBSET Nat, S # {}
    PROVE  \E n \in S : \A m \in S : n <= m
  <1>1. PICK n \in S : \A m \in S : ~(<<m, n>> \in OpToRel(<, Nat))
    BY NatLessThanWellFounded, WFMin, Zenon
  <1>2. \A m \in S : ~(m < n)
    BY <1>1 DEF OpToRel
  <1> QED BY <1>2

\* Of one more names than are taken one is free.
LEMMA SomeNameIsFree ==
    ASSUME NEW base, NEW taken, IsFiniteSet(taken)
    PROVE  \E n \in 1..(Cardinality(taken) + 1) : <<base, n>> \notin taken
  <1> DEFINE k == Cardinality(taken)
             f == [i \in 1..(k + 1) |-> <<base, i>>]
  <1>1. k \in Nat
    BY FS_CardinalityType
  <1> SUFFICES ASSUME \A n \in 1..(k + 1) : <<base, n>> \in taken
               PROVE  FALSE
    OBVIOUS
  <1>2. f \in [1..(k + 1) -> taken]
    OBVIOUS
  <1>3. IsFiniteSet(1..(k + 1)) /\ Cardinality(1..(k + 1)) = k + 1
    BY <1>1, FS_Interval
  <1>4. PICK x, y \in 1..(k + 1) : x # y /\ f[x] = f[y]
    <2> HIDE DEF f
    <2>1. Cardinality(taken) < Cardinality(1..(k + 1))
      BY <1>1, <1>3
    <2> QED BY <1>2, <1>3, <2>1, FS_PigeonHole
  <1> QED BY <1>4

\* FreeName finds a name that is not taken.
LEMMA FreeNameIsFree ==
    ASSUME NEW base, NEW taken, IsFiniteSet(taken)
    PROVE  \E n \in Nat \ {0} : FreeName(base, taken) = <<base, n>> /\ <<base, n>> \notin taken
  <1> DEFINE k == Cardinality(taken) + 1
             Free == {n \in 1..k : <<base, n>> \notin taken}
             IsFirst(n) == <<base, n>> \notin taken /\ \A m \in 1..(n - 1) : <<base, m>> \in taken
  <1>1. k \in Nat
    BY FS_CardinalityType
  <1>2. PICK n \in Free : \A m \in Free : n <= m
    <2>1. PICK i \in 1..k : <<base, i>> \notin taken
      BY SomeNameIsFree
    <2>2. Free # {}
      BY <2>1
    <2>3. Free \in SUBSET Nat
      BY <1>1
    <2> HIDE DEF Free
    <2> QED BY <2>2, <2>3, LeastNatural
  <1>3. n \in 1..k /\ IsFirst(n)
    <2>1. \A m \in 1..(n - 1) : m \in 1..k /\ ~(n <= m)
      BY <1>1, <1>2
    <2> QED BY <1>2, <2>1
  <1> DEFINE first == CHOOSE i \in 1..k : IsFirst(i)
  <1>4. FreeName(base, taken) = <<base, first>>
    BY DEF FreeName
  <1>5. first \in 1..k /\ IsFirst(first)
    <2>1. \E i \in 1..k : IsFirst(i)
      BY <1>3
    <2> HIDE DEF IsFirst, k
    <2> QED BY <2>1
  <1>6. first \in Nat \ {0} /\ <<base, first>> \notin taken
    <2> HIDE DEF first
    <2> QED BY <1>1, <1>5
  <1> HIDE DEF first
  <1> QED BY <1>4, <1>6

-----------------------------------------------------------------------------
(* The invariant.                                                          *)

StoredNames == (Names \cup {"parent", "main"}) \X (Nat \ {0})
Group   == [folder : StoredNames, files : BOOLEAN]
Dest    == [owner : 1..MaxGroups, name : StoredNames, target : 1..MaxGroups \cup Chats]
Note    == ({"created", "exists"} \X StoredNames) \cup ({"text"} \X (1..MaxRows))
Session == [agent : 1..MaxGroups, running : BOOLEAN, proj : SUBSET Dest, mail : SUBSET Note]
Row     == [kind : {"create", "send"}, name : StoredNames \cup {NoName}, target : Nat,
            from : Nat, state : {"due", "done", "failed"}]

\* What the agents are made of: groups, destinations and sessions.
WorldTypes ==
    /\ groups \in Seq(Group) /\ Len(groups) \in 1..MaxGroups
    /\ dests \in SUBSET Dest /\ IsFiniteSet(dests)
    /\ \A d \in dests : d.owner \in GroupIds /\ d.target \in GroupIds \cup Chats
    /\ sessions \in Seq(Session)
    /\ \A s \in DOMAIN sessions : sessions[s].agent \in GroupIds

\* The tables' keys.
KeysInv ==
    /\ \A g, h \in GroupIds : groups[g].folder = groups[h].folder => g = h
    /\ \A d, e \in dests : d.owner = e.owner /\ d.name = e.name => d = e

\* An agent that runs has its files.
FilesInv == \A s \in DOMAIN sessions : sessions[s].running => groups[sessions[s].agent].files

\* A session knows no destination its agent does not have.
ProjInv == \A s \in DOMAIN sessions : sessions[s].proj \subseteq Own(dests, sessions[s].agent)

World == WorldTypes /\ KeysInv /\ FilesInv /\ ProjInv /\ NamedChildrenAreWhole /\ CreatedIsTwoWay

\* The author of a row has its files, and may reach whom it wrote to, or answers
\* somebody who may reach it.
RowOk(row) ==
    /\ row.from \in DOMAIN sessions
    /\ groups[sessions[row.from].agent].files
    /\ row.kind = "create" => row.name \in StoredNames
    /\ row.kind = "send" =>
          /\ row.target \in GroupIds
          /\ \/ Allowed(sessions[row.from].agent, row.target)
             \/ row.name = NoName /\ Reaches(row.target, sessions[row.from].agent)

RowInv == \A r \in DOMAIN rows : RowOk(rows[r])

\* An answer of an agent that can be written to and cannot write back.
Refused(row) == row.name = NoName /\ OneWay(sessions[row.from].agent, row.target)

\* The author of a message was allowed to write to the agent that has it.
MailInv ==
    \A s \in DOMAIN sessions : \A r :
        <<"text", r>> \in sessions[s].mail =>
           r \in DOMAIN rows /\ Allowed(sessions[rows[r].from].agent, sessions[s].agent)

\* Every attempt that fails at a row the host does not refuse is one of the
\* faults, so that as many attempts as there may be faults do not give it up.
Ledger ==
    /\ rows \in Seq(Row) /\ Len(rows) <= MaxRows
    /\ tries \in [1..MaxRows -> 0..(MaxAttempts - 1)]
    /\ faults \in 0..MaxFaults
    /\ RowInv
    /\ MailInv
    /\ \A r \in 1..MaxRows : tries[r] <= faults \/ (r \in DOMAIN rows /\ Refused(rows[r]))
    /\ MaxFaults < MaxAttempts => NothingIsRefused

IInv == World /\ Ledger

-----------------------------------------------------------------------------
(* What is never taken back.                                               *)

\* A message that comes is from an agent that is allowed to write to its reader.
MailGrows ==
    \A s \in DOMAIN sessions' : \A r :
        <<"text", r>> \in sessions'[s].mail =>
           \/ s \in DOMAIN sessions /\ <<"text", r>> \in sessions[s].mail
           \/ r \in DOMAIN rows /\ Allowed(sessions[rows[r].from].agent, sessions'[s].agent)

\* Nothing is taken back, and two agents that exist are given no new way to each
\* other: a destination that comes is of or for a new agent, or for a chat.
Kept ==
    /\ Len(groups) <= Len(groups') /\ \A g \in GroupIds : groups[g].files => groups'[g].files
    /\ dests \subseteq dests'
    /\ \A d \in dests' \ dests : ~(d.owner \in GroupIds /\ d.target \in GroupIds)
    /\ Len(sessions) <= Len(sessions')
    /\ \A s \in DOMAIN sessions : sessions'[s].agent = sessions[s].agent
    /\ MailGrows

\* The indices of a sequence.
LEMMA Indices ==
    ASSUME World
    PROVE  /\ DOMAIN sessions = 1..Len(sessions) /\ Len(sessions) \in Nat
           /\ Len(groups) \in Nat /\ GroupIds = 1..Len(groups)
           /\ \A s \in DOMAIN sessions : sessions[s] \in Session /\ sessions[s].agent \in GroupIds
           /\ \A g \in GroupIds : groups[g] \in Group
  BY LenProperties, ElementOfSeq DEF World, WorldTypes, GroupIds

\* Sessions that write less, know the same and are told of no agent.
LEMMA SessionsStep ==
    ASSUME World, UNCHANGED <<groups, dests>>, MailGrows,
           sessions' \in Seq(Session), Len(sessions) <= Len(sessions'),
           \A s \in DOMAIN sessions :
              /\ sessions'[s].agent = sessions[s].agent /\ sessions'[s].proj = sessions[s].proj
              /\ sessions'[s].running => sessions[s].running
              /\ \A name : <<"created", name>> \in sessions'[s].mail => <<"created", name>> \in sessions[s].mail,
           \A s \in DOMAIN sessions' \ DOMAIN sessions :
              /\ sessions'[s].agent \in GroupIds /\ sessions'[s].proj = {} /\ ~sessions'[s].running
              /\ \A name : <<"created", name>> \notin sessions'[s].mail
    PROVE  World' /\ Kept
  <1> USE Indices
  <1>1. DOMAIN sessions' = 1..Len(sessions') /\ Len(sessions') \in Nat
    BY LenProperties
  <1>2. DOMAIN sessions \subseteq DOMAIN sessions'
    BY <1>1
  <1>3. WorldTypes'
    BY DEF World, WorldTypes, GroupIds
  <1>4. KeysInv'
    BY DEF World, KeysInv, GroupIds
  <1>5. FilesInv' /\ ProjInv'
    BY <1>1 DEF World, FilesInv, ProjInv, Own
  <1>6. NamedChildrenAreWhole'
    BY DEF World, NamedChildrenAreWhole, GroupIds
  <1>7. CreatedIsTwoWay'
    <2> SUFFICES ASSUME NEW s \in DOMAIN sessions', NEW name \in LocalNames,
                        <<"created", name>> \in sessions'[s].mail
                 PROVE  \E d \in sessions'[s].proj :
                           d.name = name /\ d \in dests /\ Reaches(d.target, sessions'[s].agent)
      BY DEF CreatedIsTwoWay, Reaches
    <2>1. s \in DOMAIN sessions /\ <<"created", name>> \in sessions[s].mail
      OBVIOUS
    <2> QED BY <2>1 DEF World, CreatedIsTwoWay
  <1>8. Kept
    BY DEF Kept, GroupIds
  <1> QED BY <1>3, <1>4, <1>5, <1>6, <1>7, <1>8 DEF World

\* Sessions whose containers are gone.
LEMMA StoppedSessions ==
    ASSUME NEW ss \in Seq(Session)
    PROVE  /\ Stopped(ss) \in Seq(Session) /\ Len(Stopped(ss)) = Len(ss)
           /\ DOMAIN Stopped(ss) = DOMAIN ss
           /\ \A s \in DOMAIN ss : /\ Stopped(ss)[s].agent = ss[s].agent
                                   /\ Stopped(ss)[s].proj = ss[s].proj
                                   /\ Stopped(ss)[s].mail = ss[s].mail
                                   /\ ~Stopped(ss)[s].running
  <1>1. DOMAIN ss = 1..Len(ss) /\ Len(ss) \in Nat /\ \A s \in DOMAIN ss : ss[s] \in Session
    BY LenProperties, ElementOfSeq
  <1>2. \A s \in DOMAIN ss : /\ [ss[s] EXCEPT !.running = FALSE] \in Session
                             /\ [ss[s] EXCEPT !.running = FALSE].agent = ss[s].agent
                             /\ [ss[s] EXCEPT !.running = FALSE].proj = ss[s].proj
                             /\ [ss[s] EXCEPT !.running = FALSE].mail = ss[s].mail
                             /\ ~[ss[s] EXCEPT !.running = FALSE].running
    BY <1>1 DEF Session
  <1>3. Stopped(ss) \in [1..Len(ss) -> Session]
    BY <1>1, <1>2 DEF Stopped
  <1>4. Stopped(ss) \in Seq(Session)
    BY <1>1, <1>3, SeqDef
  <1>5. Len(Stopped(ss)) = Len(ss)
    BY <1>1, <1>3, <1>4, LenProperties
  <1> QED BY <1>1, <1>2, <1>4, <1>5 DEF Stopped

-----------------------------------------------------------------------------
(* What becomes of rows.                                                   *)

\* What is true of a row stays true while the world grows.
LEMMA RowStays ==
    ASSUME World, World', Kept, NEW row, RowOk(row)
    PROVE  /\ RowOk(row)' /\ sessions'[row.from].agent = sessions[row.from].agent
           /\ sessions[row.from].agent \in GroupIds
  <1>1. row.from \in DOMAIN sessions /\ groups[sessions[row.from].agent].files
    BY DEF RowOk
  <1>2. sessions'[row.from].agent = sessions[row.from].agent
        /\ sessions[row.from].agent \in GroupIds
    BY <1>1, Indices DEF Kept
  <1>3. DOMAIN sessions \subseteq DOMAIN sessions'
    <2>1. sessions \in Seq(Session) /\ sessions' \in Seq(Session)
      BY DEF World, WorldTypes
    <2>2. /\ DOMAIN sessions = 1..Len(sessions) /\ Len(sessions) \in Nat
          /\ DOMAIN sessions' = 1..Len(sessions') /\ Len(sessions') \in Nat
      BY <2>1, LenProperties
    <2> QED BY <2>2 DEF Kept
  <1>4. GroupIds \subseteq GroupIds'
    BY DEF World, WorldTypes, GroupIds, Kept
  <1>5. /\ \A d \in dests : d \in dests'
        /\ groups'[sessions[row.from].agent].files
    BY <1>1, <1>2 DEF Kept
  <1>6. RowOk(row)'
    BY <1>1, <1>2, <1>3, <1>4, <1>5 DEF RowOk, Allowed, Reaches
  <1> QED BY <1>2, <1>6

\* The way back that is missing stays so.
LEMMA RefusedStays ==
    ASSUME World, World', Kept, NEW row \in Row, RowOk(row), Refused(row)
    PROVE  Refused(row)'
  <1>1. row.kind = "send" /\ row.target \in GroupIds
    <2>1. NoName \notin StoredNames
      BY DEF NoName, StoredNames
    <2> QED BY <2>1 DEF Row, RowOk, Refused
  <1>2. sessions'[row.from].agent = sessions[row.from].agent /\ sessions[row.from].agent \in GroupIds
    BY RowStays
  <1>3. /\ \A d \in dests : d \in dests'
        /\ \A d \in dests' : d \in dests \/ ~(d.owner \in GroupIds /\ d.target \in GroupIds)
    BY DEF Kept
  <1> QED BY <1>1, <1>2, <1>3 DEF Refused, OneWay, Reaches

\* The rows are numbered by their place.
LEMMA Places ==
    ASSUME Ledger
    PROVE  /\ rows \in Seq(Row) /\ Len(rows) \in Nat /\ Len(rows) <= MaxRows
           /\ DOMAIN rows = 1..Len(rows)
           /\ \A r \in DOMAIN rows : rows[r] \in Row /\ RowOk(rows[r]) /\ r \in 1..MaxRows
  <1>1. rows \in Seq(Row) /\ Len(rows) \in Nat /\ DOMAIN rows = 1..Len(rows) /\ Len(rows) <= MaxRows
    BY LenProperties DEF Ledger
  <1> QED BY <1>1, ElementOfSeq, BoundsAssumption DEF Ledger, RowInv

\* A message's author was allowed to write it, and still is.
LEMMA MailStays ==
    ASSUME World, World', Ledger, Kept, DOMAIN rows \subseteq DOMAIN rows',
           \A r \in DOMAIN rows : rows'[r].from = rows[r].from
    PROVE  MailInv'
  <1> SUFFICES ASSUME NEW s \in DOMAIN sessions', NEW r, <<"text", r>> \in sessions'[s].mail
               PROVE  /\ r \in DOMAIN rows
                      /\ \/ sessions'[s].agent = sessions'[rows[r].from].agent
                         \/ \E d \in dests' : /\ d.owner = sessions'[rows[r].from].agent
                                              /\ d.target = sessions'[s].agent
    BY DEF MailInv, Allowed, Reaches
  <1>1. r \in DOMAIN rows /\ Allowed(sessions[rows[r].from].agent, sessions'[s].agent)
    <2>1. CASE s \in DOMAIN sessions /\ <<"text", r>> \in sessions[s].mail
      BY <2>1 DEF Ledger, MailInv, Kept
    <2>2. CASE r \in DOMAIN rows /\ Allowed(sessions[rows[r].from].agent, sessions'[s].agent)
      BY <2>2
    <2> QED BY <2>1, <2>2 DEF Kept, MailGrows
  <1>2. sessions'[rows[r].from].agent = sessions[rows[r].from].agent
    BY <1>1, Places, RowStays
  <1> QED BY <1>1, <1>2 DEF Allowed, Reaches, Kept

\* The world grows and no row changes.
LEMMA LedgerIdle ==
    ASSUME World, World', Ledger, Kept, UNCHANGED rows,
           UNCHANGED <<tries, faults>> \/ (Fault /\ tries' = [r \in 1..MaxRows |-> 0])
    PROVE  Ledger'
  <1>1. RowInv'
    BY Places, RowStays DEF RowInv
  <1>2. \A r \in DOMAIN rows : Refused(rows[r]) => Refused(rows[r])'
    BY Places, RefusedStays
  <1>3. /\ faults' \in 0..MaxFaults
        /\ tries' \in [1..MaxRows -> 0..(MaxAttempts - 1)]
        /\ \A r \in 1..MaxRows : tries'[r] <= faults' \/ (r \in DOMAIN rows' /\ Refused(rows[r])')
    <2>1. CASE UNCHANGED <<tries, faults>>
      BY <1>2, <2>1 DEF Ledger
    <2>2. CASE Fault /\ tries' = [r \in 1..MaxRows |-> 0]
      BY <2>2, BoundsAssumption DEF Ledger, Fault
    <2> QED BY <2>1, <2>2
  <1>4. NothingIsRefused => NothingIsRefused'
    BY <1>2 DEF NothingIsRefused, Refused
  <1>5. MailInv'
    BY MailStays
  <1> QED BY <1>1, <1>3, <1>4, <1>5 DEF Ledger

\* A row gets a state: its author, its name and its target stay.
LEMMA RowMarked ==
    ASSUME World, World', Ledger, Kept, NEW r \in DOMAIN rows,
           NEW state \in {"done", "failed"}, Marked(r, state)
    PROVE  /\ rows' \in Seq(Row) /\ Len(rows') <= MaxRows /\ RowInv' /\ MailInv'
           /\ DOMAIN rows' = DOMAIN rows
           /\ \A q \in DOMAIN rows : Refused(rows[q]) => Refused(rows[q])'
           /\ NothingIsRefused /\ (state = "done" \/ Refused(rows[r])) => NothingIsRefused'
  <1>1. Len(rows) \in Nat /\ DOMAIN rows = 1..Len(rows) /\ rows \in Seq(Row) /\ Len(rows) <= MaxRows
        /\ \A q \in DOMAIN rows : rows[q] \in Row /\ RowOk(rows[q])
    BY Places
  <1>2. [rows[r] EXCEPT !.state = state] \in Row
    BY <1>1 DEF Row
  <1>3. rows' = [rows EXCEPT ![r] = [rows[r] EXCEPT !.state = state]]
    BY DEF Marked
  <1>4. /\ rows' \in Seq(Row) /\ Len(rows') = Len(rows) /\ DOMAIN rows' = DOMAIN rows
        /\ \A q \in DOMAIN rows :
              rows'[q] = IF q = r THEN [rows[r] EXCEPT !.state = state] ELSE rows[q]
    BY <1>1, <1>2, <1>3, ExceptSeq
  <1>5. \A q \in DOMAIN rows : /\ rows'[q].from = rows[q].from /\ rows'[q].target = rows[q].target
                               /\ rows'[q].kind = rows[q].kind /\ rows'[q].name = rows[q].name
                               /\ rows'[q].state = IF q = r THEN state ELSE rows[q].state
    <2>1. PICK old : old = rows[r]
      OBVIOUS
    <2>2. old \in Row
      BY <1>1, <2>1
    <2>3. PICK new : new = [old EXCEPT !.state = state]
      OBVIOUS
    <2>4. /\ new.from = old.from /\ new.target = old.target /\ new.kind = old.kind
          /\ new.name = old.name /\ new.state = state
      BY <2>2, <2>3 DEF Row
    <2>5. \A q \in DOMAIN rows : rows'[q] = IF q = r THEN new ELSE rows[q]
      BY <1>4, <2>1, <2>3
    <2> SUFFICES ASSUME NEW q \in DOMAIN rows
                 PROVE  /\ rows'[q].from = rows[q].from /\ rows'[q].target = rows[q].target
                        /\ rows'[q].kind = rows[q].kind /\ rows'[q].name = rows[q].name
                        /\ rows'[q].state = IF q = r THEN state ELSE rows[q].state
      OBVIOUS
    <2>6. CASE q = r
      <3>1. rows'[q] = new /\ rows[q] = old
        BY <2>1, <2>5, <2>6
      <3> QED BY <2>4, <2>6, <3>1
    <2>7. CASE q # r
      <3>1. rows'[q] = rows[q]
        BY <2>5, <2>7
      <3> QED BY <2>7, <3>1
    <2> QED BY <2>6, <2>7
  <1>6. RowInv'
    <2> SUFFICES ASSUME NEW q \in DOMAIN rows PROVE RowOk(rows[q])'
      BY <1>4 DEF RowInv
    <2>1. PICK row : row = rows[q]
      OBVIOUS
    <2>2. RowOk(row)'
      BY <1>1, <2>1, RowStays
    <2> QED BY <1>5, <2>1, <2>2 DEF RowOk
  <1>7. \A q \in DOMAIN rows : Refused(rows[q]) => Refused(rows[q])'
    <2> SUFFICES ASSUME NEW q \in DOMAIN rows, Refused(rows[q]) PROVE Refused(rows[q])'
      OBVIOUS
    <2>1. PICK row : row = rows[q]
      OBVIOUS
    <2>2. Refused(row)'
      BY <1>1, <2>1, RefusedStays
    <2> QED BY <1>5, <2>1, <2>2 DEF Refused
  <1>8. MailInv'
    BY <1>4, <1>5, MailStays
  <1>9. NothingIsRefused /\ (state = "done" \/ Refused(rows[r])) => NothingIsRefused'
    BY <1>4, <1>5, <1>7 DEF NothingIsRefused, Refused
  <1> QED BY <1>1, <1>4, <1>6, <1>7, <1>8, <1>9

\* A handler is over, threw by one of the faults, or refused its row.
LEMMA LedgerStep ==
    ASSUME World, World', Ledger, Kept, NEW r \in DOMAIN rows,
           Done(r) \/ (Threw(r) /\ Fault) \/ (Threw(r) /\ UNCHANGED faults /\ Refused(rows[r]))
    PROVE  Ledger'
  <1>0. /\ r \in 1..MaxRows /\ tries[r] \in 0..(MaxAttempts - 1) /\ faults \in 0..MaxFaults
        /\ tries[r] <= faults \/ Refused(rows[r])
    BY Places DEF Ledger
  <1>1. ASSUME Done(r) PROVE Ledger'
    <2>1. Marked(r, "done") /\ tries' = [tries EXCEPT ![r] = 0] /\ faults' = faults
      BY <1>1 DEF Done
    <2>2. /\ rows' \in Seq(Row) /\ Len(rows') <= MaxRows /\ RowInv' /\ MailInv'
          /\ DOMAIN rows' = DOMAIN rows
          /\ \A q \in DOMAIN rows : Refused(rows[q]) => Refused(rows[q])'
          /\ NothingIsRefused => NothingIsRefused'
      BY <2>1, RowMarked
    <2>3. /\ tries' \in [1..MaxRows -> 0..(MaxAttempts - 1)]
          /\ \A q \in 1..MaxRows : tries'[q] <= faults' \/ (q \in DOMAIN rows' /\ Refused(rows[q])')
      BY <1>0, <2>1, <2>2, BoundsAssumption DEF Ledger
    <2> QED BY <1>0, <2>1, <2>2, <2>3 DEF Ledger
  <1>2. ASSUME Threw(r), Fault \/ (UNCHANGED faults /\ Refused(rows[r])) PROVE Ledger'
    <2>0. /\ faults' \in 0..MaxFaults /\ faults <= faults'
          /\ faults' = faults + 1 \/ Refused(rows[r])
      BY <1>0, <1>2, BoundsAssumption DEF Fault
    <2>1. CASE tries[r] + 1 < MaxAttempts
      <3>1. tries' = [tries EXCEPT ![r] = tries[r] + 1] /\ rows' = rows
        BY <1>2, <2>1 DEF Threw
      <3>2. \A q \in DOMAIN rows : Refused(rows[q]) => Refused(rows[q])'
        BY <3>1, Places, RefusedStays
      <3>3. /\ tries' \in [1..MaxRows -> 0..(MaxAttempts - 1)]
            /\ \A q \in 1..MaxRows :
                  tries'[q] <= faults' \/ (q \in DOMAIN rows' /\ Refused(rows[q])')
        BY <1>0, <2>0, <2>1, <3>1, <3>2, BoundsAssumption DEF Ledger
      <3>4. RowInv' /\ MailInv'
        BY <3>1, Places, RowStays, MailStays DEF RowInv
      <3>5. NothingIsRefused => NothingIsRefused'
        BY <3>1, <3>2 DEF NothingIsRefused, Refused
      <3> QED BY <2>0, <3>1, <3>3, <3>4, <3>5 DEF Ledger
    <2>2. CASE ~(tries[r] + 1 < MaxAttempts)
      <3>1. tries' = [tries EXCEPT ![r] = 0] /\ Marked(r, "failed")
        BY <1>2, <2>2 DEF Threw
      <3>2. /\ rows' \in Seq(Row) /\ Len(rows') <= MaxRows /\ RowInv' /\ MailInv'
            /\ DOMAIN rows' = DOMAIN rows
            /\ \A q \in DOMAIN rows : Refused(rows[q]) => Refused(rows[q])'
            /\ NothingIsRefused /\ Refused(rows[r]) => NothingIsRefused'
        BY <3>1, RowMarked
      <3>3. /\ tries' \in [1..MaxRows -> 0..(MaxAttempts - 1)]
            /\ \A q \in 1..MaxRows :
                  tries'[q] <= faults' \/ (q \in DOMAIN rows' /\ Refused(rows[q])')
        BY <1>0, <2>0, <3>1, <3>2, BoundsAssumption DEF Ledger
      <3>4. MaxFaults < MaxAttempts => Refused(rows[r])
        BY <1>0, <2>0, <2>2, BoundsAssumption
      <3> QED BY <2>0, <3>2, <3>3, <3>4 DEF Ledger
    <2> QED BY <2>1, <2>2
  <1> QED BY <1>1, <1>2

-----------------------------------------------------------------------------
(* Steps of the agents, the operator and the host.                         *)

\* One session changes.
LEMMA OneSession ==
    ASSUME World, NEW s \in DOMAIN sessions, NEW x \in Session,
           sessions' = [sessions EXCEPT ![s] = x]
    PROVE  /\ sessions' \in Seq(Session) /\ Len(sessions') = Len(sessions)
           /\ DOMAIN sessions' = DOMAIN sessions
           /\ \A i \in DOMAIN sessions : sessions'[i] = IF i = s THEN x ELSE sessions[i]
  <1>1. DOMAIN sessions = 1..Len(sessions) /\ sessions \in Seq(Session)
    BY Indices DEF World, WorldTypes
  <1> QED BY <1>1, ExceptSeq

\* A container starts, with its agent's destinations.
LEMMA SpawnStep ==
    ASSUME World, NEW s \in DOMAIN sessions, Spawn(s)
    PROVE  World' /\ Kept
  <1> DEFINE a == sessions[s].agent
             x == [sessions[s] EXCEPT !.running = TRUE, !.proj = Own(dests, a)]
             y == [groups[a] EXCEPT !.files = TRUE]
  <1>1. /\ sessions' = [sessions EXCEPT ![s] = x] /\ groups' = [groups EXCEPT ![a] = y]
        /\ dests' = dests
    BY DEF Spawn
  <1>2. sessions[s] \in Session /\ a \in GroupIds /\ GroupIds = 1..Len(groups) /\ groups[a] \in Group
        /\ dests \in SUBSET Dest /\ groups \in Seq(Group) /\ Len(groups) \in 1..MaxGroups
    BY Indices DEF World, WorldTypes
  <1>3. x \in Session /\ x.agent = a /\ x.proj = Own(dests, a) /\ x.mail = sessions[s].mail
    BY <1>2 DEF Session, Own
  <1>4. y \in Group /\ y.files /\ y.folder = groups[a].folder
    BY <1>2 DEF Group
  <1>5. /\ sessions' \in Seq(Session) /\ Len(sessions') = Len(sessions)
        /\ DOMAIN sessions' = DOMAIN sessions
        /\ \A i \in DOMAIN sessions : sessions'[i] = IF i = s THEN x ELSE sessions[i]
    <2> HIDE DEF x
    <2> QED BY <1>1, <1>3, OneSession
  <1>6. /\ groups' \in Seq(Group) /\ Len(groups') = Len(groups)
        /\ \A g \in GroupIds : groups'[g] = IF g = a THEN y ELSE groups[g]
    <2> HIDE DEF y
    <2> QED BY <1>1, <1>2, <1>4, ExceptSeq
  <1>7. \A i \in DOMAIN sessions : sessions'[i].agent = sessions[i].agent
                                   /\ sessions[i].agent \in GroupIds
    BY <1>3, <1>5, Indices
  <1>8. GroupIds' = GroupIds
    BY <1>6 DEF GroupIds
  <1> HIDE DEF a, x, y
  <1>9. WorldTypes'
    BY <1>1, <1>2, <1>5, <1>6, <1>7, <1>8 DEF World, WorldTypes
  <1>10. KeysInv'
    <2>1. \A g \in GroupIds : groups'[g].folder = groups[g].folder
      BY <1>4, <1>6
    <2> QED BY <1>1, <1>8, <2>1 DEF World, KeysInv
  <1>11. \A g \in GroupIds : groups[g].files => groups'[g].files
    BY <1>4, <1>6
  <1>12. FilesInv'
    <2> SUFFICES ASSUME NEW i \in DOMAIN sessions, sessions'[i].running
                 PROVE  groups'[sessions'[i].agent].files
      BY <1>5 DEF FilesInv
    <2>1. CASE i = s
      BY <1>2, <1>3, <1>4, <1>5, <1>6, <2>1
    <2>2. CASE i # s
      BY <1>5, <1>7, <1>11, <2>2 DEF World, FilesInv
    <2> QED BY <2>1, <2>2
  <1>13. ProjInv'
    BY <1>1, <1>3, <1>5 DEF World, ProjInv, Own
  <1>14. NamedChildrenAreWhole'
    BY <1>1, <1>8, <1>11 DEF World, NamedChildrenAreWhole
  <1>15. CreatedIsTwoWay'
    <2> SUFFICES ASSUME NEW i \in DOMAIN sessions, NEW name \in LocalNames,
                        <<"created", name>> \in sessions'[i].mail
                 PROVE  \E d \in sessions'[i].proj :
                           d.name = name /\ d \in dests /\ Reaches(d.target, sessions'[i].agent)
      BY <1>1, <1>5 DEF CreatedIsTwoWay, Reaches
    <2>1. <<"created", name>> \in sessions[i].mail
      BY <1>3, <1>5
    <2>2. PICK d \in sessions[i].proj :
             d.name = name /\ d \in dests /\ Reaches(d.target, sessions[i].agent)
      BY <2>1 DEF World, CreatedIsTwoWay
    <2>3. d \in Own(dests, sessions[i].agent)
      BY <2>2 DEF World, ProjInv
    <2>4. d \in sessions'[i].proj
      BY <1>3, <1>5, <2>2, <2>3 DEF a
    <2> QED BY <1>7, <2>2, <2>4
  <1>16. Kept
    <2>1. MailGrows
      BY <1>3, <1>5 DEF MailGrows
    <2> QED BY <1>1, <1>5, <1>6, <1>7, <1>11, <2>1 DEF Kept
  <1> QED BY <1>9, <1>10, <1>12, <1>13, <1>14, <1>15, <1>16 DEF World

\* A container ends, or is told that the name it asked for exists.
LEMMA OneQuietSession ==
    ASSUME World, NEW s \in DOMAIN sessions, UNCHANGED <<groups, dests>>,
           \/ sessions' = [sessions EXCEPT ![s].running = FALSE]
           \/ \E name \in StoredNames : Tells(s, <<"exists", name>>)
    PROVE  World' /\ Kept
  <1>1. sessions[s] \in Session
    BY Indices
  <1>2. PICK x \in Session :
           /\ sessions' = [sessions EXCEPT ![s] = x]
           /\ x.agent = sessions[s].agent /\ x.proj = sessions[s].proj
           /\ x.running => sessions[s].running
           /\ \A n : <<"created", n>> \in x.mail => <<"created", n>> \in sessions[s].mail
           /\ \A n : <<"text", n>> \in x.mail => <<"text", n>> \in sessions[s].mail
    <2>1. CASE sessions' = [sessions EXCEPT ![s].running = FALSE]
      <3> DEFINE x == [sessions[s] EXCEPT !.running = FALSE]
      <3>1. sessions' = [sessions EXCEPT ![s] = x]
        BY <2>1
      <3>2. /\ x \in Session /\ x.agent = sessions[s].agent /\ x.proj = sessions[s].proj
            /\ ~x.running /\ x.mail = sessions[s].mail
        BY <1>1 DEF Session
      <3> HIDE DEF x
      <3> QED BY <3>1, <3>2
    <2>2. ASSUME NEW name \in StoredNames, Tells(s, <<"exists", name>>)
          PROVE  \E x \in Session :
                    /\ sessions' = [sessions EXCEPT ![s] = x]
                    /\ x.agent = sessions[s].agent /\ x.proj = sessions[s].proj
                    /\ x.running => sessions[s].running
                    /\ \A n : <<"created", n>> \in x.mail => <<"created", n>> \in sessions[s].mail
                    /\ \A n : <<"text", n>> \in x.mail => <<"text", n>> \in sessions[s].mail
      <3> DEFINE x == [sessions[s] EXCEPT !.mail = sessions[s].mail \cup {<<"exists", name>>}]
      <3>1. sessions' = [sessions EXCEPT ![s] = x]
        BY <2>2 DEF Tells
      <3>2. <<"exists", name>> \in Note
        BY DEF Note
      <3>3. /\ x \in Session /\ x.agent = sessions[s].agent /\ x.proj = sessions[s].proj
            /\ x.running = sessions[s].running
            /\ x.mail = sessions[s].mail \cup {<<"exists", name>>}
        BY <1>1, <3>2 DEF Session
      <3> HIDE DEF x
      <3> QED BY <3>1, <3>3
    <2> QED BY <2>1, <2>2
  <1>3. /\ sessions' \in Seq(Session) /\ Len(sessions') = Len(sessions)
        /\ DOMAIN sessions' = DOMAIN sessions
        /\ \A i \in DOMAIN sessions : sessions'[i] = IF i = s THEN x ELSE sessions[i]
    BY <1>2, OneSession
  <1>4. Len(sessions) <= Len(sessions')
    BY <1>3, Indices
  <1>5. MailGrows
    BY <1>2, <1>3 DEF MailGrows
  <1> QED BY <1>2, <1>3, <1>4, <1>5, SessionsStep

\* The host dies: containers are gone.
LEMMA StopStep ==
    ASSUME World, UNCHANGED <<groups, dests>>, sessions' = Stopped(sessions)
    PROVE  World' /\ Kept
  <1>1. sessions \in Seq(Session)
    BY DEF World, WorldTypes
  <1>2. /\ sessions' \in Seq(Session) /\ Len(sessions) = Len(sessions')
        /\ DOMAIN sessions' = DOMAIN sessions
        /\ \A s \in DOMAIN sessions : /\ sessions'[s].agent = sessions[s].agent
                                      /\ sessions'[s].proj = sessions[s].proj
                                      /\ sessions'[s].mail = sessions[s].mail
                                      /\ ~sessions'[s].running
    BY <1>1, StoppedSessions
  <1>3. Len(sessions) <= Len(sessions')
    BY <1>2, Indices
  <1>4. MailGrows
    BY <1>2 DEF MailGrows
  <1> QED BY <1>2, <1>3, <1>4, SessionsStep

\* The names an agent has are finitely many, and so are the folders.
LEMMA FiniteNames ==
    ASSUME World
    PROVE  /\ \A a : IsFiniteSet({d.name : d \in Own(dests, a)})
           /\ IsFiniteSet({groups[i].folder : i \in GroupIds})
  <1>1. ASSUME NEW a PROVE IsFiniteSet({d.name : d \in Own(dests, a)})
    <2> DEFINE f == [d \in Own(dests, a) |-> d.name]
    <2>1. IsFiniteSet(Own(dests, a))
      <3>1. Own(dests, a) \in SUBSET dests
        BY DEF Own
      <3> QED BY <3>1, FS_Subset DEF World, WorldTypes
    <2>2. f \in Surjection(Own(dests, a), {d.name : d \in Own(dests, a)})
      BY DEF Surjection
    <2> QED BY <2>1, <2>2, FS_Surjection
  <1>2. IsFiniteSet({groups[i].folder : i \in GroupIds})
    <2> DEFINE f == [i \in GroupIds |-> groups[i].folder]
    <2>1. IsFiniteSet(GroupIds)
      BY Indices, FS_Interval
    <2>2. f \in Surjection(GroupIds, {groups[i].folder : i \in GroupIds})
      BY DEF Surjection
    <2> QED BY <2>1, <2>2, FS_Surjection
  <1> QED BY <1>1, <1>2

\* What has been announced stays so while destinations are added and a session
\* is told of its agent's.
LEMMA AnnouncedStays ==
    ASSUME World, Kept, NEW s \in DOMAIN sessions, NEW name \in LocalNames,
           <<"created", name>> \in sessions[s].mail,
           sessions[s].proj \subseteq sessions'[s].proj
    PROVE  \E d \in sessions'[s].proj :
              /\ d.name = name /\ d \in dests'
              /\ \E e \in dests' : e.owner = d.target /\ e.target = sessions'[s].agent
  <1>1. PICK d \in sessions[s].proj :
           d.name = name /\ d \in dests /\ Reaches(d.target, sessions[s].agent)
    BY DEF World, CreatedIsTwoWay
  <1>2. sessions'[s].agent = sessions[s].agent /\ dests \subseteq dests'
    BY DEF Kept
  <1> QED BY <1>1, <1>2 DEF Reaches

\* An operator wires a chat, under a name the agent does not have yet.
LEMMA WireStep ==
    ASSUME World, NEW c \in Chats, WireChat(c)
    PROVE  World' /\ Kept
  <1>1. PICK base \in Names :
           dests' = dests \cup {[owner |-> 1, target |-> c,
                                 name |-> FreeName(base, {d.name : d \in Own(dests, 1)})]}
    BY DEF WireChat
  <1>2. UNCHANGED <<groups, sessions>>
    BY DEF WireChat
  <1>3. PICK n \in Nat \ {0} : /\ FreeName(base, {d.name : d \in Own(dests, 1)}) = <<base, n>>
                               /\ <<base, n>> \notin {d.name : d \in Own(dests, 1)}
    BY FiniteNames, FreeNameIsFree
  <1> DEFINE x == [owner |-> 1, target |-> c, name |-> <<base, n>>]
  <1>4. dests' = dests \cup {x}
    BY <1>1, <1>3
  <1>5. /\ 1 \in GroupIds /\ GroupIds' = GroupIds /\ c \notin GroupIds
        /\ dests \in SUBSET Dest /\ IsFiniteSet(dests)
    BY <1>2, BoundsAssumption, ChatsAssumption DEF World, WorldTypes, GroupIds
  <1>6. x \in Dest /\ x.owner = 1 /\ x.target = c /\ x.name = <<base, n>>
    BY BoundsAssumption DEF Dest, StoredNames
  <1>7. \A d \in dests : d.owner = 1 => d.name # x.name
    BY <1>3 DEF Own
  <1> HIDE DEF x
  <1>8. WorldTypes'
    <2>1. dests' \in SUBSET Dest /\ IsFiniteSet(dests')
      BY <1>4, <1>5, <1>6, FS_AddElement
    <2>2. \A d \in dests' : d.owner \in GroupIds /\ d.target \in GroupIds \cup Chats
      BY <1>4, <1>5, <1>6 DEF World, WorldTypes
    <2> QED BY <1>2, <1>5, <2>1, <2>2 DEF World, WorldTypes
  <1>9. KeysInv'
    BY <1>2, <1>4, <1>5, <1>6, <1>7 DEF World, KeysInv
  <1>10. FilesInv' /\ ProjInv'
    BY <1>2, <1>4 DEF World, FilesInv, ProjInv, Own
  <1>11. NamedChildrenAreWhole'
    BY <1>2, <1>4, <1>5, <1>6 DEF World, NamedChildrenAreWhole
  <1>12. Kept
    BY <1>2, <1>4, <1>5, <1>6, Indices DEF Kept, MailGrows
  <1>13. CreatedIsTwoWay'
    BY <1>2, <1>12, AnnouncedStays DEF CreatedIsTwoWay, Reaches
  <1> QED BY <1>8, <1>9, <1>10, <1>11, <1>12, <1>13 DEF World

-----------------------------------------------------------------------------
(* A message for an agent.                                                 *)

\* The newest session of the target is one of its sessions.
LEMMA NewestSession ==
    ASSUME World, NEW t \in GroupIds, SessionsOf(t) # {}
    PROVE  TargetSession(t) \in SessionsOf(t)
  <1> DEFINE n == Len(sessions)
             T == {n - i : i \in SessionsOf(t)}
  <1>1. n \in Nat /\ SessionsOf(t) \subseteq 1..n
    BY Indices DEF SessionsOf
  <1>2. T \in SUBSET Nat /\ T # {}
    BY <1>1
  <1>3. PICK k \in T : \A m \in T : k <= m
    <2> HIDE DEF T
    <2> QED BY <1>2, LeastNatural
  <1>4. PICK i \in SessionsOf(t) : k = n - i
    BY <1>3
  <1>5. \A j \in SessionsOf(t) : j <= i
    <2> SUFFICES ASSUME NEW j \in SessionsOf(t) PROVE j <= i
      OBVIOUS
    <2>1. n - i <= n - j
      BY <1>3, <1>4
    <2> QED BY <1>1, <2>1
  <1>6. \E x \in SessionsOf(t) : \A j \in SessionsOf(t) : j <= x
    BY <1>5
  <1> QED BY <1>6 DEF TargetSession

\* A new session is opened where the target has none.
LEMMA OpenedSessions ==
    ASSUME World, NEW t \in GroupIds
    PROVE  /\ Opened(t) \in Seq(Session) /\ Len(sessions) <= Len(Opened(t))
           /\ \A s \in DOMAIN sessions : Opened(t)[s] = sessions[s]
           /\ \A s \in DOMAIN Opened(t) \ DOMAIN sessions : Opened(t)[s] = NewSession(t)
           /\ TargetSession(t) \in DOMAIN Opened(t) /\ Opened(t)[TargetSession(t)].agent = t
  <1>1. /\ sessions \in Seq(Session) /\ DOMAIN sessions = 1..Len(sessions) /\ Len(sessions) \in Nat
        /\ t \in 1..MaxGroups
    BY Indices, BoundsAssumption DEF World, WorldTypes
  <1>2. CASE SessionsOf(t) = {}
    <2>1. NewSession(t) \in Session /\ NewSession(t).agent = t
      BY <1>1 DEF NewSession, Session
    <2>2. /\ Opened(t) = Append(sessions, NewSession(t)) /\ TargetSession(t) = Len(sessions) + 1
      BY <1>2 DEF Opened, TargetSession
    <2>3. /\ Opened(t) \in Seq(Session) /\ Len(Opened(t)) = Len(sessions) + 1
          /\ \A i \in 1..Len(sessions) : Opened(t)[i] = sessions[i]
          /\ Opened(t)[Len(sessions) + 1] = NewSession(t)
      BY <1>1, <2>1, <2>2, AppendProperties
    <2>4. DOMAIN Opened(t) = 1..(Len(sessions) + 1)
      BY <2>3, LenProperties
    <2> QED BY <1>1, <2>1, <2>2, <2>3, <2>4
  <1>3. CASE SessionsOf(t) # {}
    <2>1. Opened(t) = sessions
      BY <1>3 DEF Opened
    <2> QED BY <1>1, <1>3, <2>1, NewestSession DEF SessionsOf
  <1> QED BY <1>2, <1>3

\* The message is in a session of the target, and nobody is told anything else.
LEMMA PostedSessions ==
    ASSUME World, NEW r \in 1..MaxRows, rows[r].target \in GroupIds
    PROVE  LET o == Opened(rows[r].target)
           IN  /\ Posted(r) \in Seq(Session) /\ Len(Posted(r)) = Len(o)
               /\ DOMAIN Posted(r) = DOMAIN o
               /\ \A s \in DOMAIN o : /\ Posted(r)[s].agent = o[s].agent
                                      /\ Posted(r)[s].proj = o[s].proj
                                      /\ Posted(r)[s].running = o[s].running
                                      /\ \/ Posted(r)[s].mail = o[s].mail
                                         \/ /\ o[s].agent = rows[r].target
                                            /\ Posted(r)[s].mail = o[s].mail \cup {<<"text", r>>}
  <1> DEFINE t == rows[r].target
             o == Opened(t)
             s0 == TargetSession(t)
             x == [o[s0] EXCEPT !.mail = o[s0].mail \cup {<<"text", r>>}]
  <1>1. o \in Seq(Session) /\ s0 \in DOMAIN o /\ o[s0].agent = t
    BY OpenedSessions
  <1>2. DOMAIN o = 1..Len(o) /\ o[s0] \in Session
    BY <1>1, LenProperties, ElementOfSeq
  <1>3. Posted(r) = [o EXCEPT ![s0] = x]
    BY DEF Posted
  <1>4. <<"text", r>> \in Note
    BY DEF Note
  <1>5. /\ x \in Session /\ x.agent = o[s0].agent /\ x.proj = o[s0].proj /\ x.running = o[s0].running
        /\ x.mail = o[s0].mail \cup {<<"text", r>>}
    BY <1>2, <1>4 DEF Session
  <1> HIDE DEF x, o, s0
  <1>6. /\ Posted(r) \in Seq(Session) /\ Len(Posted(r)) = Len(o)
        /\ \A s \in 1..Len(o) : Posted(r)[s] = IF s = s0 THEN x ELSE o[s]
    BY <1>1, <1>2, <1>3, <1>5, ExceptSeq
  <1>7. DOMAIN Posted(r) = 1..Len(Posted(r))
    BY <1>6, LenProperties
  <1>8. /\ Posted(r) \in Seq(Session) /\ Len(Posted(r)) = Len(o)
        /\ DOMAIN Posted(r) = DOMAIN o
        /\ \A s \in DOMAIN o : /\ Posted(r)[s].agent = o[s].agent
                               /\ Posted(r)[s].proj = o[s].proj
                               /\ Posted(r)[s].running = o[s].running
                               /\ \/ Posted(r)[s].mail = o[s].mail
                                  \/ /\ o[s].agent = t
                                     /\ Posted(r)[s].mail = o[s].mail \cup {<<"text", r>>}
    BY <1>1, <1>2, <1>5, <1>6, <1>7
  <1> QED BY <1>8 DEF o

\* What a message does to the sessions, wherever its handler is stopped.
LEMMA PostStep ==
    ASSUME World, UNCHANGED <<groups, dests>>,
           NEW r \in 1..MaxRows, r \in DOMAIN rows, rows[r].target \in GroupIds,
           Allowed(sessions[rows[r].from].agent, rows[r].target),
           sessions' \in {sessions, Opened(rows[r].target), Posted(r), Stopped(Posted(r))}
    PROVE  World' /\ Kept
  <1> DEFINE t == rows[r].target
             o == Opened(t)
  <1>0. /\ sessions \in Seq(Session) /\ DOMAIN sessions = 1..Len(sessions) /\ Len(sessions) \in Nat
        /\ \A s \in DOMAIN sessions : sessions[s] \in Session /\ sessions[s].agent \in GroupIds
    BY Indices DEF World, WorldTypes
  <1>1. /\ o \in Seq(Session) /\ Len(sessions) <= Len(o)
        /\ \A s \in DOMAIN sessions : o[s] = sessions[s]
        /\ \A s \in DOMAIN o \ DOMAIN sessions : /\ o[s].agent = t /\ o[s].proj = {}
                                                 /\ ~o[s].running /\ o[s].mail = {}
    BY OpenedSessions DEF NewSession
  <1>2. DOMAIN o = 1..Len(o) /\ Len(o) \in Nat
    BY <1>1, LenProperties
  <1>3. /\ Posted(r) \in Seq(Session) /\ Len(Posted(r)) = Len(o) /\ DOMAIN Posted(r) = DOMAIN o
        /\ \A s \in DOMAIN o : /\ Posted(r)[s].agent = o[s].agent
                               /\ Posted(r)[s].proj = o[s].proj
                               /\ Posted(r)[s].running = o[s].running
                               /\ \/ Posted(r)[s].mail = o[s].mail
                                  \/ /\ o[s].agent = t
                                     /\ Posted(r)[s].mail = o[s].mail \cup {<<"text", r>>}
    BY PostedSessions
  <1> HIDE DEF o
  <1>4. /\ Stopped(Posted(r)) \in Seq(Session) /\ Len(Stopped(Posted(r))) = Len(o)
        /\ DOMAIN Stopped(Posted(r)) = DOMAIN o
        /\ \A s \in DOMAIN o : /\ Stopped(Posted(r))[s].agent = o[s].agent
                               /\ Stopped(Posted(r))[s].proj = o[s].proj
                               /\ ~Stopped(Posted(r))[s].running
                               /\ \/ Stopped(Posted(r))[s].mail = o[s].mail
                                  \/ /\ o[s].agent = t
                                     /\ Stopped(Posted(r))[s].mail = o[s].mail \cup {<<"text", r>>}
    BY <1>3, StoppedSessions
  <1>5. CASE sessions' = sessions
    <2>1. MailGrows
      BY <1>5 DEF MailGrows
    <2> QED BY <1>0, <1>5, <2>1, SessionsStep
  <1>6. CASE sessions' \in {o, Posted(r), Stopped(Posted(r))}
    <2>1. /\ sessions' \in Seq(Session) /\ Len(sessions') = Len(o) /\ DOMAIN sessions' = DOMAIN o
          /\ \A s \in DOMAIN o : /\ sessions'[s].agent = o[s].agent
                                 /\ sessions'[s].proj = o[s].proj
                                 /\ sessions'[s].running => o[s].running
                                 /\ \/ sessions'[s].mail = o[s].mail
                                    \/ /\ o[s].agent = t
                                       /\ sessions'[s].mail = o[s].mail \cup {<<"text", r>>}
      BY <1>1, <1>3, <1>4, <1>6
    <2>2. \A s \in DOMAIN sessions : s \in DOMAIN o
      BY <1>0, <1>1, <1>2
    <2>3. \A name : <<"created", name>> # <<"text", r>>
      OBVIOUS
    <2>4. MailGrows
      <3> SUFFICES ASSUME NEW s \in DOMAIN o, NEW q, <<"text", q>> \in sessions'[s].mail
                   PROVE  \/ s \in DOMAIN sessions /\ <<"text", q>> \in sessions[s].mail
                          \/ q \in DOMAIN rows /\ Allowed(sessions[rows[q].from].agent, sessions'[s].agent)
        BY <2>1 DEF MailGrows
      <3>1. CASE <<"text", q>> \in o[s].mail
        BY <1>1, <3>1
      <3>2. CASE <<"text", q>> \notin o[s].mail
        <4>1. o[s].agent = t /\ <<"text", q>> = <<"text", r>>
          BY <2>1, <3>2
        <4>2. q = r /\ sessions'[s].agent = t
          BY <2>1, <4>1
        <4> QED BY <4>2
      <3> QED BY <3>1, <3>2
    <2>5. \A s \in DOMAIN sessions :
             /\ sessions'[s].agent = sessions[s].agent /\ sessions'[s].proj = sessions[s].proj
             /\ sessions'[s].running => sessions[s].running
             /\ \A name : <<"created", name>> \in sessions'[s].mail => <<"created", name>> \in sessions[s].mail
      BY <1>1, <2>1, <2>2, <2>3
    <2>6. \A s \in DOMAIN sessions' \ DOMAIN sessions :
             /\ sessions'[s].agent \in GroupIds /\ sessions'[s].proj = {} /\ ~sessions'[s].running
             /\ \A name : <<"created", name>> \notin sessions'[s].mail
      BY <1>1, <2>1, <2>3
    <2>7. sessions' \in Seq(Session) /\ Len(sessions) <= Len(sessions')
      BY <1>1, <2>1
    <2> QED BY <2>4, <2>5, <2>6, <2>7, SessionsStep
  <1> QED BY <1>5, <1>6 DEF o

-----------------------------------------------------------------------------
(* handleCreateAgent.                                                      *)

\* The writes of a request on sessions ss, up to the k-th of them.
Written(ss, r, k) ==
    LET s == rows[r].from
        a == sessions[s].agent
        g == Len(groups) + 1
    IN  /\ k = 0 => groups' = groups
        /\ k >= 1 => \E n \in StoredNames :
              /\ groups' = Append(groups, [folder |-> n, files |-> k >= 2])
              /\ \A i \in GroupIds : groups[i].folder # n
        /\ dests' = dests
              \cup (IF k >= 3 THEN {[owner |-> a, name |-> rows[r].name, target |-> g]} ELSE {})
              \cup (IF k >= 4 THEN {[owner |-> g, name |-> <<"parent", 1>>, target |-> a]} ELSE {})
        /\ \E z :
              /\ sessions' = [ss EXCEPT ![s] = z]
              /\ z.agent = ss[s].agent /\ z.running = ss[s].running
              /\ z.proj = IF k >= 5 THEN Own(dests', a) ELSE sessions[s].proj
              /\ z.mail = IF k >= 6 THEN sessions[s].mail \cup {<<"created", rows[r].name>>}
                          ELSE sessions[s].mail
              /\ z.proj \in SUBSET Dest /\ z.mail \in SUBSET Note => z \in Session

\* So far has a request come whose handler is stopped after the k-th write.
LEMMA CreateParts ==
    ASSUME World, Ledger, NEW r \in DOMAIN rows, Creates(r), NEW k \in 0..6,
           NEW ss \in Seq(Session), DOMAIN ss = DOMAIN sessions,
           \A i \in DOMAIN sessions : /\ ss[i].agent = sessions[i].agent
                                      /\ ss[i].proj = sessions[i].proj
                                      /\ ss[i].mail = sessions[i].mail,
           CreateUpTo(ss, r, k)
    PROVE  Written(ss, r, k)
  <1> DEFINE s == rows[r].from
             a == sessions[s].agent
             g == Len(groups) + 1
             Did(step) == \E i \in 1..k : CreateSteps[i] = step
             folder == FreeName(rows[r].name[1], {groups[i].folder : i \in GroupIds})
             Grant(owner, name, target) == {[owner |-> owner, name |-> name, target |-> target]}
  <1>1. /\ Did("group") <=> k >= 1
        /\ Did("files") <=> k >= 2
        /\ Did("grant") <=> k >= 3
        /\ Did("parent") <=> k >= 4
        /\ Did("project") <=> k >= 5
        /\ Did("notify") <=> k >= 6
    <2>1. /\ CreateSteps[1] = "group" /\ CreateSteps[2] = "files" /\ CreateSteps[3] = "grant"
          /\ CreateSteps[4] = "parent" /\ CreateSteps[5] = "project" /\ CreateSteps[6] = "notify"
      BY DEF CreateSteps
    <2>2. \A i \in 1..k : i \in {1, 2, 3, 4, 5, 6}
      OBVIOUS
    <2> QED BY <2>1, <2>2
  <1>2. /\ groups' = IF Did("group")
                     THEN Append(groups, [folder |-> folder, files |-> Did("files")])
                     ELSE groups
        /\ dests' = dests
             \cup (IF Did("grant") THEN Grant(a, rows[r].name, g) ELSE {})
             \cup (IF Did("parent") THEN Grant(g, <<"parent", 1>>, a) ELSE {})
        /\ sessions' = [ss EXCEPT
             ![s].proj = IF Did("project") THEN Own(dests', a) ELSE @,
             ![s].mail = IF Did("notify") THEN @ \cup {<<"created", rows[r].name>>} ELSE @]
    BY DEF CreateUpTo
  <1>3. s \in DOMAIN sessions /\ ss[s] \in Session /\ ss[s].proj = sessions[s].proj
        /\ ss[s].mail = sessions[s].mail /\ rows[r].name \in StoredNames
    <2>1. rows[r].kind = "create" /\ RowOk(rows[r])
      BY Places DEF Creates, Due
    <2>2. DOMAIN ss = 1..Len(ss)
      BY LenProperties
    <2> QED BY <2>1, <2>2, ElementOfSeq DEF RowOk
  <1>4. folder \in StoredNames /\ \A i \in GroupIds : groups[i].folder # folder
    <2>1. PICK n \in Nat \ {0} :
             /\ folder = <<rows[r].name[1], n>>
             /\ <<rows[r].name[1], n>> \notin {groups[i].folder : i \in GroupIds}
      BY FiniteNames, FreeNameIsFree
    <2>2. rows[r].name[1] \in Names \cup {"parent", "main"}
      BY <1>3 DEF StoredNames
    <2> HIDE DEF folder
    <2> QED BY <2>1, <2>2 DEF StoredNames
  <1>5. dests' = dests
             \cup (IF k >= 3 THEN {[owner |-> a, name |-> rows[r].name, target |-> g]} ELSE {})
             \cup (IF k >= 4 THEN {[owner |-> g, name |-> <<"parent", 1>>, target |-> a]} ELSE {})
    <2> HIDE DEF Did
    <2> QED BY <1>1, <1>2
  <1>6. /\ k = 0 => groups' = groups
        /\ k >= 1 => groups' = Append(groups, [folder |-> folder, files |-> k >= 2])
    <2>1. Did("files") = (k >= 2)
      <3>1. Did("files") \in BOOLEAN /\ (k >= 2) \in BOOLEAN
        OBVIOUS
      <3> HIDE DEF Did
      <3> QED BY <1>1, <3>1
    <2> HIDE DEF Did, folder
    <2> QED BY <1>1, <1>2, <2>1
  <1>7. \E z :
           /\ sessions' = [ss EXCEPT ![s] = z]
           /\ z.agent = ss[s].agent /\ z.running = ss[s].running
           /\ z.proj = IF k >= 5 THEN Own(dests', a) ELSE sessions[s].proj
           /\ z.mail = IF k >= 6 THEN sessions[s].mail \cup {<<"created", rows[r].name>>}
                       ELSE sessions[s].mail
           /\ z.proj \in SUBSET Dest /\ z.mail \in SUBSET Note => z \in Session
    <2>1. PICK p, q :
             /\ p = IF k >= 5 THEN Own(dests', a) ELSE ss[s].proj
             /\ q = IF k >= 6 THEN ss[s].mail \cup {<<"created", rows[r].name>>} ELSE ss[s].mail
      OBVIOUS
    <2> DEFINE z == [ss[s] EXCEPT !.proj = p, !.mail = q]
    <2>2. sessions' = [ss EXCEPT ![s] = z]
      <3> HIDE DEF Did
      <3> QED BY <1>1, <1>2, <2>1
    <2>3. /\ z.agent = ss[s].agent /\ z.running = ss[s].running /\ z.proj = p /\ z.mail = q
          /\ p \in SUBSET Dest /\ q \in SUBSET Note => z \in Session
      BY <1>3 DEF Session
    <2> HIDE DEF z
    <2> QED BY <1>3, <2>1, <2>2, <2>3
  <1> HIDE DEF folder
  <1> QED BY <1>4, <1>5, <1>6, <1>7 DEF Written

\* Wherever the handler is stopped, the agents that can be reached have their
\* files, and an agent that was announced is known to its creator and knows it.
LEMMA CreateStep ==
    ASSUME World, Ledger, NEW r \in DOMAIN rows, Creates(r), NEW k \in 0..6,
           NEW ss \in Seq(Session), DOMAIN ss = DOMAIN sessions, Len(ss) = Len(sessions),
           \A i \in DOMAIN sessions : /\ ss[i].agent = sessions[i].agent
                                      /\ ss[i].proj = sessions[i].proj
                                      /\ ss[i].mail = sessions[i].mail
                                      /\ ss[i].running => sessions[i].running,
           CreateUpTo(ss, r, k)
    PROVE  World' /\ Kept
  <1>0. Written(ss, r, k)
    BY CreateParts
  <1>1. PICK s, a, g, nm : /\ s = rows[r].from /\ a = sessions[s].agent /\ g = Len(groups) + 1
                           /\ nm = rows[r].name
    OBVIOUS
  <1>2. /\ s \in DOMAIN sessions /\ a \in GroupIds /\ groups[a].files /\ nm \in StoredNames
        /\ GroupIds = 1..Len(groups) /\ g \in 1..MaxGroups /\ g \notin GroupIds /\ g \notin Chats
        /\ Len(groups) \in Nat /\ Len(groups) \in 1..MaxGroups
        /\ \A d \in dests : ~(d.owner = a /\ d.name = nm)
    <2>1. rows[r].kind = "create" /\ RowOk(rows[r])
      BY Places DEF Creates, Due
    <2>2. nm \in StoredNames
      BY <1>1, <2>1 DEF RowOk
    <2>3. s \in DOMAIN sessions /\ groups[a].files
      BY <1>1, <2>1 DEF RowOk
    <2>4. Len(groups) < MaxGroups /\ \A d \in dests : ~(d.owner = a /\ d.name = nm)
      BY <1>1 DEF Creates, Named
    <2>5. Len(groups) \in 1..MaxGroups
      BY DEF World, WorldTypes
    <2>6. a \in GroupIds
      BY <1>1, <2>3, Indices
    <2>7. g \in 1..MaxGroups /\ g \notin GroupIds
      BY <1>1, <2>4, <2>5, BoundsAssumption DEF GroupIds
    <2> QED BY <1>1, <2>2, <2>3, <2>4, <2>5, <2>6, <2>7, ChatsAssumption, BoundsAssumption
            DEF GroupIds
  <1>3. /\ groups' \in Seq(Group) /\ Len(groups') = IF k = 0 THEN Len(groups) ELSE g
        /\ \A i \in GroupIds : groups'[i] = groups[i]
        /\ k >= 1 => \A i \in GroupIds : groups[i].folder # groups'[g].folder
        /\ k >= 2 => groups'[g].files
    <2>0. groups \in Seq(Group)
      BY DEF World, WorldTypes
    <2>1. CASE k = 0
      <3>1. groups' = groups
        BY <2>1, <1>0 DEF Written
      <3> QED BY <2>0, <2>1, <3>1
    <2>2. CASE k >= 1
      <3>1. PICK n \in StoredNames :
               /\ groups' = Append(groups, [folder |-> n, files |-> k >= 2])
               /\ \A i \in GroupIds : groups[i].folder # n
        BY <2>2, <1>0 DEF Written
      <3>2. PICK w \in Group : w = [folder |-> n, files |-> k >= 2]
        <4>1. [folder |-> n, files |-> k >= 2] \in Group
          BY DEF Group
        <4> QED BY <4>1, Zenon
      <3>3. /\ groups' \in Seq(Group) /\ Len(groups') = g
            /\ \A i \in GroupIds : groups'[i] = groups[i]
            /\ groups'[g] = w
        BY <1>1, <1>2, <2>0, <3>1, <3>2, AppendProperties
      <3>4. w.folder = n
        BY <3>2
      <3>5. k >= 2 => w.files
        BY <3>2
      <3>6. Len(groups') = IF k = 0 THEN Len(groups) ELSE g
        BY <2>2, <3>3
      <3> QED BY <3>1, <3>3, <3>4, <3>5, <3>6
    <2> QED BY <2>1, <2>2
  <1>4. GroupIds' = IF k = 0 THEN GroupIds ELSE GroupIds \cup {g}
    <2>1. CASE k = 0
      BY <1>3, <2>1 DEF GroupIds
    <2>2. CASE k # 0
      <3>1. GroupIds' = 1..g
        BY <1>3, <2>2 DEF GroupIds
      <3>2. 1..g = 1..Len(groups) \cup {g}
        BY <1>1, <1>2
      <3> QED BY <1>2, <2>2, <3>1, <3>2
    <2> QED BY <2>1, <2>2
  <1> DEFINE x == [owner |-> a, name |-> nm, target |-> g]
             y == [owner |-> g, name |-> <<"parent", 1>>, target |-> a]
  <1>5. /\ x \in Dest /\ x.owner = a /\ x.name = nm /\ x.target = g
        /\ y \in Dest /\ y.owner = g /\ y.target = a
    <2>1. a \in 1..MaxGroups
      BY <1>2, BoundsAssumption
    <2>2. <<"parent", 1>> \in StoredNames
      BY DEF StoredNames
    <2> QED BY <1>2, <2>1, <2>2 DEF Dest
  <1>6. dests' = dests \cup (IF k >= 3 THEN {x} ELSE {}) \cup (IF k >= 4 THEN {y} ELSE {})
    BY <1>1, <1>0 DEF Written
  <1> HIDE DEF x, y
  <1>7. /\ \A d \in dests' : d \in dests \/ (k >= 3 /\ d = x) \/ (k >= 4 /\ d = y)
        /\ dests \subseteq dests' /\ (k >= 3 => x \in dests') /\ (k >= 4 => y \in dests')
        /\ dests' \in SUBSET Dest /\ IsFiniteSet(dests')
    <2>1. dests \in SUBSET Dest /\ IsFiniteSet(dests)
      BY DEF World, WorldTypes
    <2>2. IsFiniteSet(dests \cup {x}) /\ IsFiniteSet((dests \cup {x}) \cup {y})
          /\ IsFiniteSet(dests \cup {y})
      BY <2>1, FS_AddElement
    <2>3. CASE k >= 4
      BY <1>5, <1>6, <2>1, <2>2, <2>3
    <2>4. CASE k = 3
      BY <1>5, <1>6, <2>1, <2>2, <2>4
    <2>5. CASE k < 3
      BY <1>5, <1>6, <2>1, <2>2, <2>5
    <2> QED BY <2>3, <2>4, <2>5
  <1>8. /\ sessions' \in Seq(Session) /\ Len(sessions') = Len(sessions)
        /\ DOMAIN sessions' = DOMAIN sessions
        /\ \A i \in DOMAIN sessions :
              /\ sessions'[i].agent = sessions[i].agent
              /\ sessions'[i].running => sessions[i].running
        /\ \A i \in DOMAIN sessions \ {s} :
              sessions'[i].proj = sessions[i].proj /\ sessions'[i].mail = sessions[i].mail
        /\ sessions'[s].proj = IF k >= 5 THEN Own(dests', a) ELSE sessions[s].proj
        /\ sessions'[s].mail = IF k >= 6 THEN sessions[s].mail \cup {<<"created", nm>>}
                               ELSE sessions[s].mail
    <2>1. PICK z :
             /\ sessions' = [ss EXCEPT ![s] = z]
             /\ z.agent = ss[s].agent /\ z.running = ss[s].running
             /\ z.proj = IF k >= 5 THEN Own(dests', a) ELSE sessions[s].proj
             /\ z.mail = IF k >= 6 THEN sessions[s].mail \cup {<<"created", nm>>}
                         ELSE sessions[s].mail
             /\ z.proj \in SUBSET Dest /\ z.mail \in SUBSET Note => z \in Session
      BY <1>1, <1>0 DEF Written
    <2>3. /\ DOMAIN ss = 1..Len(ss) /\ DOMAIN sessions = 1..Len(sessions)
          /\ Len(ss) \in Nat /\ Len(sessions) \in Nat
          /\ \A i \in DOMAIN ss : ss[i] \in Session /\ sessions[i] \in Session
      BY LenProperties, ElementOfSeq, Indices
    <2>4. z.proj \in SUBSET Dest /\ z.mail \in SUBSET Note
      <3>1. sessions[s].proj \in SUBSET Dest /\ sessions[s].mail \in SUBSET Note
        BY <1>2, <2>3 DEF Session
      <3>2. Own(dests', a) \in SUBSET Dest
        BY <1>7 DEF Own
      <3>3. <<"created", nm>> \in Note
        BY <1>2 DEF Note
      <3> QED BY <2>1, <3>1, <3>2, <3>3
    <2>5. z \in Session
      BY <2>1, <2>4
    <2>6. /\ sessions' \in Seq(Session) /\ Len(sessions') = Len(ss)
          /\ \A i \in 1..Len(ss) : sessions'[i] = IF i = s THEN z ELSE ss[i]
      BY <1>2, <2>1, <2>3, <2>5, ExceptSeq
    <2>7. DOMAIN sessions' = 1..Len(sessions')
      BY <2>6, LenProperties
    <2> QED BY <1>2, <2>1, <2>3, <2>5, <2>6, <2>7
  <1>9. Kept
    <2>1. \A d \in dests' \ dests : ~(d.owner \in GroupIds /\ d.target \in GroupIds)
      BY <1>2, <1>5, <1>7
    <2>2. MailGrows
      <3>1. \A i \in DOMAIN sessions : \A q :
               <<"text", q>> \in sessions'[i].mail => <<"text", q>> \in sessions[i].mail
        <4>1. \A q : <<"text", q>> # <<"created", nm>>
          OBVIOUS
        <4> QED BY <1>8, <4>1
      <3> QED BY <1>8, <3>1 DEF MailGrows
    <2>3. Len(groups) <= Len(groups')
      BY <1>1, <1>2, <1>3
    <2> QED BY <1>2, <1>3, <1>7, <1>8, <2>1, <2>2, <2>3, Indices DEF Kept
  <1>10. WorldTypes'
    <2>1. \A d \in dests' : d.owner \in GroupIds' /\ d.target \in GroupIds' \cup Chats
      BY <1>2, <1>4, <1>5, <1>7 DEF World, WorldTypes
    <2>2. \A i \in DOMAIN sessions' : sessions'[i].agent \in GroupIds'
      BY <1>4, <1>8, Indices
    <2>3. Len(groups') \in 1..MaxGroups
      BY <1>2, <1>3
    <2> QED BY <1>3, <1>7, <1>8, <2>1, <2>2, <2>3 DEF WorldTypes
  <1>11. KeysInv'
    <2>1. \A i, h \in GroupIds' : groups'[i].folder = groups'[h].folder => i = h
      <3>1. \A i, h \in GroupIds : groups'[i].folder = groups'[h].folder => i = h
        BY <1>3 DEF World, KeysInv
      <3>2. k >= 1 => \A i \in GroupIds : groups'[i].folder # groups'[g].folder
        BY <1>3
      <3> QED BY <1>4, <3>1, <3>2
    <2>2. \A d, e \in dests' : d.owner = e.owner /\ d.name = e.name => d = e
      <3>1. \A d \in dests : d.owner \in GroupIds
        BY DEF World, WorldTypes
      <3> QED BY <1>2, <1>5, <1>7, <3>1 DEF World, KeysInv
    <2> QED BY <2>1, <2>2 DEF KeysInv
  <1>12. FilesInv'
    BY <1>3, <1>8, Indices DEF World, FilesInv
  <1>13. ProjInv'
    <2> SUFFICES ASSUME NEW i \in DOMAIN sessions, NEW d \in sessions'[i].proj
                 PROVE  d \in dests' /\ d.owner = sessions[i].agent
      BY <1>8 DEF ProjInv, Own
    <2>1. CASE d \in sessions[i].proj
      BY <1>7, <2>1 DEF World, ProjInv, Own
    <2>2. CASE d \notin sessions[i].proj
      <3>1. i = s /\ d \in Own(dests', a)
        BY <1>8, <2>2
      <3> QED BY <1>1, <3>1 DEF Own
    <2> QED BY <2>1, <2>2
  <1>14. NamedChildrenAreWhole'
    <2> SUFFICES ASSUME NEW d \in dests', d.target \in GroupIds'
                 PROVE  groups'[d.target].files
      BY DEF NamedChildrenAreWhole
    <2>1. CASE d \in dests
      <3>1. d.target \in GroupIds \cup Chats
        BY <2>1 DEF World, WorldTypes
      <3>2. d.target \in GroupIds
        BY <1>2, <1>4, <3>1, ChatsAssumption
      <3> QED BY <1>3, <2>1, <3>2 DEF World, NamedChildrenAreWhole
    <2>2. CASE k >= 3 /\ d = x
      BY <1>3, <1>5, <2>2
    <2>3. CASE k >= 4 /\ d = y
      BY <1>2, <1>3, <1>5, <2>3
    <2> QED BY <1>7, <2>1, <2>2, <2>3
  <1>15. CreatedIsTwoWay'
    <2> SUFFICES ASSUME NEW i \in DOMAIN sessions, NEW name \in LocalNames,
                        <<"created", name>> \in sessions'[i].mail
                 PROVE  \E d \in sessions'[i].proj :
                           /\ d.name = name /\ d \in dests'
                           /\ \E e \in dests' : e.owner = d.target /\ e.target = sessions'[i].agent
      BY <1>8 DEF CreatedIsTwoWay, Reaches
    <2>1. CASE <<"created", name>> \in sessions[i].mail
      <3>1. sessions[i].proj \subseteq sessions'[i].proj
        <4>1. CASE i = s /\ k >= 5
          BY <1>1, <1>7, <1>8, <4>1 DEF World, ProjInv, Own
        <4>2. CASE ~(i = s /\ k >= 5)
          BY <1>8, <4>2
        <4> QED BY <4>1, <4>2
      <3> QED BY <1>9, <2>1, <3>1, AnnouncedStays
    <2>2. CASE <<"created", name>> \notin sessions[i].mail
      <3>1. i = s /\ k >= 6 /\ <<"created", name>> \in {<<"created", nm>>}
        BY <1>8, <2>2
      <3>2. name = nm
        BY <3>1
      <3>3. x \in sessions'[i].proj /\ x \in dests' /\ y \in dests'
        BY <1>5, <1>7, <1>8, <3>1 DEF Own
      <3>4. y.owner = x.target /\ y.target = sessions'[i].agent /\ x.name = name
        BY <1>1, <1>2, <1>5, <1>8, <3>1, <3>2
      <3> QED BY <3>3, <3>4
    <2> QED BY <2>1, <2>2
  <1> QED BY <1>9, <1>10, <1>11, <1>12, <1>13, <1>14, <1>15 DEF World

-----------------------------------------------------------------------------
(* The actions.                                                            *)

\* An agent writes a row for a name it knows or for an agent to be, or it answers.
LEMMA WritesStep ==
    ASSUME IInv, NEW s \in DOMAIN sessions, NEW kind \in {"create", "send"},
           NEW name \in StoredNames \cup {NoName}, NEW target \in Nat, Writes(s, kind, name, target),
           kind = "create" => name \in StoredNames,
           kind = "send" => /\ target \in GroupIds
                            /\ \/ Allowed(sessions[s].agent, target)
                               \/ name = NoName /\ Reaches(target, sessions[s].agent)
    PROVE  IInv' /\ Kept
  <1> USE DEF IInv
  <1> DEFINE row == [kind |-> kind, name |-> name, target |-> target, from |-> s, state |-> "due"]
  <1>1. /\ rows' = Append(rows, row) /\ Len(rows) < MaxRows /\ sessions[s].running
        /\ UNCHANGED <<groups, dests, sessions, tries, faults>>
    BY DEF Writes
  <1>2. World' /\ Kept
    <2>1. sessions \in Seq(Session) /\ Len(sessions) <= Len(sessions)
      BY Indices DEF World, WorldTypes
    <2>2. MailGrows
      BY <1>1 DEF MailGrows
    <2> QED BY <1>1, <2>1, <2>2, SessionsStep
  <1>3. row \in Row
    <2>1. s \in Nat
      BY Indices
    <2> QED BY <2>1 DEF Row
  <1>4. /\ row.from = s /\ row.kind = kind /\ row.target = target /\ row.state = "due"
        /\ row.name = name
    OBVIOUS
  <1> HIDE DEF row
  <1>5. RowOk(row)
    BY <1>1, <1>4 DEF RowOk, World, FilesInv
  <1>6. /\ rows \in Seq(Row) /\ Len(rows) \in Nat /\ DOMAIN rows = 1..Len(rows)
        /\ \A i \in DOMAIN rows : rows[i] \in Row /\ RowOk(rows[i])
    BY Places
  <1>7. /\ rows' \in Seq(Row) /\ Len(rows') = Len(rows) + 1
        /\ \A i \in 1..Len(rows) : rows'[i] = rows[i]
        /\ rows'[Len(rows) + 1] = row
    BY <1>1, <1>3, <1>6, AppendProperties
  <1>8. DOMAIN rows' = 1..(Len(rows) + 1)
    BY <1>7, LenProperties
  <1>9. /\ \A i \in DOMAIN rows' : rows'[i] = row \/ (i \in DOMAIN rows /\ rows'[i] = rows[i])
        /\ \A i \in DOMAIN rows : i \in DOMAIN rows' /\ rows'[i] = rows[i]
    BY <1>6, <1>7, <1>8
  <1>10. RowInv'
    <2> SUFFICES ASSUME NEW i \in DOMAIN rows' PROVE RowOk(rows'[i])
      BY <1>1 DEF RowInv, RowOk, GroupIds, Allowed, Reaches
    <2> QED BY <1>5, <1>6, <1>9
  <1>11. MailInv'
    BY <1>2, <1>9, MailStays
  <1>12. \A i \in 1..MaxRows : tries'[i] <= faults' \/ (i \in DOMAIN rows' /\ Refused(rows[i])')
    BY <1>1, <1>9 DEF Ledger, Refused, OneWay, Reaches
  <1>13. Len(rows') <= MaxRows
    BY <1>1, <1>6, <1>7, BoundsAssumption
  <1>14. NothingIsRefused => NothingIsRefused'
    BY <1>1, <1>4, <1>9 DEF NothingIsRefused, OneWay, Reaches
  <1> QED BY <1>1, <1>2, <1>7, <1>10, <1>11, <1>12, <1>13, <1>14 DEF Ledger

\* What the agents and the operator do.
LEMMA AgentKeeps ==
    ASSUME IInv, NEW s \in DOMAIN sessions,
           Spawn(s) \/ Exit(s) \/ RequestAgent(s) \/ SendTo(s) \/ Reply(s)
    PROVE  IInv' /\ Kept
  <1> USE DEF IInv
  <1>1. CASE Spawn(s)
    BY <1>1, SpawnStep, LedgerIdle DEF Spawn
  <1>2. CASE Exit(s)
    <2>1. World' /\ Kept
      BY <1>2, OneQuietSession DEF Exit
    <2> QED BY <1>2, <2>1, LedgerIdle DEF Exit
  <1>3. CASE RequestAgent(s)
    <2>1. PICK base \in Names : Writes(s, "create", <<base, 1>>, 0)
      BY <1>3 DEF RequestAgent
    <2>2. <<base, 1>> \in StoredNames
      BY DEF StoredNames
    <2> QED BY <2>1, <2>2, WritesStep
  <1>4. CASE SendTo(s)
    <2>1. PICK d \in sessions[s].proj : d.target \in GroupIds /\ Writes(s, "send", d.name, d.target)
      BY <1>4 DEF SendTo
    <2>2. d \in dests /\ d.owner = sessions[s].agent
      BY <2>1 DEF World, ProjInv, Own
    <2>3. d.name \in StoredNames /\ d.target \in Nat
      BY <2>1, <2>2, Indices DEF World, WorldTypes, Dest
    <2>4. Reaches(sessions[s].agent, d.target)
      BY <2>2 DEF Reaches
    <2> QED BY <2>1, <2>3, <2>4, WritesStep DEF Allowed
  <1>5. CASE Reply(s)
    <2>1. PICK m \in sessions[s].mail : Writes(s, "send", NoName, ReturnAddress(s, m))
      BY <1>5 DEF Reply
    <2>2. /\ ReturnAddress(s, m) \in GroupIds
          /\ \/ Allowed(sessions[s].agent, ReturnAddress(s, m))
             \/ Reaches(ReturnAddress(s, m), sessions[s].agent)
      <3>1. CASE m[1] = "text"
        <4>1. PICK r : m = <<"text", r>>
          <5>1. m \in Note
            BY <2>1, Indices DEF Session
          <5> QED BY <3>1, <5>1 DEF Note
        <4>2. r \in DOMAIN rows /\ Allowed(sessions[rows[r].from].agent, sessions[s].agent)
          BY <2>1, <4>1 DEF Ledger, MailInv
        <4>3. ReturnAddress(s, m) = sessions[rows[r].from].agent
          BY <4>1 DEF ReturnAddress
        <4>4. sessions[rows[r].from].agent \in GroupIds
          BY <4>2, Places, Indices DEF RowOk
        <4> QED BY <4>2, <4>3, <4>4 DEF Allowed
      <3>2. CASE m[1] # "text"
        BY <3>2, Indices DEF ReturnAddress, Allowed
      <3> QED BY <3>1, <3>2
    <2>3. ReturnAddress(s, m) \in Nat
      BY <2>2, Indices
    <2> QED BY <2>1, <2>2, <2>3, WritesStep
  <1> QED BY <1>1, <1>2, <1>3, <1>4, <1>5

\* A request for an agent, whether its handler ends, throws or dies.
LEMMA CreateKeeps ==
    ASSUME IInv, NEW r \in DOMAIN rows,
           CreateAgent(r) \/ CreateAgentThrows(r) \/ CreateAgentDies(r) \/ CreateRefused(r)
    PROVE  IInv' /\ Kept
  <1> USE DEF IInv
  <1>0. /\ sessions \in Seq(Session) /\ Len(CreateSteps) = 6
        /\ rows[r].from \in DOMAIN sessions /\ rows[r].name \in StoredNames
    <2>1. rows[r].kind = "create" /\ RowOk(rows[r])
      BY Places DEF CreateAgent, CreateAgentThrows, CreateAgentDies, CreateRefused, Creates, Due
    <2> QED BY <2>1 DEF World, WorldTypes, CreateSteps, RowOk
  <1>1. CASE CreateAgent(r)
    <2>1. Creates(r) /\ CreateUpTo(sessions, r, 6) /\ Done(r)
      BY <1>0, <1>1 DEF CreateAgent
    <2>2. World' /\ Kept
      BY <1>0, <2>1, CreateStep
    <2> QED BY <2>1, <2>2, LedgerStep
  <1>2. CASE CreateAgentThrows(r)
    <2>1. PICK k \in 0..6 : Creates(r) /\ CreateUpTo(sessions, r, k)
      BY <1>0, <1>2 DEF CreateAgentThrows
    <2>2. World' /\ Kept
      BY <1>0, <2>1, CreateStep
    <2> QED BY <1>2, <2>2, LedgerStep DEF CreateAgentThrows
  <1>3. CASE CreateAgentDies(r)
    <2>1. PICK k \in 0..6 : Creates(r) /\ CreateUpTo(Stopped(sessions), r, k)
      BY <1>0, <1>3 DEF CreateAgentDies
    <2>2. PICK ss \in Seq(Session) : ss = Stopped(sessions)
      BY <1>0, StoppedSessions
    <2>3. /\ Len(ss) = Len(sessions) /\ DOMAIN ss = DOMAIN sessions
          /\ \A i \in DOMAIN sessions : /\ ss[i].agent = sessions[i].agent
                                        /\ ss[i].proj = sessions[i].proj
                                        /\ ss[i].mail = sessions[i].mail
                                        /\ ss[i].running => sessions[i].running
      BY <1>0, <2>2, StoppedSessions
    <2>4. World' /\ Kept
      BY <2>1, <2>2, <2>3, CreateStep
    <2> QED BY <1>3, <2>4, LedgerIdle DEF CreateAgentDies
  <1>4. CASE CreateRefused(r)
    <2>1. rows[r].name \in StoredNames
      BY <1>0
    <2>2. /\ Tells(rows[r].from, <<"exists", rows[r].name>>) /\ Done(r)
          /\ UNCHANGED <<groups, dests>>
      BY <1>4 DEF CreateRefused
    <2>3. World' /\ Kept
      BY <1>0, <2>1, <2>2, OneQuietSession
    <2> QED BY <2>2, <2>3, LedgerStep
  <1> QED BY <1>1, <1>2, <1>3, <1>4

\* A message for an agent, whether its handler ends, refuses it, throws or dies.
LEMMA RouteKeeps ==
    ASSUME IInv, NEW r \in DOMAIN rows,
           Route(r) \/ RouteRefused(r) \/ RouteThrows(r) \/ RouteDies(r)
    PROVE  IInv' /\ Kept
  <1> USE DEF IInv
  <1>1. /\ r \in 1..MaxRows /\ rows[r].target \in GroupIds
        /\ \/ Allowed(sessions[rows[r].from].agent, rows[r].target)
           \/ rows[r].name = NoName /\ Reaches(rows[r].target, sessions[rows[r].from].agent)
    <2>1. rows[r].kind = "send"
      BY DEF Route, RouteRefused, RouteThrows, RouteDies, Due
    <2> QED BY <2>1, Places DEF RowOk
  <1>2. CASE Route(r)
    <2>1. World' /\ Kept
      BY <1>1, <1>2, PostStep DEF Route
    <2> QED BY <1>2, <2>1, LedgerStep DEF Route
  <1>3. CASE RouteRefused(r)
    <2>1. Refused(rows[r])
      BY <1>1, <1>3 DEF RouteRefused, Refused, OneWay, Allowed
    <2>2. UNCHANGED <<groups, dests, sessions>>
      BY <1>3 DEF RouteRefused
    <2>3. World' /\ Kept
      <3>1. sessions \in Seq(Session) /\ Len(sessions) <= Len(sessions)
        BY Indices DEF World, WorldTypes
      <3>2. MailGrows
        BY <2>2 DEF MailGrows
      <3> QED BY <2>2, <3>1, <3>2, SessionsStep
    <2> QED BY <1>3, <2>1, <2>3, LedgerStep DEF RouteRefused
  <1>4. CASE RouteThrows(r)
    <2>1. World' /\ Kept
      BY <1>1, <1>4, PostStep DEF RouteThrows
    <2> QED BY <1>4, <2>1, LedgerStep DEF RouteThrows
  <1>5. CASE RouteDies(r)
    <2>1. World' /\ Kept
      BY <1>1, <1>5, PostStep DEF RouteDies
    <2> QED BY <1>5, <2>1, LedgerIdle DEF RouteDies
  <1> QED BY <1>2, <1>3, <1>4, <1>5

\* An installed agent with two sessions and no destinations.
LEMMA IInvInit == Init => IInv
  <1> SUFFICES ASSUME Init PROVE IInv
    OBVIOUS
  <1>1. /\ groups = <<[folder |-> <<"main", 1>>, files |-> TRUE]>> /\ dests = {}
        /\ sessions = <<NewSession(1), NewSession(1)>> /\ rows = <<>>
        /\ tries = [r \in 1..MaxRows |-> 0] /\ faults = 0
    BY DEF Init
  <1>2. NewSession(1) \in Session /\ NewSession(1).agent = 1 /\ ~NewSession(1).running
        /\ NewSession(1).proj = {} /\ NewSession(1).mail = {}
    BY BoundsAssumption DEF NewSession, Session
  <1>3. [folder |-> <<"main", 1>>, files |-> TRUE] \in Group
    BY DEF Group, StoredNames
  <1>4. groups \in Seq(Group) /\ Len(groups) = 1 /\ GroupIds = {1}
    BY <1>1, <1>3 DEF GroupIds
  <1>5. sessions \in Seq(Session) /\ Len(sessions) = 2 /\ DOMAIN sessions = {1, 2}
        /\ \A s \in DOMAIN sessions : sessions[s] = NewSession(1)
    BY <1>1, <1>2
  <1>6. IsFiniteSet(dests)
    BY <1>1, FS_EmptySet
  <1>7. WorldTypes
    BY <1>1, <1>2, <1>4, <1>5, <1>6, BoundsAssumption DEF WorldTypes
  <1>8. KeysInv /\ FilesInv /\ ProjInv /\ NamedChildrenAreWhole /\ CreatedIsTwoWay
    BY <1>1, <1>2, <1>4, <1>5 DEF KeysInv, FilesInv, ProjInv, NamedChildrenAreWhole, CreatedIsTwoWay
  <1>9. Ledger
    <2>1. rows \in Seq(Row) /\ Len(rows) = 0 /\ DOMAIN rows = {}
      BY <1>1, EmptySeq
    <2> QED BY <1>1, <2>1, <1>2, <1>5, BoundsAssumption
            DEF Ledger, RowInv, MailInv, NothingIsRefused
  <1> QED BY <1>7, <1>8, <1>9 DEF IInv, World

\* Every step keeps the invariant, and takes nothing back.
LEMMA IInvStep == IInv /\ [Next]_vars => IInv' /\ Kept
  <1> SUFFICES ASSUME IInv, [Next]_vars PROVE IInv' /\ Kept
    OBVIOUS
  <1>1. ASSUME NEW s \in DOMAIN sessions,
               Spawn(s) \/ Exit(s) \/ RequestAgent(s) \/ SendTo(s) \/ Reply(s)
        PROVE  IInv' /\ Kept
    BY <1>1, AgentKeeps
  <1>2. ASSUME NEW c \in Chats, WireChat(c) PROVE IInv' /\ Kept
    <2>1. World' /\ Kept
      BY <1>2, WireStep DEF IInv
    <2> QED BY <1>2, <2>1, LedgerIdle DEF IInv, WireChat
  <1>3. ASSUME NEW r \in DOMAIN rows,
               CreateAgent(r) \/ CreateAgentThrows(r) \/ CreateAgentDies(r) \/ CreateRefused(r)
        PROVE  IInv' /\ Kept
    BY <1>3, CreateKeeps
  <1>4. ASSUME NEW r \in DOMAIN rows,
               Route(r) \/ RouteRefused(r) \/ RouteThrows(r) \/ RouteDies(r)
        PROVE  IInv' /\ Kept
    BY <1>4, RouteKeeps
  <1>5. ASSUME HostDies PROVE IInv' /\ Kept
    <2>1. World' /\ Kept
      BY <1>5, StopStep DEF IInv, HostDies
    <2> QED BY <1>5, <2>1, LedgerIdle DEF IInv, HostDies
  <1>6. ASSUME UNCHANGED vars PROVE IInv' /\ Kept
    <2>1. UNCHANGED <<groups, dests, sessions, rows, tries, faults>>
      BY <1>6 DEF vars
    <2>2. World' /\ Kept
      <3>1. sessions \in Seq(Session) /\ Len(sessions) <= Len(sessions)
        BY Indices DEF IInv, World, WorldTypes
      <3>2. MailGrows
        BY <2>1 DEF MailGrows
      <3> QED BY <2>1, <3>1, <3>2, SessionsStep DEF IInv
    <2> QED BY <2>1, <2>2, LedgerIdle DEF IInv
  <1> QED BY <1>1, <1>2, <1>3, <1>4, <1>5, <1>6 DEF Next

\* The invariant holds in every reachable state.
THEOREM Invariance == Spec => []IInv
  <1>1. IInv /\ [Next]_vars => IInv'
    BY IInvStep
  <1> QED BY <1>1, IInvInit, PTL DEF Spec

\* The tables' keys hold, whatever handlers throw or die: no agent has two
\* destinations of one name and no two agent groups share a folder
\* (handleCreateAgent and createMessagingGroupAgent look for a free name).
THEOREM TypeCorrect == Spec => []TypeOK
  <1>1. IInv => TypeOK
    <2> SUFFICES ASSUME IInv PROVE TypeOK
      OBVIOUS
    <2>1. rows \in Seq(Row) /\ Len(rows) \in 0..MaxRows /\ DOMAIN rows = 1..Len(rows)
      BY LenProperties, BoundsAssumption DEF IInv, Ledger
    <2>2. \A r \in DOMAIN rows : rows[r].state \in {"due", "done", "failed"}
      <3> SUFFICES ASSUME NEW r \in DOMAIN rows PROVE rows[r].state \in {"due", "done", "failed"}
        OBVIOUS
      <3>1. rows[r] \in Row
        BY <2>1, ElementOfSeq
      <3> QED BY <3>1 DEF Row
    <2> QED BY <2>1, <2>2 DEF IInv, World, WorldTypes, KeysInv, Ledger, TypeOK
  <1> QED BY <1>1, Invariance, PTL

\* Nobody can write to an agent group whose files are not set up (initGroupFilesystem
\* comes before the destination in handleCreateAgent).
THEOREM ReachableAgentsAreWhole == Spec => []NamedChildrenAreWhole
  <1>1. IInv => NamedChildrenAreWhole
    BY DEF IInv, World
  <1> QED BY <1>1, Invariance, PTL

\* An agent that was announced is known to the session it was announced to, and
\* can write back.
THEOREM AnnouncedAgentsAnswer == Spec => []CreatedIsTwoWay
  <1>1. IInv => CreatedIsTwoWay
    BY DEF IInv, World
  <1> QED BY <1>1, Invariance, PTL

\* Where there are fewer faults than attempts no row with a name is given up: the
\* host allows whatever a container may look up (routeAgentMessage).  An answer,
\* which is addressed by the message it answers (dispatchResultText), is given up
\* only by an agent whose destination for its creator was never written.
THEOREM NothingRefused ==
    ASSUME MaxFaults < MaxAttempts
    PROVE  Spec => []NothingIsRefused
  <1>1. IInv => NothingIsRefused
    BY DEF IInv, Ledger
  <1> QED BY <1>1, Invariance, PTL

\* A container's copy of its destinations may be old but is never wrong: each of
\* its names means to the host what it means to the container (writeDestinations
\* copies, createDestination only adds, and nothing calls deleteDestination).
THEOREM StaleNamesAreTrue == Spec => []ProjInv
  <1>1. IInv => ProjInv
    BY DEF IInv, World
  <1> QED BY <1>1, Invariance, PTL

\* A name an agent has for somebody never comes to mean somebody else.
NamesAreForGood ==
    [][\A d \in dests, e \in dests' : d.owner = e.owner /\ d.name = e.name => d = e]_vars

\* What an agent has learned to call somebody stays true through handlers that are
\* cut off and repeated: a new destination gets a name that is free (handleCreateAgent
\* and createMessagingGroupAgent look for one before they write it).
THEOREM NamesStay == Spec => NamesAreForGood
  <1>1. IInv /\ [Next]_vars =>
          \A d \in dests, e \in dests' : d.owner = e.owner /\ d.name = e.name => d = e
    BY IInvStep DEF Kept, IInv, World, KeysInv
  <1> QED BY <1>1, Invariance, PTL DEF Spec, NamesAreForGood

-----------------------------------------------------------------------------
(* What agents write to each other and ask of the host is in the outbox.   *)

\* A state as OutboxContract names it.
StateOf(state) ==
    CASE state = "due" -> "none" [] state = "done" -> "delivered" [] OTHER -> "failed"

Outcome ==
    [r \in 1..MaxRows |-> IF r \in DOMAIN rows THEN StateOf(rows[r].state) ELSE "unwritten"]

\* No platform ever sees these rows: routing or a handler takes the place of the
\* sending.
Outbox == INSTANCE OutboxContract WITH
    Rows <- 1..MaxRows, outcome <- Outcome, sends <- [r \in 1..MaxRows |-> 0]

\* The rows are numbered by their place.
LEMMA RowPlaces ==
    ASSUME IInv
    PROVE  /\ rows \in Seq(Row) /\ Len(rows) \in 0..MaxRows /\ DOMAIN rows = 1..Len(rows)
           /\ \A r \in DOMAIN rows : rows[r] \in Row
  <1>1. rows \in Seq(Row) /\ Len(rows) <= MaxRows
    BY DEF IInv, Ledger
  <1> QED BY <1>1, LenProperties, ElementOfSeq, BoundsAssumption

\* A row that is appended was not written before.
LEMMA WriteIsWrite ==
    ASSUME IInv, NEW s, NEW kind, NEW name, NEW target, Writes(s, kind, name, target), IInv'
    PROVE  Outbox!Next
  <1> DEFINE row == [kind |-> kind, name |-> name, target |-> target, from |-> s, state |-> "due"]
             n == Len(rows) + 1
  <1>1. rows' = Append(rows, row) /\ Len(rows) < MaxRows
    BY DEF Writes
  <1>2. rows \in Seq(Row) /\ Len(rows) \in 0..MaxRows /\ DOMAIN rows = 1..Len(rows)
    BY RowPlaces
  <1>3. row.state = "due"
    OBVIOUS
  <1> HIDE DEF row
  <1>4. /\ DOMAIN rows' = 1..n /\ rows'[n] = row /\ \A r \in DOMAIN rows : rows'[r] = rows[r]
    BY <1>1, <1>2
  <1>5. n \in 1..MaxRows /\ DOMAIN rows' = DOMAIN rows \cup {n} /\ n \notin DOMAIN rows
    BY <1>1, <1>2, <1>4, BoundsAssumption
  <1>6. Outcome[n] = "unwritten" /\ Outcome' = [Outcome EXCEPT ![n] = "none"]
    <2>1. StateOf("due") = "none"
      BY DEF StateOf
    <2> HIDE DEF n
    <2> QED BY <1>3, <1>4, <1>5, <2>1 DEF Outcome
  <1> QED BY <1>5, <1>6 DEF Outbox!Write, Outbox!Next

\* A row that is marked was due, and only its outcome changes.
LEMMA MarkIsSettle ==
    ASSUME IInv, NEW r \in DOMAIN rows, rows[r].state = "due",
           NEW state \in {"done", "failed"}, Marked(r, state)
    PROVE  Outbox!Next
  <1>1. rows \in Seq(Row) /\ r \in 1..MaxRows /\ rows[r] \in Row
    BY RowPlaces, BoundsAssumption
  <1>2. DOMAIN rows' = DOMAIN rows
        /\ \A q \in DOMAIN rows : rows'[q].state = IF q = r THEN state ELSE rows[q].state
    BY <1>1 DEF Marked, Row
  <1>3. Outcome[r] = "none" /\ Outcome' = [Outcome EXCEPT ![r] = StateOf(state)]
    <2>1. StateOf("due") = "none"
      BY DEF StateOf
    <2> QED BY <1>1, <1>2, <2>1 DEF Outcome
  <1>4. StateOf(state) \in {"delivered", "failed"}
    BY DEF StateOf
  <1> QED BY <1>1, <1>3, <1>4 DEF Outbox!Settle, Outbox!Next

\* Every step writes a row, settles one, or leaves the outbox alone.
LEMMA OutboxStep == IInv /\ [Next]_vars => [Outbox!Next]_(Outbox!vars)
  <1> SUFFICES ASSUME IInv, [Next]_vars PROVE Outbox!Next \/ rows' = rows
    BY DEF Outbox!vars, Outcome
  <1>1. ASSUME NEW s \in DOMAIN sessions,
               Spawn(s) \/ Exit(s) \/ RequestAgent(s) \/ SendTo(s) \/ Reply(s)
        PROVE  Outbox!Next \/ rows' = rows
    <2>1. IInv'
      BY <1>1, AgentKeeps
    <2> QED BY <1>1, <2>1, WriteIsWrite DEF Spawn, Exit, RequestAgent, SendTo, Reply
  <1>2. ASSUME NEW r \in DOMAIN rows,
               \/ CreateAgent(r) \/ CreateAgentThrows(r) \/ CreateAgentDies(r)
               \/ CreateRefused(r)
               \/ Route(r) \/ RouteRefused(r) \/ RouteThrows(r) \/ RouteDies(r)
        PROVE  Outbox!Next \/ rows' = rows
    <2>1. rows[r].state = "due"
      BY <1>2 DEF CreateAgent, CreateAgentThrows, CreateAgentDies, Creates, CreateRefused,
                  Route, RouteRefused, RouteThrows, RouteDies, Due
    <2>2. \/ rows' = rows \/ Marked(r, "done") \/ Marked(r, "failed")
      BY <1>2 DEF CreateAgent, CreateAgentThrows, CreateAgentDies, CreateRefused, Route,
                  RouteRefused, RouteThrows, RouteDies, Done, Threw
    <2> QED BY <2>1, <2>2, MarkIsSettle
  <1>3. CASE (\E c \in Chats : WireChat(c)) \/ HostDies \/ UNCHANGED vars
    BY <1>3 DEF WireChat, HostDies, vars
  <1> QED BY <1>1, <1>2, <1>3 DEF Next

\* What agents write to each other, and their requests for new agents, keep what
\* outbound delivery promises: one outcome, for good, although a message may be
\* routed and a request handled again after it had its effect (drainSession).
THEOREM Implementation == Spec => Outbox!Spec
  <1>1. Init => Outbox!Init
    BY DEF Init, Outcome, Outbox!Init
  <1> QED BY <1>1, OutboxStep, Invariance, PTL DEF Spec, Outbox!Spec

=============================================================================
