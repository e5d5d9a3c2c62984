--------------------------- MODULE MessageNumbers ---------------------------
(***************************************************************************)
(* The seq numbers of one session.  The host numbers the rows of           *)
(* messages_in, the container's processes (its poll loop, and the MCP      *)
(* server the agent runs as a child process) those of messages_out, each   *)
(* with a few SQL statements that no transaction joins.  seq is the        *)
(* message id the agent sees in edit_message and add_reaction, which look  *)
(* it up in both tables, and the cursor the coda plugin reads its output   *)
(* by.                                                                     *)
(* The names of the specification begin with Numbers, so that it can be    *)
(* extended beside PluginServer, whose clients use that cursor.            *)
(***************************************************************************)
EXTENDS Naturals

CONSTANTS
    Writers,     \* the processes of the container that write outbound.db
    MaxSeq       \* bound on the numbers given out

ASSUME MaxSeqAssumption == MaxSeq \in Nat

VARIABLES
    inbound,     \* the seq numbers in messages_in
    outbound,    \* the seq numbers in messages_out
    coda,        \* those of them on the coda channel, which the plugin reads
    pc,          \* how far each writer is in writeMessageOut
    seen,        \* its maxOut
    next,        \* its nextSeq
    cursor,      \* the cursor the plugin sends with its next output request
    drained,     \* the rows the plugin was given
    racing       \* two writers have been in writeMessageOut at once

writerVars == <<pc, seen, next>>
numberVars == <<inbound, outbound, coda, writerVars, cursor, drained, racing>>

NumbersTypeOK ==
    /\ inbound \in SUBSET Nat
    /\ outbound \in SUBSET Nat
    /\ coda \in SUBSET outbound
    /\ pc \in [Writers -> {"idle", "reading", "ready"}]
    /\ seen \in [Writers -> Nat]
    /\ next \in [Writers -> Nat]
    /\ cursor \in Nat
    /\ drained \in SUBSET coda
    /\ racing \in BOOLEAN

NumbersInit ==
    /\ inbound = {} /\ outbound = {} /\ coda = {}
    /\ pc = [w \in Writers |-> "idle"]
    /\ seen = [w \in Writers |-> 0]
    /\ next = [w \in Writers |-> 0]
    /\ cursor = 0 /\ drained = {}
    /\ racing = FALSE

-----------------------------------------------------------------------------
\* COALESCE(MAX(seq), 0).
Top(S) == IF S = {} THEN 0 ELSE CHOOSE m \in S : \A n \in S : n <= m

NextEvenSeq(max) == IF max < 2 THEN 2 ELSE max + 2 - (max % 2)

\* Mutation: the next number, whatever its parity.
NextSeqAnyParity(max) == max + 1

NextOddSeq(max) == IF max % 2 = 0 THEN max + 1 ELSE max + 2

\* The host inserts a row: one synchronous read and insert of its own file.
InsertMessage ==
    /\ Top(inbound) < MaxSeq
    /\ inbound' = inbound \cup {NextEvenSeq(Top(inbound))}
    /\ UNCHANGED <<outbound, coda, writerVars, cursor, drained, racing>>

\* writeMessageOut reads the highest number of its own table ...
ReadOutbound(w) ==
    /\ pc[w] = "idle"
    /\ Top(outbound) < MaxSeq
    /\ seen' = [seen EXCEPT ![w] = Top(outbound)]
    /\ pc' = [pc EXCEPT ![w] = "reading"]
    /\ racing' = (racing \/ \E v \in Writers \ {w} : pc[v] # "idle")
    /\ UNCHANGED <<inbound, outbound, coda, next, cursor, drained>>

\* ... then of messages_in, and takes the next odd number above both ...
ReadInbound(w) ==
    /\ pc[w] = "reading"
    /\ LET max == IF seen[w] > Top(inbound) THEN seen[w] ELSE Top(inbound)
       IN  next' = [next EXCEPT ![w] = NextOddSeq(max)]
    /\ pc' = [pc EXCEPT ![w] = "ready"]
    /\ UNCHANGED <<inbound, outbound, coda, seen, cursor, drained, racing>>

\* ... and inserts the row under it, on the coda channel or another one.
InsertRow(w, toCoda) ==
    /\ pc[w] = "ready"
    /\ next[w] \notin outbound
    /\ outbound' = outbound \cup {next[w]}
    /\ coda' = IF toCoda THEN coda \cup {next[w]} ELSE coda
    /\ pc' = [pc EXCEPT ![w] = "idle"]
    /\ UNCHANGED <<inbound, seen, next, cursor, drained, racing>>

\* The UNIQUE column refuses a number another writer has used meanwhile.
InsertThrows(w) ==
    /\ pc[w] = "ready"
    /\ next[w] \in outbound
    /\ pc' = [pc EXCEPT ![w] = "idle"]
    /\ UNCHANGED <<inbound, outbound, coda, seen, next, cursor, drained, racing>>

\* The container dies with its writers.
ContainerDies ==
    /\ \E w \in Writers : pc[w] # "idle"
    /\ pc' = [w \in Writers |-> "idle"]
    /\ UNCHANGED <<inbound, outbound, coda, seen, next, cursor, drained, racing>>

\* Mutation: the rows of every channel are handed out.
OutputUnfiltered(since) ==
    LET rows == {s \in outbound : s > since} IN
    /\ rows # {}
    /\ drained' = drained \cup rows
    /\ cursor' = Top(rows)
    /\ UNCHANGED <<inbound, outbound, coda, writerVars, racing>>

\* Mutation: one row is handed out at a time, the cursor is the newest row's.
OutputPage(since) ==
    LET rows == {s \in coda : s > since} IN
    /\ rows # {}
    /\ drained' = drained \cup {CHOOSE s \in rows : \A r \in rows : s <= r}
    /\ cursor' = Top(rows)
    /\ UNCHANGED <<inbound, outbound, coda, writerVars, racing>>

\* The plugin's output request: the coda rows above its cursor, or all of them
\* when it sends none; it echoes the cursor of the last row from then on.
Output(since) ==
    LET rows == {s \in coda : s > since} IN
    /\ rows # {}
    /\ drained' = drained \cup rows
    /\ cursor' = Top(rows)
    /\ UNCHANGED <<inbound, outbound, coda, writerVars, racing>>

WriterStep(w) ==
    \/ ReadOutbound(w) \/ ReadInbound(w) \/ InsertThrows(w)
    \/ \E toCoda \in BOOLEAN : InsertRow(w, toCoda)

NumbersNext ==
    \/ InsertMessage
    \/ \E w \in Writers : WriterStep(w)
    \/ ContainerDies
    \/ \E since \in {0, cursor} : Output(since)

NumbersSpec == NumbersInit /\ [][NumbersNext]_numberVars

-----------------------------------------------------------------------------
\* No number names both a message received and a message sent: "edit message
\* #5" cannot resolve to the wrong row, whatever the two sides read when.
NumbersNeverClash == inbound \cap outbound = {}

\* The cursor loses nothing: every coda row at or below it was handed out.
NothingBehindCursor == \A s \in coda : s <= cursor => s \in drained

\* As long as no two writers of the container have raced, the numbers of
\* messages_out rise in the order of the inserts and the cursor loses nothing.
SerialWritesKeepTheCursor == ~racing => NothingBehindCursor

=============================================================================
