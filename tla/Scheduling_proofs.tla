------------------------- MODULE Scheduling_proofs --------------------------
(***************************************************************************)
(* Proofs about Scheduling, for any series, rows, commands and faults.     *)
(*                                                                         *)
(* What a sweep has listed stays finished until it gets to it, because no  *)
(* command reaches a finished row; a row that was given up is never taken  *)
(* up or acknowledged again, because that takes a dead container; and what *)
(* a command has found at rest stays at rest until a resume.               *)
(***************************************************************************)
EXTENDS Scheduling, FiniteSetTheorems, TLAPS

\* Rows that do not exist and rows that were given up are in nobody's hands.
WorkInv ==
    /\ ~alive => seen = {}
    /\ \A r \in Rows :
        /\ status[r] = "absent" => /\ ack[r] = "none" /\ r \notin seen
                                   /\ series[r] = NoSeries
        /\ status[r] = "failed" => /\ ack[r] # "completed" /\ r \notin seen
                                   /\ ack[r] = "processing" => ~alive

\* The lists a sweep and a drain have read are still true.
ListInv ==
    /\ todo \subseteq Finished
    /\ \A c \in drain : order[c] # NoOrder

\* The live rows of a series that goes on recur.
CronInv == \A s \in Series : \A r \in Live(s) : s \in ended \/ recur[r] = "cron"

\* A series that a cancel has stopped exists and has nothing open.
StopInv == \A s \in stopped : RowsOf(s) # {} /\ Open(s) = {}

\* A series on hold exists, and none of its rows is due, at work or finished.
HeldInv ==
    \A s \in Series : pausing[s] = "held" =>
        /\ RowsOf(s) # {}
        /\ \A r \in RowsOf(s) : status[r] # "pending" /\ r \notin Finished /\ ~Busy(r)

RowInv == CronInv /\ StopInv /\ HeldInv /\ SeriesForksOnlyByFault /\ NoSeriesIsLost

IInv == TypeOK /\ WorkInv /\ ListInv /\ RowInv

-----------------------------------------------------------------------------
(* Counting the open rows of a series.                                     *)

\* Rows are finite, so sets of them have a size, and a part is not larger.
LEMMA RowCount ==
    ASSUME NEW S \in SUBSET Rows, NEW T \in SUBSET S
    PROVE  /\ Cardinality(S) \in Nat /\ Cardinality(T) \in Nat
           /\ Cardinality(T) <= Cardinality(S)
  <1>1. IsFiniteSet(S)
    BY RowsAssumption, FS_Subset
  <1> QED BY <1>1, FS_Subset, FS_CardinalityType

\* One row more.
LEMMA RowAdded ==
    ASSUME NEW S \in SUBSET Rows, NEW n \in Rows
    PROVE  /\ Cardinality(S) \in Nat /\ Cardinality(S \cup {n}) \in Nat
           /\ Cardinality(S \cup {n}) <= Cardinality(S) + 1
  <1>1. IsFiniteSet(S) /\ Cardinality(S) \in Nat
    BY RowsAssumption, FS_Subset, FS_CardinalityType
  <1>2. Cardinality(S \cup {n}) = IF n \in S THEN Cardinality(S) ELSE Cardinality(S) + 1
    BY <1>1, FS_AddElement
  <1> QED BY <1>1, <1>2

\* One row goes and another one comes: not more than before.
LEMMA RowReplaced ==
    ASSUME NEW S \in SUBSET Rows, NEW r \in S, NEW n \in Rows
    PROVE  Cardinality((S \ {r}) \cup {n}) <= Cardinality(S)
  <1>1. IsFiniteSet(S) /\ Cardinality(S) \in Nat
    BY RowsAssumption, FS_Subset, FS_CardinalityType
  <1>2. Cardinality(S \ {r}) = Cardinality(S) - 1
    BY <1>1, FS_RemoveElement
  <1>3. Cardinality((S \ {r}) \cup {n}) <= Cardinality(S \ {r}) + 1
        /\ Cardinality((S \ {r}) \cup {n}) \in Nat /\ Cardinality(S \ {r}) \in Nat
    BY RowAdded
  <1> QED BY <1>1, <1>2, <1>3

\* What is open of a series is some of its rows.
LEMMA OpenRows == \A s \in Series : Open(s) \in SUBSET Rows /\ Open(s)' \in SUBSET Rows
  BY DEF Open, Live, RowsOf

\* While no series has more open rows, the bound on forks stays.
LEMMA ForkStep ==
    ASSUME IInv, faults' \in Nat, faults' >= faults, \A s \in Series : Open(s)' \subseteq Open(s)
    PROVE  SeriesForksOnlyByFault'
  <1> SUFFICES ASSUME NEW s \in Series PROVE Cardinality(Open(s)') <= 1 + faults'
    BY DEF SeriesForksOnlyByFault
  <1>1. Cardinality(Open(s)') <= Cardinality(Open(s)) /\ Cardinality(Open(s)) \in Nat
        /\ Cardinality(Open(s)') \in Nat
    BY RowCount, OpenRows
  <1>2. Cardinality(Open(s)) <= 1 + faults /\ faults \in Nat
    BY BoundsAssumption DEF IInv, RowInv, SeriesForksOnlyByFault, TypeOK
  <1> QED BY <1>1, <1>2

\* A step that leaves rows and history alone, and takes up no row on hold.
LEMMA RowsAlone ==
    ASSUME IInv, UNCHANGED <<rowVars, pastVars>>, faults' \in Nat, faults' >= faults,
           \A r \in Rows : Busy(r)' => Busy(r) \/ status[r] = "pending"
    PROVE  RowInv'
  <1>1. /\ \A s \in Series : RowsOf(s)' = RowsOf(s) /\ Live(s)' = Live(s) /\ Open(s)' = Open(s)
        /\ Finished' = Finished
    BY DEF rowVars, RowsOf, Live, Open, Finished
  <1>2. CronInv'
    BY <1>1 DEF IInv, RowInv, CronInv, rowVars, pastVars
  <1>3. StopInv'
    BY <1>1 DEF IInv, RowInv, TypeOK, StopInv, pastVars
  <1>4. HeldInv'
    BY <1>1 DEF IInv, RowInv, HeldInv, rowVars, pastVars, RowsOf
  <1>5. SeriesForksOnlyByFault'
    BY <1>1, ForkStep
  <1>6. NoSeriesIsLost'
    BY <1>1 DEF IInv, RowInv, NoSeriesIsLost, rowVars, pastVars
  <1> QED BY <1>2, <1>3, <1>4, <1>5, <1>6 DEF RowInv

-----------------------------------------------------------------------------
(* The action handlers.                                                    *)

\* What else happens when a handler's command is applied: nothing, or the host dies.
Around ==
    /\ ack' = ack /\ seen' \subseteq seen /\ (~alive' => seen' = {}) /\ (alive' => alive)
    /\ faults' \in 0..MaxFaults /\ faults' >= faults

RowTypes ==
    /\ series \in [Rows -> Series \cup {NoSeries}]
    /\ status \in [Rows -> {"absent", "pending", "paused", "completed", "failed"}]
    /\ recur \in [Rows -> Recurrences]
    /\ ended \in SUBSET Series /\ stopped \in SUBSET Series
    /\ pausing \in [Series -> {"no", "late", "held"}]

\* What a command, a sweep or a recurrence has to keep.
RowGoal == RowTypes' /\ WorkInv' /\ RowInv' /\ (\A r \in Finished : r \in Finished')

\* The first row of a series.
LEMMA ScheduleStep ==
    ASSUME IInv, Around, NEW o \in Orders, o.op = "schedule", Schedule(o)
    PROVE  RowGoal
  <1> USE DEF IInv, RowInv
  <1>0. o.series \in Series /\ o.recur \in Recurrences
    BY DEF Orders
  <1>1. PICK n \in Rows :
           /\ status[n] = "absent" /\ RowsOf(o.series) = {}
           /\ series' = [series EXCEPT ![n] = o.series]
           /\ status' = [status EXCEPT ![n] = "pending"]
           /\ recur' = [recur EXCEPT ![n] = o.recur]
           /\ ended' = IF o.recur = "cron" THEN ended ELSE ended \cup {o.series}
           /\ UNCHANGED <<stopped, pausing>>
    BY DEF Schedule, IsNextRow
  <1>2. series[n] = NoSeries /\ ack[n] = "none" /\ n \notin seen
    BY <1>1 DEF WorkInv
  <1>3. RowTypes'
    BY <1>0, <1>1 DEF RowTypes, TypeOK
  <1>4. \A s \in Series :
           /\ s # o.series => RowsOf(s)' = RowsOf(s) /\ Live(s)' = Live(s) /\ Open(s)' = Open(s)
           /\ s = o.series => RowsOf(s)' = {n} /\ Live(s)' = {n} /\ Open(s)' = {n}
    <2>1. \A s \in Series : RowsOf(s)' = IF s = o.series THEN {n} ELSE RowsOf(s)
      BY <1>0, <1>1, <1>2, SeriesAssumption DEF RowsOf, TypeOK
    <2>2. \A s \in Series : n \notin RowsOf(s)
      BY <1>2, SeriesAssumption DEF RowsOf
    <2>3. \A r \in Rows \ {n} : status'[r] = status[r] /\ recur'[r] = recur[r]
      BY <1>1 DEF TypeOK
    <2>4. status'[n] = "pending"
      BY <1>1 DEF TypeOK
    <2> QED BY <1>0, <2>1, <2>2, <2>3, <2>4 DEF Live, Open, Finished, RowsOf
  <1>5. WorkInv'
    BY <1>1, <1>2 DEF WorkInv, Around, TypeOK
  <1>6. \A r \in Finished : r \in Finished'
    BY <1>1 DEF Finished, TypeOK
  <1>7. CronInv'
    <2> SUFFICES ASSUME NEW s \in Series, NEW r \in Live(s)', s \notin ended'
                 PROVE  recur'[r] = "cron"
      BY DEF CronInv
    <2>1. CASE s = o.series
      BY <1>1, <1>4, <2>1 DEF TypeOK
    <2>2. CASE s # o.series
      <3>1. r \in Live(s) /\ r # n /\ s \notin ended /\ r \in Rows
        BY <1>1, <1>4, <2>2 DEF Live, RowsOf
      <3> QED BY <1>1, <3>1 DEF CronInv, TypeOK
    <2> QED BY <2>1, <2>2
  <1>8. StopInv'
    BY <1>1, <1>4 DEF StopInv, TypeOK
  <1>9. HeldInv'
    <2> SUFFICES ASSUME NEW s \in Series, pausing'[s] = "held"
                 PROVE  /\ RowsOf(s)' # {}
                        /\ \A r \in RowsOf(s)' : /\ status'[r] # "pending" /\ r \notin Finished'
                                                 /\ ~Busy(r)'
      BY DEF HeldInv
    <2>1. s # o.series /\ RowsOf(s)' = RowsOf(s)
      BY <1>1, <1>4 DEF HeldInv
    <2>2. \A r \in RowsOf(s) : r \in Rows /\ r # n
      BY <1>2, SeriesAssumption DEF RowsOf
    <2>3. \A r \in RowsOf(s) : status'[r] = status[r] /\ recur'[r] = recur[r]
      BY <1>1, <2>2 DEF TypeOK
    <2> QED BY <1>1, <2>1, <2>2, <2>3 DEF HeldInv, Around, Busy, Finished
  <1>10. SeriesForksOnlyByFault'
    <2> SUFFICES ASSUME NEW s \in Series PROVE Cardinality(Open(s)') <= 1 + faults'
      BY DEF SeriesForksOnlyByFault
    <2>1. faults \in Nat /\ faults' \in Nat /\ faults' >= faults
      BY BoundsAssumption DEF Around, TypeOK
    <2>2. CASE s = o.series
      BY <1>4, <2>1, <2>2, FS_Singleton
    <2>3. CASE s # o.series
      <3>1. Cardinality(Open(s)) \in Nat
        BY RowCount, OpenRows
      <3> QED BY <1>4, <2>1, <2>3, <3>1 DEF SeriesForksOnlyByFault
    <2> QED BY <2>2, <2>3
  <1>11. NoSeriesIsLost'
    <2> SUFFICES ASSUME NEW s \in Series, RowsOf(s)' # {}, s \notin ended', Open(s)' = {}
                 PROVE  \E r \in RowsOf(s)' : status'[r] = "failed"
      BY DEF NoSeriesIsLost
    <2>1. s # o.series /\ RowsOf(s)' = RowsOf(s) /\ Open(s) = {} /\ s \notin ended
      BY <1>1, <1>4
    <2>2. PICK r \in RowsOf(s) : status[r] = "failed"
      BY <2>1 DEF NoSeriesIsLost
    <2>3. status'[r] = "failed"
      BY <1>1, <2>2 DEF TypeOK, RowsOf
    <2> QED BY <2>1, <2>2, <2>3
  <1> QED BY <1>3, <1>5, <1>6, <1>7, <1>8, <1>9, <1>10, <1>11 DEF RowGoal

\* Only live rows are cancelled, and they lose their recurrence with it.
LEMMA CancelStep ==
    ASSUME IInv, Around, NEW o \in Orders, Cancel(o), o.series \in Series
    PROVE  RowGoal
  <1> USE DEF IInv, RowInv
  <1> DEFINE s0 == o.series
  <1>1. RowTypes'
    BY DEF Cancel, Mark, Recurrences, RowTypes, TypeOK
  <1>2. /\ series' = series /\ pausing' = pausing
        /\ \A r \in Live(s0) : status'[r] = "completed" /\ recur'[r] = "none"
        /\ \A r \in Rows \ Live(s0) : status'[r] = status[r] /\ recur'[r] = recur[r]
    BY DEF Cancel, Mark, Live, RowsOf
  <1>3. \A s \in Series :
          /\ RowsOf(s)' = RowsOf(s)
          /\ Live(s)' = Live(s) \ Live(s0)
          /\ Open(s)' \subseteq Open(s)
          /\ s # s0 => Open(s)' = Open(s)
    BY <1>2 DEF Live, Open, RowsOf, Finished
  <1>4. WorkInv'
    BY <1>2 DEF WorkInv, Around, Live
  <1>5. \A r \in Finished : r \in Finished'
    BY <1>2 DEF Finished, Live
  <1>6. CronInv'
    BY <1>2, <1>3 DEF CronInv, Cancel, Live, RowsOf
  <1>7. StopInv'
    <2> SUFFICES ASSUME NEW s \in stopped' PROVE RowsOf(s)' # {} /\ Open(s)' = {}
      BY DEF StopInv
    <2>0. s \in Series
      BY <1>1 DEF RowTypes
    <2>1. CASE s \in stopped
      BY <1>3, <2>0, <2>1 DEF StopInv
    <2>2. CASE s \notin stopped
      <3>1. s = s0 /\ Live(s0) # {} /\ RowsOf(s0) \cap Finished = {}
        BY <2>2 DEF Cancel
      <3>2. RowsOf(s) # {}
        BY <3>1 DEF Live
      <3>3. RowsOf(s0) \cap Finished' = {}
        BY <1>2, <3>1 DEF Finished
      <3> QED BY <1>3, <2>0, <3>1, <3>2, <3>3 DEF Open
    <2> QED BY <2>1, <2>2
  <1>8. HeldInv'
    BY <1>2, <1>3 DEF HeldInv, Around, Busy, Finished, RowsOf
  <1>9. SeriesForksOnlyByFault'
    BY <1>3, ForkStep, BoundsAssumption DEF Around
  <1>10. NoSeriesIsLost'
    <2> SUFFICES ASSUME NEW s \in Series, RowsOf(s)' # {}, s \notin ended', Open(s)' = {}
                 PROVE  \E r \in RowsOf(s)' : status'[r] = "failed"
      BY DEF NoSeriesIsLost
    <2>1. s \notin ended
      BY DEF Cancel
    <2>2. Open(s) = {}
      <3>1. CASE s = s0
        <4>1. Live(s0) = {}
          BY <3>1 DEF Cancel
        <4> QED BY <1>2, <1>3, <3>1, <4>1 DEF Open, Finished, RowsOf
      <3> QED BY <1>3, <3>1
    <2>3. PICK r \in RowsOf(s) : status[r] = "failed"
      BY <1>3, <2>1, <2>2 DEF NoSeriesIsLost
    <2> QED BY <1>2, <1>3, <2>3 DEF Live, RowsOf
  <1> QED BY <1>1, <1>4, <1>5, <1>6, <1>7, <1>8, <1>9, <1>10 DEF RowGoal

\* Pending and paused rows change places: what is open and what recurs stays.
LEMMA Swapped ==
    ASSUME IInv, Around, RowTypes',
           UNCHANGED <<series, recur, ended, stopped>>,
           \A r \in Rows : \/ status'[r] = status[r]
                           \/ {status[r], status'[r]} = {"pending", "paused"}
    PROVE  /\ WorkInv' /\ CronInv' /\ StopInv' /\ SeriesForksOnlyByFault' /\ NoSeriesIsLost'
           /\ Finished' = Finished /\ \A s \in Series : RowsOf(s)' = RowsOf(s)
  <1> USE DEF IInv, RowInv
  <1>1. \A r \in Rows :
          /\ status'[r] \in {"pending", "paused"} <=> status[r] \in {"pending", "paused"}
          /\ status'[r] \notin {"pending", "paused"} => status'[r] = status[r]
    OBVIOUS
  <1>2. /\ Finished' = Finished
        /\ \A s \in Series :
             RowsOf(s)' = RowsOf(s) /\ Live(s)' = Live(s) /\ Open(s)' = Open(s)
    BY <1>1 DEF Live, Open, RowsOf, Finished
  <1>3. WorkInv'
    BY <1>1 DEF WorkInv, Around
  <1>4. CronInv'
    BY <1>2 DEF CronInv
  <1>5. StopInv'
    BY <1>2 DEF StopInv, TypeOK
  <1>6. SeriesForksOnlyByFault'
    BY <1>2, ForkStep, BoundsAssumption DEF Around
  <1>7. NoSeriesIsLost'
    <2> SUFFICES ASSUME NEW s \in Series, RowsOf(s) # {}, s \notin ended, Open(s) = {}
                 PROVE  \E r \in RowsOf(s) : status'[r] = "failed"
      BY <1>2 DEF NoSeriesIsLost
    <2>1. PICK r \in RowsOf(s) : status[r] = "failed"
      BY DEF NoSeriesIsLost
    <2>2. status'[r] = "failed"
      BY <1>1, <2>1 DEF RowsOf
    <2> QED BY <2>1, <2>2
  <1> QED BY <1>2, <1>3, <1>4, <1>5, <1>6, <1>7

\* A pause holds a series that is at rest; any other one it only marks.
LEMMA PauseStep ==
    ASSUME IInv, Around, NEW o \in Orders, Pause(o), o.series \in Series
    PROVE  RowGoal
  <1> USE DEF IInv, RowInv
  <1> DEFINE s0 == o.series
             due == {r \in Live(s0) : status[r] = "pending"}
             late == RowsOf(s0) \cap Finished # {} \/ \E r \in RowsOf(s0) : Busy(r)
  <1>1. /\ status' = Mark(status, due, "paused")
        /\ pausing' = IF due = {} THEN pausing
                      ELSE [pausing EXCEPT ![s0] = IF late THEN "late" ELSE "held"]
        /\ UNCHANGED <<series, recur, ended, stopped>>
    BY DEF Pause
  <1>2. RowTypes'
    BY <1>1 DEF Mark, RowTypes, TypeOK
  <1>3. \A r \in Rows : status'[r] = IF r \in due THEN "paused" ELSE status[r]
    BY <1>1 DEF Mark
  <1>4. \A r \in Rows : status'[r] = status[r] \/ {status[r], status'[r]} = {"pending", "paused"}
    BY <1>3
  <1>5. /\ WorkInv' /\ CronInv' /\ StopInv' /\ SeriesForksOnlyByFault' /\ NoSeriesIsLost'
        /\ Finished' = Finished /\ \A s \in Series : RowsOf(s)' = RowsOf(s)
    BY <1>1, <1>2, <1>4, Swapped
  <1>6. \A r \in Rows : Busy(r)' => Busy(r)
    BY <1>3 DEF Busy, Around, Live
  <1>7. HeldInv'
    <2> SUFFICES ASSUME NEW s \in Series, pausing'[s] = "held"
                 PROVE  /\ RowsOf(s) # {}
                        /\ \A r \in RowsOf(s) : status'[r] # "pending" /\ r \notin Finished /\ ~Busy(r)
      BY <1>5, <1>6 DEF HeldInv, RowsOf
    <2>1. CASE pausing[s] = "held"
      BY <1>3, <2>1 DEF HeldInv, RowsOf
    <2>2. CASE pausing[s] # "held"
      <3>1. s = s0 /\ due # {} /\ ~late
        BY <1>1, <2>2 DEF TypeOK
      <3>2. \A r \in RowsOf(s) : status'[r] # "pending"
        BY <1>3, <3>1 DEF Live, RowsOf
      <3> QED BY <3>1, <3>2 DEF Live
    <2> QED BY <2>1, <2>2
  <1> QED BY <1>2, <1>5, <1>7 DEF RowGoal

\* A resumed series is not on hold.
LEMMA ResumeStep ==
    ASSUME IInv, Around, NEW o \in Orders, Resume(o), o.series \in Series
    PROVE  RowGoal
  <1> USE DEF IInv, RowInv
  <1>1. RowTypes'
    BY DEF Resume, Mark, RowTypes, TypeOK
  <1>2. \A r \in Rows : /\ status'[r] = status[r] \/ {status[r], status'[r]} = {"pending", "paused"}
                        /\ r \notin RowsOf(o.series) => status'[r] = status[r]
    BY DEF Resume, Mark, RowsOf
  <1>3. /\ WorkInv' /\ CronInv' /\ StopInv' /\ SeriesForksOnlyByFault' /\ NoSeriesIsLost'
        /\ Finished' = Finished /\ \A s \in Series : RowsOf(s)' = RowsOf(s)
    BY <1>1, <1>2, Swapped DEF Resume
  <1>4. HeldInv'
    <2> SUFFICES ASSUME NEW s \in Series, pausing'[s] = "held"
                 PROVE  /\ RowsOf(s) # {}
                        /\ \A r \in RowsOf(s) : status'[r] # "pending" /\ r \notin Finished /\ ~Busy(r)'
      BY <1>3 DEF HeldInv
    <2>1. s # o.series /\ pausing[s] = "held"
      BY DEF Resume, TypeOK
    <2>2. \A r \in RowsOf(s) : status'[r] = status[r]
      BY <1>2, <2>1 DEF RowsOf
    <2> QED BY <2>1, <2>2 DEF HeldInv, Busy, Around, RowsOf
  <1> QED BY <1>1, <1>3, <1>4 DEF RowGoal

\* An update reaches live rows only; without a recurrence the series ends.
LEMMA UpdateStep ==
    ASSUME IInv, Around, NEW o \in Orders, Update(o), o.series \in Series, o.recur \in Recurrences
    PROVE  RowGoal
  <1> USE DEF IInv, RowInv
  <1>1. RowTypes'
    BY DEF Update, Mark, RowTypes, TypeOK
  <1>2. /\ UNCHANGED <<series, status, stopped, pausing>>
        /\ \A r \in Rows : recur'[r] = IF r \in Live(o.series) THEN o.recur ELSE recur[r]
        /\ ended' = IF Live(o.series) # {} /\ o.recur # "cron" THEN ended \cup {o.series} ELSE ended
    BY DEF Update, Mark
  <1>3. /\ Finished' = Finished
        /\ \A s \in Series : RowsOf(s)' = RowsOf(s) /\ Live(s)' = Live(s) /\ Open(s)' = Open(s)
    BY <1>2 DEF Finished, Live, RowsOf, Open
  <1>4. WorkInv'
    BY <1>2 DEF WorkInv, Around
  <1>5. CronInv'
    <2> SUFFICES ASSUME NEW s \in Series, NEW r \in Live(s), s \notin ended'
                 PROVE  recur'[r] = "cron"
      BY <1>3 DEF CronInv
    <2>1. r \in Rows /\ series[r] = s
      BY DEF Live, RowsOf
    <2>2. CASE s = o.series
      BY <1>2, <2>1, <2>2
    <2>3. CASE s # o.series
      BY <1>2, <2>1, <2>3 DEF CronInv, Live, RowsOf
    <2> QED BY <2>2, <2>3
  <1>6. StopInv'
    BY <1>2, <1>3 DEF StopInv, TypeOK
  <1>7. HeldInv'
    BY <1>2, <1>3 DEF HeldInv, Busy, Around, RowsOf
  <1>8. SeriesForksOnlyByFault'
    BY <1>3, ForkStep, BoundsAssumption DEF Around
  <1>9. NoSeriesIsLost'
    BY <1>2, <1>3 DEF NoSeriesIsLost
  <1> QED BY <1>1, <1>3, <1>4, <1>5, <1>6, <1>7, <1>8, <1>9 DEF RowGoal

\* Every command that is applied keeps what the rows have to keep.
LEMMA ApplyStep ==
    ASSUME IInv, Around, NEW o \in Orders, Apply(o)
    PROVE  RowGoal
  <1>1. /\ o.series \in Series
        /\ o.op \in {"schedule", "update", "cancel", "pause", "resume"}
        /\ o.op = "update" => o.recur \in Recurrences
    BY DEF Orders
  <1>2. CASE o.op = "schedule"
    BY <1>2, ScheduleStep DEF Apply
  <1>3. CASE o.op = "cancel"
    BY <1>1, <1>3, CancelStep DEF Apply
  <1>4. CASE o.op = "pause"
    BY <1>1, <1>4, PauseStep DEF Apply
  <1>5. CASE o.op = "resume"
    BY <1>1, <1>5, ResumeStep DEF Apply
  <1>6. CASE o.op = "update"
    BY <1>1, <1>6, UpdateStep DEF Apply
  <1> QED BY <1>1, <1>2, <1>3, <1>4, <1>5, <1>6

-----------------------------------------------------------------------------
(* Steps of the container.                                                 *)

\* No step of the container breaks the invariant: rows it reads are pending, and
\* claims of a dead one are cleared before anything of it is taken up.
LEMMA ContainerKeeps ==
    ASSUME IInv, ContainerStep
    PROVE  IInv'
  <1> USE DEF IInv
  <1>0. faults \in Nat /\ faults' \in Nat /\ faults' >= faults
    BY BoundsAssumption
    DEF ContainerStep, Command, Read, Claim, Complete, ContainerDies, ContainerBoots, Fault, TypeOK
  <1>1. ASSUME NEW c \in Commands, NEW o \in Orders, Command(c, o) PROVE IInv'
    <2>1. TypeOK'
      BY <1>1 DEF Command, TypeOK, rowVars, runVars, hostVars, pastVars
    <2>2. WorkInv'
      BY <1>1 DEF Command, WorkInv, rowVars, runVars
    <2>3. ListInv'
      <3>1. o # NoOrder
        BY DEF Orders, NoOrder
      <3> QED BY <1>1, <3>1 DEF Command, TypeOK, ListInv, Finished, rowVars, hostVars
    <2>4. RowInv'
      BY <1>0, <1>1, RowsAlone DEF Command, Busy, rowVars, runVars, pastVars
    <2> QED BY <2>1, <2>2, <2>3, <2>4
  <1>2. CASE Read
    <2>1. PICK S \in SUBSET {r \in Rows : status[r] = "pending" /\ ack[r] = "none"} : seen' = S
      BY <1>2 DEF Read
    <2>2. TypeOK'
      BY <1>2, <2>1 DEF Read, TypeOK, rowVars, outVars, hostVars, pastVars
    <2>3. WorkInv'
      BY <1>2, <2>1 DEF Read, WorkInv, rowVars
    <2>4. ListInv'
      BY <1>2 DEF Read, ListInv, Finished, rowVars, outVars, hostVars
    <2>5. RowInv'
      <3>1. \A r \in Rows : Busy(r)' => Busy(r) \/ status[r] = "pending"
        BY <1>2, <2>1 DEF Read, Busy, rowVars
      <3> QED BY <1>0, <1>2, <3>1, RowsAlone DEF Read
    <2> QED BY <2>2, <2>3, <2>4, <2>5
  <1>3. CASE Claim
    <2>1. \A r \in Rows : ack'[r] = IF r \in seen THEN "processing" ELSE ack[r]
      BY <1>3 DEF Claim, Mark
    <2>2. TypeOK'
      BY <1>3 DEF Claim, Mark, TypeOK, rowVars, outVars, hostVars, pastVars
    <2>3. WorkInv'
      BY <1>3, <2>1 DEF Claim, WorkInv, rowVars
    <2>4. ListInv'
      BY <1>3 DEF Claim, ListInv, Finished, rowVars, outVars, hostVars
    <2>5. RowInv'
      <3>1. \A r \in Rows : Busy(r)' => Busy(r)
        BY <1>3, <2>1 DEF Claim, Busy, rowVars
      <3> QED BY <1>0, <1>3, <3>1, RowsAlone DEF Claim
    <2> QED BY <2>2, <2>3, <2>4, <2>5
  <1>4. ASSUME NEW r \in Rows, Complete(r) PROVE IInv'
    <2>1. \A n \in Rows : ack'[n] = IF n = r THEN "completed" ELSE ack[n]
      BY <1>4 DEF Complete, TypeOK
    <2>2. TypeOK'
      BY <1>4 DEF Complete, TypeOK, rowVars, outVars, hostVars, pastVars
    <2>3. WorkInv'
      BY <1>4, <2>1 DEF Complete, WorkInv, rowVars
    <2>4. ListInv'
      BY <1>4 DEF Complete, ListInv, Finished, rowVars, outVars, hostVars
    <2>5. RowInv'
      <3>1. \A n \in Rows : Busy(n)' => Busy(n)
        BY <1>4, <2>1 DEF Complete, Busy, rowVars
      <3> QED BY <1>0, <1>4, <3>1, RowsAlone DEF Complete
    <2> QED BY <2>2, <2>3, <2>4, <2>5
  <1>5. CASE ContainerDies
    <2>0. faults' \in 0..MaxFaults
      BY <1>5, BoundsAssumption DEF ContainerDies, Fault, TypeOK
    <2>1. TypeOK'
      BY <1>5, <2>0 DEF ContainerDies, TypeOK, rowVars, outVars, hostVars, pastVars
    <2>2. WorkInv'
      BY <1>5 DEF ContainerDies, WorkInv, rowVars
    <2>3. ListInv'
      BY <1>5 DEF ContainerDies, ListInv, Finished, rowVars, outVars, hostVars
    <2>4. RowInv'
      <3>1. \A r \in Rows : Busy(r)' => Busy(r)
        BY <1>5 DEF ContainerDies, Busy, rowVars
      <3> QED BY <1>0, <1>5, <3>1, RowsAlone DEF ContainerDies
    <2> QED BY <2>1, <2>2, <2>3, <2>4
  <1>6. CASE ContainerBoots
    <2>1. \A r \in Rows : ack'[r] = IF ack[r] = "processing" THEN "none" ELSE ack[r]
      BY <1>6 DEF ContainerBoots, Mark
    <2>2. TypeOK'
      BY <1>6 DEF ContainerBoots, Mark, TypeOK, rowVars, outVars, hostVars, pastVars
    <2>3. WorkInv'
      BY <1>6, <2>1 DEF ContainerBoots, WorkInv, rowVars
    <2>4. ListInv'
      BY <1>6 DEF ContainerBoots, ListInv, Finished, rowVars, outVars, hostVars
    <2>5. RowInv'
      <3>1. \A r \in Rows : Busy(r)' => Busy(r)
        BY <1>6, <2>1 DEF ContainerBoots, Busy, rowVars
      <3> QED BY <1>0, <1>6, <3>1, RowsAlone DEF ContainerBoots
    <2> QED BY <2>2, <2>3, <2>4, <2>5
  <1> QED BY <1>1, <1>2, <1>3, <1>4, <1>5, <1>6 DEF ContainerStep

-----------------------------------------------------------------------------
(* Steps of the delivery.                                                  *)

\* A command that is drained has been written.
LEMMA DrainedOrder ==
    ASSUME IInv, NEW c \in drain
    PROVE  c \in Commands /\ order[c] \in Orders
  BY DEF IInv, TypeOK, ListInv

\* A command that is applied and marked delivered keeps the invariant.
LEMMA DeliversKeeps ==
    ASSUME IInv, NEW c \in Commands, Delivers(c)
    PROVE  IInv'
  <1> USE DEF IInv
  <1>1. order[c] \in Orders /\ Apply(order[c])
    BY DrainedOrder DEF Delivers, IsNextOf
  <1>2. Around
    BY BoundsAssumption DEF Delivers, Around, runVars, TypeOK, WorkInv
  <1>3. RowGoal
    BY <1>1, <1>2, ApplyStep
  <1>4. TypeOK'
    <2>1. attempts' \in [Commands -> 0 .. MaxAttempts - 1]
      BY BoundsAssumption DEF Delivers, TypeOK
    <2> QED BY <1>3, <2>1 DEF Delivers, TypeOK, RowGoal, RowTypes, runVars
  <1>5. ListInv'
    BY <1>3 DEF RowGoal, ListInv, Delivers
  <1> QED BY <1>3, <1>4, <1>5 DEF RowGoal

\* So does every step of the drain, the ones that fail included.
LEMMA DeliveryKeeps ==
    ASSUME IInv, DeliveryStep
    PROVE  IInv'
  <1> USE DEF IInv
  <1>1. CASE DrainStarts
    <2>1. drain' \in SUBSET Commands /\ \A c \in drain' : order[c] # NoOrder
      BY <1>1 DEF DrainStarts
    <2>2. TypeOK'
      BY <1>1, <2>1 DEF DrainStarts, TypeOK, rowVars, outVars, runVars, pastVars
    <2>3. WorkInv'
      BY <1>1 DEF DrainStarts, WorkInv, rowVars, runVars
    <2>4. ListInv'
      BY <1>1, <2>1 DEF DrainStarts, ListInv, Finished, rowVars, outVars
    <2>5. RowInv'
      <3>1. faults' \in Nat /\ faults' >= faults /\ \A r \in Rows : Busy(r)' => Busy(r)
        BY <1>1, BoundsAssumption DEF DrainStarts, Busy, TypeOK, rowVars, runVars
      <3> QED BY <1>1, <3>1, RowsAlone DEF DrainStarts
    <2> QED BY <2>2, <2>3, <2>4, <2>5
  <1>2. ASSUME NEW c \in Commands, Throws(c) PROVE IInv'
    <2>1. faults' \in 0..MaxFaults /\ faults' \in Nat /\ faults' >= faults
      BY <1>2, BoundsAssumption DEF Throws, Fault, TypeOK
    <2>2. attempts' \in [Commands -> 0 .. MaxAttempts - 1]
      BY <1>2, BoundsAssumption DEF Throws, GivesUp, TypeOK
    <2>3. outcome' \in [Commands -> {"open", "delivered", "failed"}]
      BY <1>2 DEF Throws, TypeOK
    <2>4. TypeOK'
      BY <1>2, <2>1, <2>2, <2>3 DEF Throws, TypeOK, rowVars, runVars, pastVars
    <2>5. WorkInv'
      BY <1>2 DEF Throws, WorkInv, rowVars, runVars
    <2>6. ListInv'
      BY <1>2 DEF Throws, ListInv, Finished, rowVars
    <2>7. RowInv'
      <3>1. \A r \in Rows : Busy(r)' => Busy(r)
        BY <1>2 DEF Throws, Busy, rowVars, runVars
      <3> QED BY <1>2, <2>1, <3>1, RowsAlone DEF Throws
    <2> QED BY <2>4, <2>5, <2>6, <2>7
  <1> QED BY <1>1, <1>2, DeliversKeeps DEF DeliveryStep

-----------------------------------------------------------------------------
(* Steps of the sweep.                                                     *)

\* Acknowledged occurrences end; a row that was given up is not among them, and
\* the last live row of a series that goes on waits for its successor.
LEMMA SyncKeeps ==
    ASSUME IInv, SweepSync
    PROVE  IInv'
  <1> USE DEF IInv, RowInv
  <1>1. /\ UNCHANGED <<series, recur, ack, alive, seen, drain, order, todo, ended, stopped,
                       pausing, faults>>
        /\ \A r \in Rows : status'[r] = IF ack[r] = "completed" THEN "completed" ELSE status[r]
    BY DEF SweepSync, Mark, outVars, runVars, pastVars
  <1>2. TypeOK'
    BY DEF SweepSync, Mark, TypeOK, outVars, runVars, pastVars
  <1>3. WorkInv'
    BY <1>1 DEF WorkInv
  <1>4. ListInv'
    BY <1>1 DEF ListInv, Finished
  <1>5. \A r \in Rows : status[r] = "failed" => status'[r] = "failed"
    BY <1>1 DEF WorkInv
  <1>6. \A r \in Rows : \/ status'[r] = status[r]
                        \/ status'[r] = "completed" /\ status[r] \in {"pending", "paused"}
    BY <1>1 DEF WorkInv, TypeOK
  <1>7. \A s \in Series :
          RowsOf(s)' = RowsOf(s) /\ Live(s)' \subseteq Live(s) /\ Open(s)' \subseteq Open(s)
    BY <1>1, <1>6 DEF RowsOf, Live, Open, Finished
  <1>8. CronInv'
    BY <1>1, <1>7 DEF CronInv
  <1>9. StopInv'
    BY <1>1, <1>7 DEF StopInv, TypeOK
  <1>10. HeldInv'
    <2> SUFFICES ASSUME NEW s \in Series, pausing[s] = "held", NEW r \in RowsOf(s)
                 PROVE  status'[r] # "pending" /\ r \notin Finished' /\ ~Busy(r)'
      BY <1>1, <1>7 DEF HeldInv
    <2>1. r \in Rows /\ status[r] # "pending" /\ r \notin Finished /\ ~Busy(r)
      BY DEF HeldInv, RowsOf
    <2>2. status'[r] = status[r]
      BY <1>1, <2>1 DEF Busy
    <2> QED BY <1>1, <2>1, <2>2 DEF Busy, Finished
  <1>11. SeriesForksOnlyByFault'
    BY <1>1, <1>7, ForkStep, BoundsAssumption DEF TypeOK
  <1>12. NoSeriesIsLost'
    <2> SUFFICES ASSUME NEW s \in Series, RowsOf(s) # {}, s \notin ended, Open(s)' = {}
                 PROVE  \E r \in RowsOf(s) : status'[r] = "failed"
      BY <1>1, <1>7 DEF NoSeriesIsLost
    <2>1. Open(s) = {}
      <3> SUFFICES ASSUME NEW r \in Open(s) PROVE r \in Open(s)'
        OBVIOUS
      <3>1. CASE r \in Live(s)
        <4>1. r \in RowsOf(s) /\ recur[r] = "cron"
          BY <3>1 DEF CronInv, Live
        <4> QED BY <1>1, <1>6, <1>7, <3>1, <4>1 DEF Open, Live, RowsOf, Finished
      <3>2. CASE r \in RowsOf(s) \cap Finished
        BY <1>1, <1>7, <3>2 DEF Open, Finished
      <3> QED BY <3>1, <3>2 DEF Open
    <2>2. PICK r \in RowsOf(s) : status[r] = "failed"
      BY <2>1 DEF NoSeriesIsLost
    <2> QED BY <1>5, <2>2 DEF RowsOf
  <1> QED BY <1>2, <1>3, <1>4, <1>8, <1>9, <1>10, <1>11, <1>12

\* Rows claimed by a dead container are given up.
LEMMA ResetKeeps ==
    ASSUME IInv, SweepReset
    PROVE  IInv'
  <1> USE DEF IInv, RowInv
  <1>1. PICK given \in SUBSET {r \in Rows : ack[r] = "processing" /\ status[r] = "pending"} :
          (given # {} => ~alive) /\ status' = Mark(status, given, "failed")
    BY DEF SweepReset
  <1>2. /\ UNCHANGED <<series, recur, ack, alive, seen, drain, order, todo, ended, stopped,
                       pausing, faults>>
        /\ \A r \in Rows : status'[r] = IF r \in given THEN "failed" ELSE status[r]
    BY <1>1 DEF SweepReset, Mark, outVars, runVars, pastVars
  <1>3. TypeOK'
    BY <1>1 DEF SweepReset, Mark, TypeOK, outVars, runVars, pastVars
  <1>4. WorkInv'
    BY <1>1, <1>2 DEF WorkInv
  <1>5. /\ Finished' = Finished
        /\ \A s \in Series :
             /\ RowsOf(s)' = RowsOf(s)
             /\ Live(s)' = Live(s) \ given /\ Open(s)' = Open(s) \ given
    BY <1>1, <1>2 DEF RowsOf, Live, Open, Finished
  <1>6. ListInv'
    BY <1>2, <1>5 DEF ListInv
  <1>7. CronInv'
    BY <1>2, <1>5 DEF CronInv
  <1>8. StopInv'
    BY <1>2, <1>5 DEF StopInv, TypeOK
  <1>9. HeldInv'
    BY <1>2, <1>5 DEF HeldInv, Busy, RowsOf
  <1>10. SeriesForksOnlyByFault'
    BY <1>2, <1>5, ForkStep, BoundsAssumption DEF TypeOK
  <1>11. NoSeriesIsLost'
    <2> SUFFICES ASSUME NEW s \in Series, RowsOf(s) # {}, s \notin ended, Open(s) \ given = {}
                 PROVE  \E r \in RowsOf(s) : status'[r] = "failed"
      BY <1>2, <1>5 DEF NoSeriesIsLost
    <2>1. CASE Open(s) = {}
      BY <1>2, <2>1 DEF NoSeriesIsLost, RowsOf
    <2>2. CASE Open(s) # {}
      <3>1. PICK r \in Open(s) : r \in given
        BY <2>2
      <3> QED BY <1>2, <3>1 DEF Open, Live, RowsOf
    <2> QED BY <2>1, <2>2
  <1> QED BY <1>3, <1>4, <1>6, <1>7, <1>8, <1>9, <1>10, <1>11

\* The next occurrence of row r is inserted as row n, and r is cleared or, after
\* a fault, not.
Follows(r, n) ==
    /\ r \in Finished /\ recur[r] = "cron" /\ status[n] = "absent"
    /\ series' = [series EXCEPT ![n] = series[r]]
    /\ status' = [status EXCEPT ![n] = "pending"]
    /\ recur'[n] = "cron"
    /\ \A x \in Rows \ {n, r} : recur'[x] = recur[x]
    /\ recur' \in [Rows -> Recurrences]
    /\ UNCHANGED pastVars

\* A successor takes the place of its predecessor, or costs a fault.
LEMMA FollowStep ==
    ASSUME IInv, Around, NEW r \in Rows, NEW n \in Rows, Follows(r, n),
           \/ recur'[r] = "none"
           \/ recur'[r] = recur[r] /\ faults' = faults + 1
    PROVE  RowTypes' /\ WorkInv' /\ RowInv' /\ \A x \in Finished : x # r => x \in Finished'
  <1> USE DEF IInv, RowInv
  <1>0. r \in Finished /\ recur[r] = "cron" /\ status[n] = "absent" /\ r # n
    BY DEF Follows, Finished
  <1>1. /\ UNCHANGED <<ended, stopped, pausing>>
        /\ series' \in [Rows -> Series \cup {NoSeries}]
        /\ status'[n] = "pending" /\ series'[n] = series[r] /\ recur'[n] = "cron"
        /\ \A x \in Rows \ {n} : status'[x] = status[x] /\ series'[x] = series[x]
        /\ \A x \in Rows \ {n, r} : recur'[x] = recur[x]
    BY DEF Follows, TypeOK, pastVars
  <1>2. series[n] = NoSeries /\ ack[n] = "none" /\ n \notin seen
    BY <1>0 DEF WorkInv
  <1>3. RowTypes'
    BY <1>1 DEF Follows, RowTypes, TypeOK
  <1>4. WorkInv'
    BY <1>1, <1>2 DEF WorkInv, Around
  <1>5. \A s \in Series :
          /\ RowsOf(s)' = IF s = series[r] THEN RowsOf(s) \cup {n} ELSE RowsOf(s)
          /\ n \notin RowsOf(s)
    BY <1>1, <1>2, SeriesAssumption DEF RowsOf
  <1>6. \A x \in Finished : x # n /\ (x # r => x \in Finished')
    BY <1>0, <1>1 DEF Finished
  <1>7. Finished' \subseteq Finished
    BY <1>0, <1>1 DEF Finished
  <1>8. \A s \in Series : Live(s)' = IF s = series[r] THEN Live(s) \cup {n} ELSE Live(s)
    BY <1>1, <1>5 DEF Live, RowsOf
  <1>9. \A s \in Series : s # series[r] => Open(s)' = Open(s)
    BY <1>5, <1>6, <1>7, <1>8 DEF Open, RowsOf
  <1>10. \A s \in Series : s = series[r] =>
            /\ r \in Open(s) /\ n \in Open(s)'
            /\ recur'[r] = "none" => Open(s)' = (Open(s) \ {r}) \cup {n}
            /\ Open(s)' \subseteq Open(s) \cup {n}
    <2> SUFFICES ASSUME NEW s \in Series, s = series[r]
                 PROVE  /\ r \in Open(s) /\ n \in Open(s)'
                        /\ recur'[r] = "none" => Open(s)' = (Open(s) \ {r}) \cup {n}
                        /\ Open(s)' \subseteq Open(s) \cup {n}
      OBVIOUS
    <2>1. r \in RowsOf(s) /\ r \notin Live(s) /\ n \notin Finished'
      BY <1>0, <1>1 DEF RowsOf, Live, Finished
    <2>2. recur'[r] = "none" => Finished' = Finished \ {r}
      BY <1>6, <1>7 DEF Finished
    <2> QED BY <1>0, <1>5, <1>7, <1>8, <2>1, <2>2 DEF Open
  <1>11. CronInv'
    <2> SUFFICES ASSUME NEW s \in Series, NEW x \in Live(s)', s \notin ended
                 PROVE  recur'[x] = "cron"
      BY <1>1 DEF CronInv
    <2>1. CASE x = n
      BY <1>1, <2>1
    <2>2. CASE x # n
      <3>1. x \in Live(s) /\ x \in Rows
        BY <1>8, <2>2 DEF Live, RowsOf
      <3>2. x # r
        BY <1>0, <3>1 DEF Live, Finished
      <3> QED BY <1>1, <2>2, <3>1, <3>2 DEF CronInv
    <2> QED BY <2>1, <2>2
  <1>12. StopInv'
    <2> SUFFICES ASSUME NEW s \in stopped PROVE RowsOf(s)' # {} /\ Open(s)' = {}
      BY <1>1 DEF StopInv
    <2>1. s \in Series /\ RowsOf(s) # {} /\ Open(s) = {}
      BY DEF StopInv, TypeOK
    <2>2. s # series[r]
      BY <1>10, <2>1
    <2> QED BY <1>5, <1>9, <2>1, <2>2
  <1>13. HeldInv'
    <2> SUFFICES ASSUME NEW s \in Series, pausing[s] = "held"
                 PROVE  /\ RowsOf(s)' # {}
                        /\ \A x \in RowsOf(s)' :
                              status'[x] # "pending" /\ x \notin Finished' /\ ~Busy(x)'
      BY <1>1 DEF HeldInv
    <2>1. s # series[r]
      BY <1>0 DEF HeldInv, RowsOf
    <2>2. \A x \in RowsOf(s) : x \in Rows /\ status'[x] = status[x]
      BY <1>1, <1>5 DEF RowsOf
    <2> QED BY <1>5, <1>7, <2>1, <2>2 DEF HeldInv, Busy, Around
  <1>14. SeriesForksOnlyByFault'
    <2> SUFFICES ASSUME NEW s \in Series PROVE Cardinality(Open(s)') <= 1 + faults'
      BY DEF SeriesForksOnlyByFault
    <2>0. faults \in Nat /\ faults' \in Nat /\ faults' >= faults
      BY BoundsAssumption DEF Around, TypeOK
    <2>1. /\ Open(s) \in SUBSET Rows /\ Open(s)' \in SUBSET Rows
          /\ Cardinality(Open(s)) <= 1 + faults
      BY OpenRows DEF SeriesForksOnlyByFault
    <2>2. Cardinality(Open(s)) \in Nat /\ Cardinality(Open(s)') \in Nat
      BY <2>1, RowCount
    <2>3. CASE s # series[r]
      BY <1>9, <2>0, <2>1, <2>2, <2>3
    <2>4. CASE s = series[r] /\ recur'[r] = "none"
      <3>1. Cardinality(Open(s)') <= Cardinality(Open(s))
        BY <1>10, <2>1, <2>4, RowReplaced
      <3> QED BY <2>0, <2>1, <2>2, <3>1
    <2>5. CASE s = series[r] /\ faults' = faults + 1
      <3>1. /\ Cardinality(Open(s) \cup {n}) <= Cardinality(Open(s)) + 1
            /\ Cardinality(Open(s) \cup {n}) \in Nat
        BY <2>1, RowAdded
      <3>2. Cardinality(Open(s)') <= Cardinality(Open(s) \cup {n})
        BY <1>10, <2>1, <2>5, RowCount
      <3> QED BY <2>0, <2>1, <2>2, <2>5, <3>1, <3>2
    <2> QED BY <2>3, <2>4, <2>5
  <1>15. NoSeriesIsLost'
    <2> SUFFICES ASSUME NEW s \in Series, RowsOf(s)' # {}, s \notin ended, Open(s)' = {}
                 PROVE  \E x \in RowsOf(s)' : status'[x] = "failed"
      BY <1>1 DEF NoSeriesIsLost
    <2>1. s # series[r]
      BY <1>10
    <2>2. RowsOf(s)' = RowsOf(s) /\ Open(s) = {}
      BY <1>5, <1>9, <2>1
    <2>3. PICK x \in RowsOf(s) : status[x] = "failed"
      BY <2>2 DEF NoSeriesIsLost
    <2> QED BY <1>1, <1>5, <2>2, <2>3 DEF RowsOf
  <1> QED BY <1>3, <1>4, <1>6, <1>11, <1>12, <1>13, <1>14, <1>15

\* A recurrence of the sweep keeps what concerns the rows.
LEMMA RecurStep ==
    ASSUME IInv, NEW r \in Rows, SweepRecur(r)
    PROVE  RowTypes' /\ WorkInv' /\ RowInv' /\ \A x \in Finished : x # r => x \in Finished'
  <1> USE DEF IInv
  <1>0. r \in Finished /\ UNCHANGED <<ack, alive, seen, pastVars, faults>>
    BY DEF SweepRecur, IsNextOf, ListInv, runVars
  <1>1. Around
    BY <1>0, BoundsAssumption DEF Around, TypeOK, WorkInv
  <1>2. CASE recur[r] = "cron"
    <2>1. PICK n \in Rows :
             /\ IsNextRow(n)
             /\ series' = [series EXCEPT ![n] = series[r]]
             /\ status' = [status EXCEPT ![n] = "pending"]
             /\ recur' = [recur EXCEPT ![n] = recur[r], ![r] = "none"]
      BY <1>2 DEF SweepRecur, Recur
    <2>2. n # r /\ status[n] = "absent"
      BY <1>0, <2>1 DEF IsNextRow, Finished
    <2>3. recur'[n] = "cron" /\ recur'[r] = "none" /\ recur' \in [Rows -> Recurrences]
          /\ \A x \in Rows \ {n, r} : recur'[x] = recur[x]
      BY <1>2, <2>1, <2>2 DEF TypeOK, Recurrences
    <2>4. Follows(r, n)
      BY <1>0, <1>2, <2>1, <2>2, <2>3 DEF Follows
    <2> QED BY <1>1, <2>3, <2>4, FollowStep
  <1>3. CASE recur[r] # "cron"
    <2>1. UNCHANGED rowVars
      BY <1>3 DEF SweepRecur, Recur
    <2>2. RowInv'
      <3>1. \A x \in Rows : Busy(x)' => Busy(x)
        BY <1>0, <2>1 DEF Busy, rowVars
      <3>2. faults' \in Nat /\ faults' >= faults
        BY <1>0, BoundsAssumption DEF TypeOK
      <3> QED BY <1>0, <2>1, <3>1, <3>2, RowsAlone
    <2> QED BY <1>0, <2>1, <2>2 DEF RowTypes, TypeOK, WorkInv, Finished, rowVars, pastVars
  <1> QED BY <1>2, <1>3

\* No step of the sweep breaks the invariant: what it has listed is finished
\* when it gets there, and the rows it has not reached stay so.
LEMMA SweepKeeps ==
    ASSUME IInv, SweepStep
    PROVE  IInv'
  <1> USE DEF IInv
  <1>1. ASSUME UNCHANGED <<rowVars, outVars, runVars, drain, attempts, pastVars, faults>>,
               todo' \subseteq Finished, sweep' \in {"idle", "recurring"}
        PROVE  IInv'
    <2>1. TypeOK'
      BY <1>1 DEF TypeOK, rowVars, outVars, runVars, pastVars, Finished
    <2>2. WorkInv' /\ ListInv'
      BY <1>1 DEF WorkInv, ListInv, Finished, rowVars, outVars, runVars
    <2>3. RowInv'
      <3>1. faults' \in Nat /\ faults' >= faults /\ \A r \in Rows : Busy(r)' => Busy(r)
        BY <1>1, BoundsAssumption DEF Busy, TypeOK, rowVars, runVars
      <3> QED BY <1>1, <3>1, RowsAlone
    <2> QED BY <2>1, <2>2, <2>3
  <1>2. CASE SweepList
    BY <1>1, <1>2 DEF SweepList
  <1>3. CASE SweepEnds
    BY <1>1, <1>3 DEF SweepEnds
  <1>4. ASSUME NEW r \in Rows, SweepRecur(r) PROVE IInv'
    <2>1. RowTypes' /\ WorkInv' /\ RowInv' /\ \A x \in Finished : x # r => x \in Finished'
      BY <1>4, RecurStep
    <2>2. TypeOK'
      BY <1>4, <2>1 DEF SweepRecur, TypeOK, RowTypes, outVars, runVars
    <2>3. ListInv'
      BY <1>4, <2>1 DEF SweepRecur, ListInv, outVars
    <2> QED BY <2>1, <2>2, <2>3
  <1> QED BY <1>2, <1>3, <1>4, SyncKeeps, ResetKeeps DEF SweepStep

-----------------------------------------------------------------------------
(* Faults of the host.                                                     *)

\* A fault is within its bound.
LEMMA FaultStep ==
    ASSUME TypeOK, Fault
    PROVE  faults' \in 0..MaxFaults /\ faults' = faults + 1 /\ faults' \in Nat /\ faults' >= faults
  BY BoundsAssumption DEF TypeOK, Fault

\* The host dies at any moment, between a handler and its mark, or between the
\* insertion of a successor and the clearing of its predecessor.
LEMMA HostFaultKeeps ==
    ASSUME IInv, HostFault
    PROVE  IInv'
  <1> USE DEF IInv
  <1>1. CASE HostRestart
    <2>1. faults' \in 0..MaxFaults /\ faults' \in Nat /\ faults' >= faults
      BY <1>1, FaultStep DEF HostRestart
    <2>2. attempts' \in [Commands -> 0 .. MaxAttempts - 1]
      BY <1>1, BoundsAssumption DEF HostRestart, Restarts
    <2>3. TypeOK'
      BY <1>1, <2>1, <2>2 DEF HostRestart, Restarts, TypeOK, rowVars, outVars, pastVars
    <2>4. WorkInv' /\ ListInv'
      BY <1>1 DEF HostRestart, Restarts, WorkInv, ListInv, rowVars
    <2>5. \A r \in Rows : Busy(r)' => Busy(r)
      BY <1>1 DEF HostRestart, Restarts, Busy, rowVars
    <2>6. RowInv'
      BY <1>1, <2>1, <2>5, RowsAlone DEF HostRestart
    <2> QED BY <2>3, <2>4, <2>6
  <1>2. ASSUME NEW c \in Commands, DiesAfterApply(c) PROVE IInv'
    <2>1. faults' \in 0..MaxFaults /\ faults' >= faults
      BY <1>2, FaultStep DEF DiesAfterApply
    <2>2. Around
      BY <1>2, <2>1 DEF DiesAfterApply, Restarts, Around
    <2>3. order[c] \in Orders /\ Apply(order[c])
      BY <1>2, DrainedOrder DEF DiesAfterApply, IsNextOf
    <2>4. RowGoal
      BY <2>2, <2>3, ApplyStep
    <2>5. attempts' \in [Commands -> 0 .. MaxAttempts - 1]
      BY <1>2, BoundsAssumption DEF DiesAfterApply, Restarts
    <2>6. TypeOK'
      BY <1>2, <2>1, <2>4, <2>5 DEF DiesAfterApply, Restarts, TypeOK, RowGoal, RowTypes, outVars
    <2>7. ListInv'
      BY <1>2 DEF DiesAfterApply, Restarts, ListInv
    <2> QED BY <2>4, <2>6, <2>7 DEF RowGoal
  <1>3. ASSUME NEW r \in Rows, SweepRecurHalf(r) PROVE IInv'
    <2>1. faults' \in 0..MaxFaults /\ faults' = faults + 1 /\ faults' >= faults
      BY <1>3, FaultStep DEF SweepRecurHalf
    <2>2. r \in Finished /\ recur[r] = "cron"
      BY <1>3 DEF SweepRecurHalf, IsNextOf, ListInv
    <2>3. PICK n \in Rows :
             /\ IsNextRow(n)
             /\ series' = [series EXCEPT ![n] = series[r]]
             /\ status' = [status EXCEPT ![n] = "pending"]
             /\ recur' = [recur EXCEPT ![n] = recur[r]]
      BY <1>3 DEF SweepRecurHalf, InsertNext
    <2>4. n # r /\ status[n] = "absent"
      BY <2>2, <2>3 DEF IsNextRow, Finished
    <2>5. recur'[n] = "cron" /\ recur'[r] = recur[r] /\ recur' \in [Rows -> Recurrences]
          /\ \A x \in Rows \ {n, r} : recur'[x] = recur[x]
      BY <2>2, <2>3, <2>4 DEF TypeOK, Recurrences
    <2>6. Follows(r, n)
      BY <1>3, <2>2, <2>3, <2>4, <2>5 DEF Follows, SweepRecurHalf
    <2>7. Around
      BY <1>3, <2>1 DEF SweepRecurHalf, Restarts, Around, WorkInv
    <2>8. RowTypes' /\ WorkInv' /\ RowInv' /\ \A x \in Finished : x # r => x \in Finished'
      BY <2>1, <2>5, <2>6, <2>7, FollowStep
    <2>9. /\ UNCHANGED <<ack, order, outcome>>
          /\ \/ /\ alive' = FALSE /\ seen' = {} /\ drain' = {} /\ sweep' = "idle" /\ todo' = {}
                /\ attempts' = [c \in Commands |-> 0]
             \/ todo' = todo \ {r} /\ UNCHANGED <<alive, seen, drain, attempts, sweep>>
      BY <1>3 DEF SweepRecurHalf, Restarts, outVars
    <2>10. attempts' \in [Commands -> 0 .. MaxAttempts - 1]
      BY <2>9, BoundsAssumption DEF TypeOK
    <2>11. TypeOK'
      BY <2>1, <2>8, <2>9, <2>10 DEF TypeOK, RowTypes
    <2>12. ListInv'
      BY <2>8, <2>9 DEF ListInv
    <2> QED BY <2>8, <2>11, <2>12
  <1> QED BY <1>1, <1>2, <1>3 DEF HostFault

-----------------------------------------------------------------------------
(* The theorems.                                                           *)

\* Nothing is scheduled at first.
LEMMA IInvInit == Init => IInv
  <1> SUFFICES ASSUME Init PROVE IInv
    OBVIOUS
  <1>1. TypeOK
    BY BoundsAssumption DEF Init, TypeOK, Recurrences
  <1>2. WorkInv /\ ListInv
    BY DEF Init, WorkInv, ListInv, Finished
  <1>3. \A s \in Series : RowsOf(s) = {} /\ Live(s) = {} /\ Open(s) = {}
    BY SeriesAssumption DEF Init, RowsOf, Live, Open
  <1>4. CronInv /\ StopInv /\ HeldInv /\ NoSeriesIsLost
    BY <1>3 DEF Init, CronInv, StopInv, HeldInv, NoSeriesIsLost
  <1>5. SeriesForksOnlyByFault
    <2>1. Cardinality({}) = 0
      BY FS_EmptySet
    <2>2. faults \in Nat
      BY <1>1, BoundsAssumption DEF TypeOK
    <2> QED BY <1>3, <2>1, <2>2 DEF SeriesForksOnlyByFault
  <1> QED BY <1>1, <1>2, <1>4, <1>5 DEF IInv, RowInv

\* No step of any of the three parts breaks the invariant.
LEMMA IInvStep == IInv /\ [Next]_vars => IInv'
  <1> SUFFICES ASSUME IInv, [Next]_vars PROVE IInv'
    OBVIOUS
  <1>1. CASE UNCHANGED vars
    BY <1>1 DEF IInv, TypeOK, WorkInv, ListInv, RowInv, CronInv, StopInv, HeldInv, Busy,
                SeriesForksOnlyByFault, NoSeriesIsLost, Open, Live, RowsOf, Finished,
                vars, rowVars, outVars, runVars, hostVars, pastVars
  <1> QED BY <1>1, ContainerKeeps, DeliveryKeeps, SweepKeeps, HostFaultKeeps DEF Next

\* The inductive invariant holds in every reachable state.
LEMMA Invariance == Spec => []IInv
  BY IInvInit, IInvStep, PTL DEF Spec

\* Every state of the task rows, the container and the host is well formed.
THEOREM TypeCorrect == Spec => []TypeOK
  <1>1. IInv => TypeOK
    BY DEF IInv
  <1> QED BY <1>1, Invariance, PTL

\* A series has one occurrence that is live or waits for its successor, and at
\* most one more for each fault, however commands, sweeps and crashes interleave.
THEOREM ForksOnlyByFault == Spec => []SeriesForksOnlyByFault
  <1>1. IInv => SeriesForksOnlyByFault
    BY DEF IInv, RowInv
  <1> QED BY <1>1, Invariance, PTL

\* A series goes on until a command ends it or an occurrence is given up.
THEOREM SeriesGoOn == Spec => []NoSeriesIsLost
  <1>1. IInv => NoSeriesIsLost
    BY DEF IInv, RowInv
  <1> QED BY <1>1, Invariance, PTL

\* A cancel at rest is final and a pause at rest holds, against replayed commands
\* and late acknowledgements.
THEOREM StopsHold == Spec => []StoppedStaysStopped
  <1>1. IInv => StoppedStaysStopped
    BY DEF IInv, RowInv, StopInv, HeldInv, Busy, RowsOf,
           StoppedStaysStopped, CancelIsFinal, PauseHolds
  <1> QED BY <1>1, Invariance, PTL

\* A row that was completed, cancelled or given up keeps its outcome.
OutcomesStay ==
    [][\A r \in Rows : status[r] \in {"completed", "failed"} => status'[r] = status[r]]_vars

\* No step of any part touches such a row.
LEMMA OutcomesKept ==
    ASSUME IInv, [Next]_vars, NEW r \in Rows, status[r] \in {"completed", "failed"}
    PROVE  status'[r] = status[r]
  <1> USE DEF IInv
  <1>1. status \in [Rows -> {"absent", "pending", "paused", "completed", "failed"}]
    BY DEF TypeOK
  <1>2. CASE UNCHANGED vars \/ ContainerStep
    BY <1>2 DEF ContainerStep, Command, Read, Claim, Complete, ContainerDies, ContainerBoots,
                vars, rowVars
  <1>3. ASSUME NEW n \in Rows, IsNextRow(n), status' = [status EXCEPT ![n] = "pending"]
        PROVE  status'[r] = status[r]
    BY <1>1, <1>3 DEF IsNextRow
  <1>4. ASSUME NEW o \in Orders, Apply(o) PROVE status'[r] = status[r]
    <2>1. CASE o.op = "schedule"
      BY <1>3, <1>4, <2>1 DEF Apply, Schedule
    <2>2. CASE o.op = "cancel"
      BY <1>4, <2>2 DEF Apply, Cancel, Mark, Live
    <2>3. CASE o.op = "pause"
      BY <1>4, <2>3 DEF Apply, Pause, Mark
    <2>4. CASE o.op = "resume"
      BY <1>4, <2>4 DEF Apply, Resume, Mark
    <2>5. CASE o.op = "update"
      BY <1>4, <2>5 DEF Apply, Update
    <2> QED BY <2>1, <2>2, <2>3, <2>4, <2>5 DEF Orders
  <1>5. CASE DeliveryStep
    <2>1. CASE DrainStarts
      BY <2>1 DEF DrainStarts, rowVars
    <2>2. ASSUME NEW c \in Commands, Delivers(c) PROVE status'[r] = status[r]
      <3>1. order[c] \in Orders /\ Apply(order[c])
        BY <2>2 DEF Delivers, ListInv, IsNextOf, TypeOK
      <3> QED BY <3>1, <1>4
    <2>3. ASSUME NEW c \in Commands, Throws(c) PROVE status'[r] = status[r]
      BY <2>3 DEF Throws, rowVars
    <2> QED BY <1>5, <2>1, <2>2, <2>3 DEF DeliveryStep
  <1>6. CASE SweepStep
    <2>1. CASE SweepSync
      BY <2>1 DEF SweepSync, Mark, WorkInv
    <2>2. CASE SweepReset
      BY <2>2 DEF SweepReset, Mark
    <2>3. CASE SweepList \/ SweepEnds
      BY <2>3 DEF SweepList, SweepEnds, rowVars
    <2>4. ASSUME NEW x \in Rows, SweepRecur(x) PROVE status'[r] = status[r]
      BY <1>3, <2>4 DEF SweepRecur, Recur, rowVars
    <2> QED BY <1>6, <2>1, <2>2, <2>3, <2>4 DEF SweepStep
  <1>7. CASE HostFault
    <2>1. CASE HostRestart
      BY <2>1 DEF HostRestart, rowVars
    <2>2. ASSUME NEW c \in Commands, DiesAfterApply(c) PROVE status'[r] = status[r]
      <3>1. order[c] \in Orders /\ Apply(order[c])
        BY <2>2 DEF DiesAfterApply, ListInv, IsNextOf, TypeOK
      <3> QED BY <3>1, <1>4
    <2>3. ASSUME NEW x \in Rows, SweepRecurHalf(x) PROVE status'[r] = status[r]
      BY <1>3, <2>3 DEF SweepRecurHalf, InsertNext
    <2> QED BY <1>7, <2>1, <2>2, <2>3 DEF HostFault
  <1> QED BY <1>2, <1>5, <1>6, <1>7 DEF Next

\* Neither a command applied a second time, nor the acknowledgement of a container
\* that died, nor the sweep revives an occurrence that is over or settles it anew
\* (syncProcessingAcks writes whatever the status of the row).
THEOREM OccurrencesEndOnce == Spec => OutcomesStay
  <1>1. IInv /\ [Next]_vars =>
          \A r \in Rows : status[r] \in {"completed", "failed"} => status'[r] = status[r]
    BY OutcomesKept
  <1> QED BY <1>1, Invariance, PTL DEF Spec, OutcomesStay

-----------------------------------------------------------------------------
(* The rows of commands are rows of the outbox.                            *)

\* The outcome of a command as OutboxContract names it.
Outcome ==
    [c \in Commands |-> IF order[c] = NoOrder THEN "unwritten"
                        ELSE IF outcome[c] = "open" THEN "none" ELSE outcome[c]]

\* No platform ever sees a command: its handler takes the place of the sending.
Outbox == INSTANCE OutboxContract WITH
    Rows <- Commands, outcome <- Outcome, sends <- [c \in Commands |-> 0]

\* What is not written has no outcome, and what a drain has read still has none.
OutboxInv ==
    /\ \A c \in Commands : order[c] = NoOrder => outcome[c] = "open"
    /\ \A c \in drain : outcome[c] = "open"

\* A step that writes no command, settles none and starts no drain.
LEMMA OutboxIdle ==
    ASSUME OutboxInv, UNCHANGED outVars, drain' \subseteq drain
    PROVE  OutboxInv' /\ UNCHANGED Outcome
  BY DEF OutboxInv, Outcome, outVars

\* A drain settles the command it is at, which is open and which it then leaves.
LEMMA OutboxSettles ==
    ASSUME IInv, OutboxInv, NEW c \in drain, UNCHANGED order, drain' = drain \ {c},
           NEW o \in {"delivered", "failed"}, outcome' = [outcome EXCEPT ![c] = o]
    PROVE  OutboxInv' /\ Outbox!Settle(c)
  <1>1. /\ c \in Commands /\ order[c] # NoOrder /\ outcome[c] = "open"
        /\ outcome \in [Commands -> {"open", "delivered", "failed"}]
        /\ drain \in SUBSET Commands
    BY DEF IInv, ListInv, OutboxInv, TypeOK
  <1>2. OutboxInv'
    BY <1>1 DEF OutboxInv
  <1>3. Outcome[c] = "none" /\ Outcome' = [Outcome EXCEPT ![c] = o]
    BY <1>1 DEF Outcome
  <1> QED BY <1>2, <1>3 DEF Outbox!Settle

\* Every step writes one command, settles one, or leaves the outbox alone.
LEMMA OutboxStep ==
    ASSUME IInv, OutboxInv, [Next]_vars
    PROVE  OutboxInv' /\ (Outbox!Next \/ UNCHANGED Outcome)
  <1> USE DEF hostVars
  <1>1. CASE ContainerStep
    <2>1. ASSUME NEW c \in Commands, NEW o \in Orders, Command(c, o)
          PROVE  OutboxInv' /\ Outbox!Write(c)
      <3>1. /\ order[c] = NoOrder /\ order' = [order EXCEPT ![c] = o]
            /\ outcome' = outcome /\ drain' = drain
        BY <2>1 DEF Command
      <3>2. outcome[c] = "open" /\ order \in [Commands -> Orders \cup {NoOrder}]
        BY <3>1 DEF OutboxInv, IInv, TypeOK
      <3>3. o # NoOrder
        BY DEF Orders, NoOrder
      <3>4. OutboxInv'
        BY <3>1, <3>2, <3>3 DEF OutboxInv
      <3>5. Outcome[c] = "unwritten" /\ Outcome' = [Outcome EXCEPT ![c] = "none"]
        BY <3>1, <3>2, <3>3 DEF Outcome
      <3> QED BY <3>4, <3>5 DEF Outbox!Write
    <2>2. CASE Read \/ Claim \/ (\E r \in Rows : Complete(r)) \/ ContainerDies \/ ContainerBoots
      BY <2>2, OutboxIdle DEF Read, Claim, Complete, ContainerDies, ContainerBoots
    <2> QED BY <1>1, <2>1, <2>2 DEF ContainerStep, Outbox!Next
  <1>2. CASE DrainStarts
    BY <1>2 DEF DrainStarts, OutboxInv, Outcome, outVars
  <1>3. ASSUME NEW c \in Commands, Delivers(c) \/ Throws(c)
        PROVE  OutboxInv' /\ (Outbox!Next \/ UNCHANGED Outcome)
    <2>1. c \in drain /\ drain' = drain \ {c} /\ UNCHANGED order
      BY <1>3 DEF Delivers, Throws, IsNextOf
    <2>2. CASE outcome' = outcome
      BY <2>1, <2>2, OutboxIdle DEF outVars
    <2>3. CASE outcome' # outcome
      <3>1. PICK o \in {"delivered", "failed"} : outcome' = [outcome EXCEPT ![c] = o]
        BY <1>3, <2>3 DEF Delivers, Throws
      <3> QED BY <2>1, <3>1, OutboxSettles DEF Outbox!Next
    <2> QED BY <2>2, <2>3
  <1>4. CASE SweepStep \/ HostFault
    <2>1. UNCHANGED outVars /\ drain' \subseteq drain
      BY <1>4 DEF SweepStep, SweepSync, SweepReset, SweepList, SweepEnds, SweepRecur, HostFault,
                  HostRestart, DiesAfterApply, SweepRecurHalf, Restarts
    <2> QED BY <2>1, OutboxIdle
  <1>5. CASE UNCHANGED vars
    BY <1>5, OutboxIdle DEF vars
  <1> QED BY <1>1, <1>2, <1>3, <1>4, <1>5 DEF Next, DeliveryStep

\* The rows of the agent's commands keep what outbound delivery promises: one
\* outcome, for good, although a crash may have the handler applied again after
\* its effects are there and a refused command is tried again (drainSession).
THEOREM Implementation == Spec => Outbox!Spec
  <1>1. Init => OutboxInv /\ Outbox!Init
    BY DEF Init, OutboxInv, Outcome, Outbox!Init
  <1>2. IInv /\ OutboxInv /\ [Next]_vars => OutboxInv' /\ [Outbox!Next]_(Outbox!vars)
    <2>1. UNCHANGED Outcome => UNCHANGED Outbox!vars
      BY DEF Outbox!vars
    <2> QED BY <2>1, OutboxStep
  <1> QED BY <1>1, <1>2, Invariance, PTL DEF Spec, Outbox!Spec

=============================================================================
