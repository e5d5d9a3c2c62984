----------------------- MODULE SessionLifecycle_proofs -----------------------
(***************************************************************************)
(* Proofs about SessionLifecycle for every set of messages, every bound on *)
(* tries, prompts and faults.                                              *)
(***************************************************************************)
EXTENDS SessionLifecycle, TLAPS

(* The host's books agree with the process table.                          *)
HostInv ==
    /\ waking => up /\ ~active /\ cpc = "none"
    /\ active => up /\ cpc # "none"
    /\ up /\ ~active => cpc = "none"
    /\ ~up => cpc # "exited"
    /\ sweep # "idle" => up
    /\ sweep = "kill" => active
    /\ sweep = "reset" => cpc \notin Alive

(* What a container holds in memory is gone with it, and its claims are    *)
(* the only ones on the table once it has started.                         *)
RunInv ==
    /\ cpc \in {"none", "exited", "booting", "idle"} => batch = {}
    /\ cpc # "pushing" => follow = {}
    /\ cpc \in {"query", "pushing"} => batch \subseteq handed
    /\ NoOrphanClaims

(* How the two tables agree on a row.                                      *)
RowInv ==
    \A m \in Msgs :
        /\ status[m] = "absent" => ack[m] = "none"
        /\ ack[m] = "completed" => m \in handed
        /\ status[m] = "completed" => ack[m] = "completed"
        /\ status[m] = "failed" => ack[m] # "completed" /\ m \notin batch \cup follow
        /\ m \in batch \cup follow => ack[m] # "none"
        /\ m \in follow \/ (m \in batch /\ cpc \in {"claimed", "scripts"})
              => ack[m] = "processing"

IInv == TypeOK /\ HostInv /\ RunInv /\ RowInv

-----------------------------------------------------------------------------
(* What the container's polls return: unclaimed pending rows.              *)
LEMMA PollableFacts ==
    /\ Pollable \subseteq Msgs
    /\ Followable \subseteq Pollable
    /\ \A m \in Pollable : status[m] = "pending" /\ ack[m] = "none"
BY DEF Pollable, Followable, Pending, Window, DueRows

LEMMA TypeInit == Init => TypeOK
<1> SUFFICES ASSUME Init PROVE TypeOK
  OBVIOUS
<1>1. FlagTypeOK
  BY Zenon DEF Init, FlagTypeOK
<1>2. due \in [Msgs -> BOOLEAN]
  BY Zenon DEF Init
<1>3. RowTypeOK
  BY <1>2, BoundsAssumption DEF Init, RowTypeOK, Statuses
<1>4. AckTypeOK /\ RunTypeOK
  BY DEF Init, AckTypeOK, RunTypeOK, SweepStages, Alive
<1>5. handed \in SUBSET Msgs /\ faults \in 0..MaxFaults
  BY BoundsAssumption DEF Init
<1> QED
  BY <1>1, <1>3, <1>4, <1>5 DEF TypeOK

LEMMA TypeStep == TypeOK /\ Next => TypeOK'
<1> SUFFICES ASSUME TypeOK, Next PROVE TypeOK'
  OBVIOUS
<1>1. CASE \E m \in Msgs : Insert(m)
  <2>1. FlagTypeOK'
    BY <1>1, Zenon DEF Insert, Wake, ackVars, runVars, TypeOK, FlagTypeOK
  <2>2. RowTypeOK' /\ AckTypeOK' /\ RunTypeOK' /\ (handed \in SUBSET Msgs)' /\ (faults \in 0..MaxFaults)'
    BY <1>1, BoundsAssumption DEF Insert, Wake, ackVars, runVars, TypeOK,
       RowTypeOK, AckTypeOK, FlagTypeOK, RunTypeOK, Statuses, SweepStages,
       Alive
  <2> QED
    BY <2>1, <2>2 DEF TypeOK
<1>2. CASE SpawnDone
  <2>1. FlagTypeOK'
    BY <1>2, Zenon DEF SpawnDone, rowVars, TypeOK, FlagTypeOK
  <2>2. RowTypeOK' /\ AckTypeOK' /\ RunTypeOK' /\ (handed \in SUBSET Msgs)' /\ (faults \in 0..MaxFaults)'
    BY <1>2, BoundsAssumption DEF SpawnDone, rowVars, TypeOK, RowTypeOK,
       AckTypeOK, FlagTypeOK, RunTypeOK, Statuses, SweepStages, Alive
  <2> QED
    BY <2>1, <2>2 DEF TypeOK
<1>3. CASE SpawnFails
  <2>1. FlagTypeOK'
    BY <1>3, Zenon DEF SpawnFails, Fault, rowVars, ackVars, runVars, TypeOK,
       FlagTypeOK
  <2>2. RowTypeOK' /\ AckTypeOK' /\ RunTypeOK' /\ (handed \in SUBSET Msgs)' /\ (faults \in 0..MaxFaults)'
    BY <1>3, BoundsAssumption DEF SpawnFails, Fault, rowVars, ackVars,
       runVars, TypeOK, RowTypeOK, AckTypeOK, FlagTypeOK, RunTypeOK, Statuses,
       SweepStages, Alive
  <2> QED
    BY <2>1, <2>2 DEF TypeOK
<1>4. CASE Close
  <2>1. FlagTypeOK'
    BY <1>4, Zenon DEF Close, rowVars, ackVars, TypeOK, FlagTypeOK
  <2>2. RowTypeOK' /\ AckTypeOK' /\ RunTypeOK' /\ (handed \in SUBSET Msgs)' /\ (faults \in 0..MaxFaults)'
    BY <1>4, BoundsAssumption DEF Close, rowVars, ackVars, TypeOK, RowTypeOK,
       AckTypeOK, FlagTypeOK, RunTypeOK, Statuses, SweepStages, Alive
  <2> QED
    BY <2>1, <2>2 DEF TypeOK
<1>5. CASE HostCrash
  <2>1. FlagTypeOK'
    BY <1>5, Zenon DEF HostCrash, Fault, rowVars, ackVars, TypeOK, FlagTypeOK
  <2>2. RowTypeOK' /\ AckTypeOK' /\ RunTypeOK' /\ (handed \in SUBSET Msgs)' /\ (faults \in 0..MaxFaults)'
    BY <1>5, BoundsAssumption DEF HostCrash, Fault, rowVars, ackVars, TypeOK,
       RowTypeOK, AckTypeOK, FlagTypeOK, RunTypeOK, Statuses, SweepStages,
       Alive
  <2> QED
    BY <2>1, <2>2 DEF TypeOK
<1>6. CASE HostStart
  <2>1. FlagTypeOK'
    BY <1>6, Zenon DEF HostStart, Forget, rowVars, ackVars, TypeOK, FlagTypeOK
  <2>2. RowTypeOK' /\ AckTypeOK' /\ RunTypeOK' /\ (handed \in SUBSET Msgs)' /\ (faults \in 0..MaxFaults)'
    BY <1>6, BoundsAssumption DEF HostStart, Forget, rowVars, ackVars, TypeOK,
       RowTypeOK, AckTypeOK, FlagTypeOK, RunTypeOK, Statuses, SweepStages,
       Alive
  <2> QED
    BY <2>1, <2>2 DEF TypeOK
<1>7. CASE SweepSync
  BY <1>7 DEF SweepSync, Mark, ackVars, runVars, TypeOK, RowTypeOK, AckTypeOK,
     FlagTypeOK, RunTypeOK, Statuses, SweepStages, Alive
<1>8. CASE SweepWake
  <2>1. FlagTypeOK'
    BY <1>8, Zenon DEF SweepWake, Wake, rowVars, ackVars, runVars, TypeOK,
       FlagTypeOK
  <2>2. RowTypeOK' /\ AckTypeOK' /\ RunTypeOK' /\ (handed \in SUBSET Msgs)' /\ (faults \in 0..MaxFaults)'
    BY <1>8, BoundsAssumption DEF SweepWake, Wake, rowVars, ackVars, runVars,
       TypeOK, RowTypeOK, AckTypeOK, FlagTypeOK, RunTypeOK, Statuses,
       SweepStages, Alive
  <2> QED
    BY <2>1, <2>2 DEF TypeOK
<1>9. CASE SweepCheck
  BY <1>9 DEF SweepCheck, rowVars, ackVars, runVars, TypeOK, RowTypeOK,
     AckTypeOK, FlagTypeOK, RunTypeOK, Statuses, SweepStages, Alive
<1>10. CASE SweepKill
  <2>1. FlagTypeOK'
    BY <1>10, Zenon DEF SweepKill, Forget, rowVars, ackVars, TypeOK,
       FlagTypeOK
  <2>2. RowTypeOK' /\ AckTypeOK' /\ RunTypeOK' /\ (handed \in SUBSET Msgs)' /\ (faults \in 0..MaxFaults)'
    BY <1>10, BoundsAssumption DEF SweepKill, Forget, rowVars, ackVars,
       TypeOK, RowTypeOK, AckTypeOK, FlagTypeOK, RunTypeOK, Statuses,
       SweepStages, Alive
  <2> QED
    BY <2>1, <2>2 DEF TypeOK
<1>11. CASE SweepReset
  <2>1. (due \in [Msgs -> BOOLEAN])'
    BY <1>11, Zenon DEF SweepReset, Mark, TypeOK, RowTypeOK
  <2>2. (tries \in [Msgs -> 0..MaxTries])'
    BY <1>11, BoundsAssumption DEF SweepReset, GivenUp, Retriable, Leftover,
       TypeOK, RowTypeOK
  <2>3. (arrival \in [Msgs -> Arrivals])' /\ (status \in [Msgs -> Statuses])'
    BY <1>11 DEF SweepReset, Mark, TypeOK, RowTypeOK, Statuses
  <2>4. AckTypeOK' /\ FlagTypeOK' /\ RunTypeOK'
    BY <1>11 DEF SweepReset, ackVars, runVars, TypeOK, AckTypeOK, FlagTypeOK,
       RunTypeOK, SweepStages
  <2>5. (handed \in SUBSET Msgs)' /\ (faults \in 0..MaxFaults)'
    BY <1>11 DEF SweepReset, TypeOK
  <2> QED
    BY <2>1, <2>2, <2>3, <2>4, <2>5 DEF TypeOK, RowTypeOK
<1>12. CASE HeartbeatExpires
  BY <1>12 DEF HeartbeatExpires, rowVars, hostVars, runVars, TypeOK,
     RowTypeOK, AckTypeOK, FlagTypeOK, RunTypeOK, Statuses, SweepStages, Alive
<1>13. CASE \E m \in Msgs : BackoffElapses(m)
  BY <1>13 DEF BackoffElapses, ackVars, hostVars, runVars, TypeOK, RowTypeOK,
     AckTypeOK, FlagTypeOK, RunTypeOK, Statuses, SweepStages, Alive
<1>14. CASE \E m \in Msgs : ClaimAges(m)
  BY <1>14 DEF ClaimAges, Claims, rowVars, hostVars, runVars, TypeOK,
     RowTypeOK, AckTypeOK, FlagTypeOK, RunTypeOK, Statuses, SweepStages, Alive
<1>15. CASE Boot
  BY <1>15 DEF Boot, Mark, Claims, rowVars, hostVars, TypeOK, RowTypeOK,
     AckTypeOK, FlagTypeOK, RunTypeOK, Statuses, SweepStages, Alive
<1>16. CASE Poll
  BY <1>16, PollableFacts DEF Poll, Claim, Mark, rowVars, hostVars, TypeOK,
     RowTypeOK, AckTypeOK, FlagTypeOK, RunTypeOK, Statuses, SweepStages, Alive
<1>17. CASE Commands
  BY <1>17 DEF Commands, Mark, rowVars, hostVars, TypeOK, RowTypeOK,
     AckTypeOK, FlagTypeOK, RunTypeOK, Statuses, SweepStages, Alive
<1>18. CASE ScriptRuns
  BY <1>18 DEF ScriptRuns, Tasks, Touch, Claims, rowVars, hostVars, runVars,
     TypeOK, RowTypeOK, AckTypeOK, FlagTypeOK, RunTypeOK, Statuses,
     SweepStages, Alive
<1>19. CASE \E skipped \in SUBSET Tasks : StartQuery(skipped)
  <2> PICK skipped \in SUBSET Tasks : StartQuery(skipped)
    BY <1>19
  <2>1. skipped \subseteq Msgs /\ batch \subseteq Msgs
    BY DEF Tasks, TypeOK, RunTypeOK
  <2>2. (prompts \in Seq(SUBSET Msgs))'
    <3>1. CASE batch = skipped
      BY <3>1 DEF StartQuery, TypeOK, RunTypeOK
    <3>2. CASE batch # skipped
      <4>1. prompts' = <<batch \ skipped>>
        BY <3>2 DEF StartQuery
      <4>2. batch \ skipped \in SUBSET Msgs
        BY <2>1
      <4> QED
        BY <4>1, <4>2
    <3> QED
      BY <3>1, <3>2
  <2>3. RowTypeOK' /\ FlagTypeOK' /\ (sweep \in SweepStages)'
    BY DEF StartQuery, rowVars, hostVars, TypeOK, RowTypeOK, FlagTypeOK, RunTypeOK
  <2>4. AckTypeOK'
    BY <2>1 DEF StartQuery, Mark, Touch, Claims, TypeOK, AckTypeOK
  <2>5. /\ (batch \in SUBSET Msgs)' /\ (follow \in SUBSET Msgs)'
        /\ (cpc \in Alive \cup {"none", "exited"})'
    BY <2>1 DEF StartQuery, TypeOK, RunTypeOK, Alive
  <2>6. (handed \in SUBSET Msgs)' /\ (faults \in 0..MaxFaults)'
    BY <2>1 DEF StartQuery, TypeOK
  <2> QED
    BY <2>2, <2>3, <2>4, <2>5, <2>6 DEF TypeOK, RunTypeOK
<1>20. CASE FollowUpClaim
  BY <1>20, PollableFacts DEF FollowUpClaim, Claim, Mark, rowVars, hostVars,
     TypeOK, RowTypeOK, AckTypeOK, FlagTypeOK, RunTypeOK, Statuses,
     SweepStages, Alive
<1>21. CASE FollowUpPush
  <2>1. FlagTypeOK'
    BY <1>21, Zenon DEF FollowUpPush, Mark, rowVars, hostVars, TypeOK,
       FlagTypeOK
  <2>2. RowTypeOK' /\ AckTypeOK' /\ RunTypeOK' /\ (handed \in SUBSET Msgs)' /\ (faults \in 0..MaxFaults)'
    BY <1>21, BoundsAssumption DEF FollowUpPush, Mark, rowVars, hostVars,
       TypeOK, RowTypeOK, AckTypeOK, FlagTypeOK, RunTypeOK, Statuses,
       SweepStages, Alive
  <2> QED
    BY <2>1, <2>2 DEF TypeOK
<1>22. CASE Event
  BY <1>22 DEF Event, Touch, Claims, rowVars, hostVars, runVars, TypeOK,
     RowTypeOK, AckTypeOK, FlagTypeOK, RunTypeOK, Statuses, SweepStages, Alive
<1>23. CASE Result
  BY <1>23 DEF Result, Touch, Claims, Mark, rowVars, hostVars, TypeOK,
     RowTypeOK, AckTypeOK, FlagTypeOK, RunTypeOK, Statuses, SweepStages, Alive
<1>24. CASE QueryEnds
  <2>1. FlagTypeOK'
    BY <1>24, Zenon DEF QueryEnds, Mark, Forget, rowVars, hostVars, TypeOK,
       FlagTypeOK
  <2>2. RowTypeOK' /\ AckTypeOK' /\ RunTypeOK' /\ (handed \in SUBSET Msgs)' /\ (faults \in 0..MaxFaults)'
    BY <1>24, BoundsAssumption DEF QueryEnds, Mark, Forget, rowVars, hostVars,
       TypeOK, RowTypeOK, AckTypeOK, FlagTypeOK, RunTypeOK, Statuses,
       SweepStages, Alive
  <2> QED
    BY <2>1, <2>2 DEF TypeOK
<1>25. CASE Hang
  <2>1. FlagTypeOK'
    BY <1>25, Zenon DEF Hang, Fault, rowVars, ackVars, hostVars, TypeOK,
       FlagTypeOK
  <2>2. RowTypeOK' /\ AckTypeOK' /\ RunTypeOK' /\ (handed \in SUBSET Msgs)' /\ (faults \in 0..MaxFaults)'
    BY <1>25, BoundsAssumption DEF Hang, Fault, rowVars, ackVars, hostVars,
       TypeOK, RowTypeOK, AckTypeOK, FlagTypeOK, RunTypeOK, Statuses,
       SweepStages, Alive
  <2> QED
    BY <2>1, <2>2 DEF TypeOK
<1>26. CASE Dies
  <2>1. FlagTypeOK'
    BY <1>26, Zenon DEF Dies, Alive, Fault, Forget, rowVars, ackVars,
       hostVars, TypeOK, FlagTypeOK
  <2>2. RowTypeOK' /\ AckTypeOK' /\ RunTypeOK' /\ (handed \in SUBSET Msgs)' /\ (faults \in 0..MaxFaults)'
    BY <1>26, BoundsAssumption DEF Dies, Alive, Fault, Forget, rowVars,
       ackVars, hostVars, TypeOK, RowTypeOK, AckTypeOK, FlagTypeOK, RunTypeOK,
       Statuses, SweepStages
  <2> QED
    BY <2>1, <2>2 DEF TypeOK
<1> QED
  BY <1>1, <1>2, <1>3, <1>4, <1>5, <1>6, <1>7, <1>8, <1>9, <1>10, <1>11,
     <1>12, <1>13, <1>14, <1>15, <1>16, <1>17, <1>18, <1>19, <1>20, <1>21,
     <1>22, <1>23, <1>24, <1>25, <1>26 DEF Next, HostStep, SweepStep,
     TimeStep, ContainerStep

LEMMA HostStepInv == TypeOK /\ HostInv /\ Next => HostInv'
<1> SUFFICES ASSUME TypeOK, HostInv, Next PROVE HostInv'
  OBVIOUS
<1>1. CASE \E m \in Msgs : Insert(m)
  BY <1>1 DEF Insert, Wake, ackVars, runVars, HostInv, TypeOK, FlagTypeOK,
     RunTypeOK, SweepStages, Alive, HostFree
<1>2. CASE SpawnDone
  BY <1>2 DEF SpawnDone, rowVars, HostInv, TypeOK, FlagTypeOK, RunTypeOK,
     SweepStages, Alive, HostFree
<1>3. CASE SpawnFails
  BY <1>3 DEF SpawnFails, Fault, rowVars, ackVars, runVars, HostInv, TypeOK,
     FlagTypeOK, RunTypeOK, SweepStages, Alive, HostFree
<1>4. CASE Close
  BY <1>4 DEF Close, rowVars, ackVars, HostInv, TypeOK, FlagTypeOK, RunTypeOK,
     SweepStages, Alive, HostFree
<1>5. CASE HostCrash
  BY <1>5 DEF HostCrash, Fault, rowVars, ackVars, HostInv, TypeOK, FlagTypeOK,
     RunTypeOK, SweepStages, Alive, HostFree
<1>6. CASE HostStart
  BY <1>6 DEF HostStart, Forget, rowVars, ackVars, HostInv, TypeOK,
     FlagTypeOK, RunTypeOK, SweepStages, Alive, HostFree
<1>7. CASE SweepSync
  BY <1>7 DEF SweepSync, Mark, ackVars, runVars, HostInv, TypeOK, FlagTypeOK,
     RunTypeOK, SweepStages, Alive, HostFree
<1>8. CASE SweepWake
  BY <1>8 DEF SweepWake, Wake, rowVars, ackVars, runVars, HostInv, TypeOK,
     FlagTypeOK, RunTypeOK, SweepStages, Alive, HostFree
<1>9. CASE SweepCheck
  BY <1>9 DEF SweepCheck, rowVars, ackVars, runVars, HostInv, TypeOK,
     FlagTypeOK, RunTypeOK, SweepStages, Alive, HostFree
<1>10. CASE SweepKill
  BY <1>10 DEF SweepKill, Forget, rowVars, ackVars, HostInv, TypeOK,
     FlagTypeOK, RunTypeOK, SweepStages, Alive, HostFree
<1>11. CASE SweepReset
  BY <1>11 DEF SweepReset, Mark, GivenUp, Retriable, Leftover, Claims,
     ackVars, runVars, HostInv, TypeOK, FlagTypeOK, RunTypeOK, SweepStages,
     Alive, HostFree
<1>12. CASE HeartbeatExpires
  BY <1>12 DEF HeartbeatExpires, rowVars, hostVars, runVars, HostInv, TypeOK,
     FlagTypeOK, RunTypeOK, SweepStages, Alive, HostFree
<1>13. CASE \E m \in Msgs : BackoffElapses(m)
  BY <1>13 DEF BackoffElapses, ackVars, hostVars, runVars, HostInv, TypeOK,
     FlagTypeOK, RunTypeOK, SweepStages, Alive, HostFree
<1>14. CASE \E m \in Msgs : ClaimAges(m)
  BY <1>14 DEF ClaimAges, Claims, rowVars, hostVars, runVars, HostInv, TypeOK,
     FlagTypeOK, RunTypeOK, SweepStages, Alive, HostFree
<1>15. CASE Boot
  BY <1>15 DEF Boot, Mark, Claims, rowVars, hostVars, HostInv, TypeOK,
     FlagTypeOK, RunTypeOK, SweepStages, Alive, HostFree
<1>16. CASE Poll
  BY <1>16 DEF Poll, Claim, Mark, rowVars, hostVars, HostInv, TypeOK,
     FlagTypeOK, RunTypeOK, SweepStages, Alive, HostFree
<1>17. CASE Commands
  BY <1>17 DEF Commands, Mark, rowVars, hostVars, HostInv, TypeOK, FlagTypeOK,
     RunTypeOK, SweepStages, Alive, HostFree
<1>18. CASE ScriptRuns
  BY <1>18 DEF ScriptRuns, Tasks, Touch, Claims, rowVars, hostVars, runVars,
     HostInv, TypeOK, FlagTypeOK, RunTypeOK, SweepStages, Alive, HostFree
<1>19. CASE \E skipped \in SUBSET Tasks : StartQuery(skipped)
  BY <1>19 DEF StartQuery, Mark, Touch, Claims, rowVars, hostVars, HostInv,
     TypeOK, FlagTypeOK, RunTypeOK, SweepStages, Alive, HostFree
<1>20. CASE FollowUpClaim
  BY <1>20 DEF FollowUpClaim, Claim, Mark, rowVars, hostVars, HostInv, TypeOK,
     FlagTypeOK, RunTypeOK, SweepStages, Alive, HostFree
<1>21. CASE FollowUpPush
  BY <1>21 DEF FollowUpPush, Mark, rowVars, hostVars, HostInv, TypeOK,
     FlagTypeOK, RunTypeOK, SweepStages, Alive, HostFree
<1>22. CASE Event
  BY <1>22 DEF Event, Touch, Claims, rowVars, hostVars, runVars, HostInv,
     TypeOK, FlagTypeOK, RunTypeOK, SweepStages, Alive, HostFree
<1>23. CASE Result
  BY <1>23 DEF Result, Touch, Claims, Mark, rowVars, hostVars, HostInv,
     TypeOK, FlagTypeOK, RunTypeOK, SweepStages, Alive, HostFree
<1>24. CASE QueryEnds
  BY <1>24 DEF QueryEnds, Mark, Forget, rowVars, hostVars, HostInv, TypeOK,
     FlagTypeOK, RunTypeOK, SweepStages, Alive, HostFree
<1>25. CASE Hang
  BY <1>25 DEF Hang, Fault, rowVars, ackVars, hostVars, HostInv, TypeOK,
     FlagTypeOK, RunTypeOK, SweepStages, Alive, HostFree
<1>26. CASE Dies
  BY <1>26 DEF Dies, Alive, Fault, Forget, rowVars, ackVars, hostVars,
     HostInv, TypeOK, FlagTypeOK, RunTypeOK, SweepStages, HostFree
<1> QED
  BY <1>1, <1>2, <1>3, <1>4, <1>5, <1>6, <1>7, <1>8, <1>9, <1>10, <1>11,
     <1>12, <1>13, <1>14, <1>15, <1>16, <1>17, <1>18, <1>19, <1>20, <1>21,
     <1>22, <1>23, <1>24, <1>25, <1>26 DEF Next, HostStep, SweepStep,
     TimeStep, ContainerStep

LEMMA RunStepInv == TypeOK /\ HostInv /\ RunInv /\ Next => RunInv'
<1> SUFFICES ASSUME TypeOK, HostInv, RunInv, Next PROVE RunInv'
  OBVIOUS
<1>1. CASE \E m \in Msgs : Insert(m)
  BY <1>1 DEF Insert, Wake, ackVars, runVars, RunInv, NoOrphanClaims, TypeOK,
     AckTypeOK, RunTypeOK, Alive, Claims, HostInv
<1>2. CASE SpawnDone
  BY <1>2 DEF SpawnDone, rowVars, RunInv, NoOrphanClaims, TypeOK, AckTypeOK,
     RunTypeOK, Alive, Claims, HostInv
<1>3. CASE SpawnFails
  BY <1>3, BoundsAssumption DEF SpawnFails, Fault, rowVars, ackVars, runVars,
     RunInv, NoOrphanClaims, TypeOK, AckTypeOK, RunTypeOK, Alive, Claims,
     HostInv
<1>4. CASE Close
  BY <1>4 DEF Close, rowVars, ackVars, RunInv, NoOrphanClaims, TypeOK,
     AckTypeOK, RunTypeOK, Alive, Claims, HostInv
<1>5. CASE HostCrash
  BY <1>5, BoundsAssumption DEF HostCrash, Fault, rowVars, ackVars, RunInv,
     NoOrphanClaims, TypeOK, AckTypeOK, RunTypeOK, Alive, Claims, HostInv
<1>6. CASE HostStart
  BY <1>6 DEF HostStart, Forget, rowVars, ackVars, RunInv, NoOrphanClaims,
     TypeOK, AckTypeOK, RunTypeOK, Alive, Claims, HostInv
<1>7. CASE SweepSync
  BY <1>7 DEF SweepSync, Mark, ackVars, runVars, RunInv, NoOrphanClaims,
     TypeOK, AckTypeOK, RunTypeOK, Alive, Claims, HostInv
<1>8. CASE SweepWake
  BY <1>8 DEF SweepWake, Wake, rowVars, ackVars, runVars, RunInv,
     NoOrphanClaims, TypeOK, AckTypeOK, RunTypeOK, Alive, Claims, HostInv
<1>9. CASE SweepCheck
  BY <1>9 DEF SweepCheck, rowVars, ackVars, runVars, RunInv, NoOrphanClaims,
     TypeOK, AckTypeOK, RunTypeOK, Alive, Claims, HostInv
<1>10. CASE SweepKill
  BY <1>10 DEF SweepKill, Forget, rowVars, ackVars, RunInv, NoOrphanClaims,
     TypeOK, AckTypeOK, RunTypeOK, Alive, Claims, HostInv
<1>11. CASE SweepReset
  BY <1>11, BoundsAssumption DEF SweepReset, Mark, GivenUp, Retriable,
     Leftover, Claims, ackVars, runVars, RunInv, NoOrphanClaims, TypeOK,
     AckTypeOK, RunTypeOK, Alive, HostInv
<1>12. CASE HeartbeatExpires
  BY <1>12 DEF HeartbeatExpires, rowVars, hostVars, runVars, RunInv,
     NoOrphanClaims, TypeOK, AckTypeOK, RunTypeOK, Alive, Claims, HostInv
<1>13. CASE \E m \in Msgs : BackoffElapses(m)
  BY <1>13 DEF BackoffElapses, ackVars, hostVars, runVars, RunInv,
     NoOrphanClaims, TypeOK, AckTypeOK, RunTypeOK, Alive, Claims, HostInv
<1>14. CASE \E m \in Msgs : ClaimAges(m)
  BY <1>14 DEF ClaimAges, Claims, rowVars, hostVars, runVars, RunInv,
     NoOrphanClaims, TypeOK, AckTypeOK, RunTypeOK, Alive, HostInv
<1>15. CASE Boot
  BY <1>15 DEF Boot, Mark, Claims, rowVars, hostVars, RunInv, NoOrphanClaims,
     TypeOK, AckTypeOK, RunTypeOK, Alive, HostInv
<1>16. CASE Poll
  BY <1>16, PollableFacts DEF Poll, Claim, Mark, rowVars, hostVars, RunInv,
     NoOrphanClaims, TypeOK, AckTypeOK, RunTypeOK, Alive, Claims, HostInv
<1>17. CASE Commands
  BY <1>17 DEF Commands, Mark, rowVars, hostVars, RunInv, NoOrphanClaims,
     TypeOK, AckTypeOK, RunTypeOK, Alive, Claims, HostInv
<1>18. CASE ScriptRuns
  BY <1>18 DEF ScriptRuns, Tasks, Touch, Claims, rowVars, hostVars, runVars,
     RunInv, NoOrphanClaims, TypeOK, AckTypeOK, RunTypeOK, Alive, HostInv
<1>19. CASE \E skipped \in SUBSET Tasks : StartQuery(skipped)
  BY <1>19 DEF StartQuery, Mark, Touch, Claims, rowVars, hostVars, RunInv,
     NoOrphanClaims, TypeOK, AckTypeOK, RunTypeOK, Alive, HostInv
<1>20. CASE FollowUpClaim
  BY <1>20, PollableFacts DEF FollowUpClaim, Claim, Mark, rowVars, hostVars,
     RunInv, NoOrphanClaims, TypeOK, AckTypeOK, RunTypeOK, Alive, Claims,
     HostInv
<1>21. CASE FollowUpPush
  BY <1>21 DEF FollowUpPush, Mark, rowVars, hostVars, RunInv, NoOrphanClaims,
     TypeOK, AckTypeOK, RunTypeOK, Alive, Claims, HostInv
<1>22. CASE Event
  BY <1>22 DEF Event, Touch, Claims, rowVars, hostVars, runVars, RunInv,
     NoOrphanClaims, TypeOK, AckTypeOK, RunTypeOK, Alive, HostInv
<1>23. CASE Result
  BY <1>23 DEF Result, Touch, Claims, Mark, rowVars, hostVars, RunInv,
     NoOrphanClaims, TypeOK, AckTypeOK, RunTypeOK, Alive, HostInv
<1>24. CASE QueryEnds
  BY <1>24 DEF QueryEnds, Mark, Forget, rowVars, hostVars, RunInv,
     NoOrphanClaims, TypeOK, AckTypeOK, RunTypeOK, Alive, Claims, HostInv
<1>25. CASE Hang
  BY <1>25, BoundsAssumption DEF Hang, Fault, rowVars, ackVars, hostVars,
     RunInv, NoOrphanClaims, TypeOK, AckTypeOK, RunTypeOK, Alive, Claims,
     HostInv
<1>26. CASE Dies
  BY <1>26, BoundsAssumption DEF Dies, Alive, Fault, Forget, rowVars, ackVars,
     hostVars, RunInv, NoOrphanClaims, TypeOK, AckTypeOK, RunTypeOK, Claims,
     HostInv
<1> QED
  BY <1>1, <1>2, <1>3, <1>4, <1>5, <1>6, <1>7, <1>8, <1>9, <1>10, <1>11,
     <1>12, <1>13, <1>14, <1>15, <1>16, <1>17, <1>18, <1>19, <1>20, <1>21,
     <1>22, <1>23, <1>24, <1>25, <1>26 DEF Next, HostStep, SweepStep,
     TimeStep, ContainerStep

LEMMA RowStepInv == TypeOK /\ HostInv /\ RunInv /\ RowInv /\ Next => RowInv'
<1> SUFFICES ASSUME TypeOK, HostInv, RunInv, RowInv, Next PROVE RowInv'
  OBVIOUS
<1>1. CASE \E m \in Msgs : Insert(m)
  BY <1>1 DEF Insert, Wake, ackVars, runVars, RowInv, RunInv, HostInv,
     NoOrphanClaims, TypeOK, RowTypeOK, AckTypeOK, RunTypeOK, Alive, Claims,
     Statuses
<1>2. CASE SpawnDone
  BY <1>2 DEF SpawnDone, rowVars, RowInv, RunInv, HostInv, NoOrphanClaims,
     TypeOK, RowTypeOK, AckTypeOK, RunTypeOK, Alive, Claims, Statuses
<1>3. CASE SpawnFails
  BY <1>3, BoundsAssumption DEF SpawnFails, Fault, rowVars, ackVars, runVars,
     RowInv, RunInv, HostInv, NoOrphanClaims, TypeOK, RowTypeOK, AckTypeOK,
     RunTypeOK, Alive, Claims, Statuses
<1>4. CASE Close
  BY <1>4 DEF Close, rowVars, ackVars, RowInv, RunInv, HostInv,
     NoOrphanClaims, TypeOK, RowTypeOK, AckTypeOK, RunTypeOK, Alive, Claims,
     Statuses
<1>5. CASE HostCrash
  BY <1>5, BoundsAssumption DEF HostCrash, Fault, rowVars, ackVars, RowInv,
     RunInv, HostInv, NoOrphanClaims, TypeOK, RowTypeOK, AckTypeOK, RunTypeOK,
     Alive, Claims, Statuses
<1>6. CASE HostStart
  BY <1>6 DEF HostStart, Forget, rowVars, ackVars, RowInv, RunInv, HostInv,
     NoOrphanClaims, TypeOK, RowTypeOK, AckTypeOK, RunTypeOK, Alive, Claims,
     Statuses
<1>7. CASE SweepSync
  BY <1>7 DEF SweepSync, Mark, ackVars, runVars, RowInv, RunInv, HostInv,
     NoOrphanClaims, TypeOK, RowTypeOK, AckTypeOK, RunTypeOK, Alive, Claims,
     Statuses
<1>8. CASE SweepWake
  BY <1>8 DEF SweepWake, Wake, rowVars, ackVars, runVars, RowInv, RunInv,
     HostInv, NoOrphanClaims, TypeOK, RowTypeOK, AckTypeOK, RunTypeOK, Alive,
     Claims, Statuses
<1>9. CASE SweepCheck
  BY <1>9 DEF SweepCheck, rowVars, ackVars, runVars, RowInv, RunInv, HostInv,
     NoOrphanClaims, TypeOK, RowTypeOK, AckTypeOK, RunTypeOK, Alive, Claims,
     Statuses
<1>10. CASE SweepKill
  BY <1>10 DEF SweepKill, Forget, rowVars, ackVars, RowInv, RunInv, HostInv,
     NoOrphanClaims, TypeOK, RowTypeOK, AckTypeOK, RunTypeOK, Alive, Claims,
     Statuses
<1>11. CASE SweepReset
  BY <1>11, BoundsAssumption DEF SweepReset, Mark, GivenUp, Retriable,
     Leftover, Claims, ackVars, runVars, RowInv, RunInv, HostInv,
     NoOrphanClaims, TypeOK, RowTypeOK, AckTypeOK, RunTypeOK, Alive, Statuses
<1>12. CASE HeartbeatExpires
  BY <1>12 DEF HeartbeatExpires, rowVars, hostVars, runVars, RowInv, RunInv,
     HostInv, NoOrphanClaims, TypeOK, RowTypeOK, AckTypeOK, RunTypeOK, Alive,
     Claims, Statuses
<1>13. CASE \E m \in Msgs : BackoffElapses(m)
  BY <1>13 DEF BackoffElapses, ackVars, hostVars, runVars, RowInv, RunInv,
     HostInv, NoOrphanClaims, TypeOK, RowTypeOK, AckTypeOK, RunTypeOK, Alive,
     Claims, Statuses
<1>14. CASE \E m \in Msgs : ClaimAges(m)
  BY <1>14 DEF ClaimAges, Claims, rowVars, hostVars, runVars, RowInv, RunInv,
     HostInv, NoOrphanClaims, TypeOK, RowTypeOK, AckTypeOK, RunTypeOK, Alive,
     Statuses
<1>15. CASE Boot
  BY <1>15 DEF Boot, Mark, Claims, rowVars, hostVars, RowInv, RunInv, HostInv,
     NoOrphanClaims, TypeOK, RowTypeOK, AckTypeOK, RunTypeOK, Alive, Statuses
<1>16. CASE Poll
  BY <1>16, PollableFacts DEF Poll, Claim, Mark, rowVars, hostVars, RowInv,
     RunInv, HostInv, NoOrphanClaims, TypeOK, RowTypeOK, AckTypeOK, RunTypeOK,
     Alive, Claims, Statuses
<1>17. CASE Commands
  BY <1>17 DEF Commands, Mark, rowVars, hostVars, RowInv, RunInv, HostInv,
     NoOrphanClaims, TypeOK, RowTypeOK, AckTypeOK, RunTypeOK, Alive, Claims,
     Statuses
<1>18. CASE ScriptRuns
  BY <1>18 DEF ScriptRuns, Tasks, Touch, Claims, rowVars, hostVars, runVars,
     RowInv, RunInv, HostInv, NoOrphanClaims, TypeOK, RowTypeOK, AckTypeOK,
     RunTypeOK, Alive, Statuses
<1>19. CASE \E skipped \in SUBSET Tasks : StartQuery(skipped)
  <2> PICK skipped \in SUBSET Tasks : StartQuery(skipped)
    BY <1>19
  <2>1. skipped \subseteq batch
    BY DEF Tasks
  <2> QED
    BY <2>1 DEF StartQuery, Mark, rowVars, RowInv, RunInv, TypeOK, RowTypeOK,
       AckTypeOK, RunTypeOK, Statuses
<1>20. CASE FollowUpClaim
  BY <1>20, PollableFacts DEF FollowUpClaim, Claim, Mark, rowVars, hostVars,
     RowInv, RunInv, HostInv, NoOrphanClaims, TypeOK, RowTypeOK, AckTypeOK,
     RunTypeOK, Alive, Claims, Statuses
<1>21. CASE FollowUpPush
  BY <1>21 DEF FollowUpPush, Mark, rowVars, hostVars, RowInv, RunInv, HostInv,
     NoOrphanClaims, TypeOK, RowTypeOK, AckTypeOK, RunTypeOK, Alive, Claims,
     Statuses
<1>22. CASE Event
  BY <1>22 DEF Event, Touch, Claims, rowVars, hostVars, runVars, RowInv,
     RunInv, HostInv, NoOrphanClaims, TypeOK, RowTypeOK, AckTypeOK, RunTypeOK,
     Alive, Statuses
<1>23. CASE Result
  BY <1>23 DEF Result, Touch, Claims, Mark, rowVars, hostVars, RowInv, RunInv,
     HostInv, NoOrphanClaims, TypeOK, RowTypeOK, AckTypeOK, RunTypeOK, Alive,
     Statuses
<1>24. CASE QueryEnds
  BY <1>24 DEF QueryEnds, Mark, Forget, rowVars, hostVars, RowInv, RunInv,
     HostInv, NoOrphanClaims, TypeOK, RowTypeOK, AckTypeOK, RunTypeOK, Alive,
     Claims, Statuses
<1>25. CASE Hang
  BY <1>25, BoundsAssumption DEF Hang, Fault, rowVars, ackVars, hostVars,
     RowInv, RunInv, HostInv, NoOrphanClaims, TypeOK, RowTypeOK, AckTypeOK,
     RunTypeOK, Alive, Claims, Statuses
<1>26. CASE Dies
  BY <1>26, BoundsAssumption DEF Dies, Alive, Fault, Forget, rowVars, ackVars,
     hostVars, RowInv, RunInv, HostInv, NoOrphanClaims, TypeOK, RowTypeOK,
     AckTypeOK, RunTypeOK, Claims, Statuses
<1> QED
  BY <1>1, <1>2, <1>3, <1>4, <1>5, <1>6, <1>7, <1>8, <1>9, <1>10, <1>11,
     <1>12, <1>13, <1>14, <1>15, <1>16, <1>17, <1>18, <1>19, <1>20, <1>21,
     <1>22, <1>23, <1>24, <1>25, <1>26 DEF Next, HostStep, SweepStep,
     TimeStep, ContainerStep

LEMMA InvInit == Init => IInv
<1> SUFFICES ASSUME Init PROVE IInv
  OBVIOUS
<1>1. HostInv
  BY DEF Init, HostInv, Alive
<1>2. RunInv
  BY DEF Init, RunInv, NoOrphanClaims, Alive
<1>3. RowInv
  BY DEF Init, RowInv
<1> QED
  BY <1>1, <1>2, <1>3, TypeInit DEF IInv

LEMMA InvStep == IInv /\ [Next]_vars => IInv'
<1> SUFFICES ASSUME IInv, [Next]_vars PROVE IInv'
  OBVIOUS
<1>1. CASE Next
  BY <1>1, TypeStep, HostStepInv, RunStepInv, RowStepInv DEF IInv
<1>2. CASE UNCHANGED vars
  <2> USE <1>2 DEF vars, rowVars, ackVars, hostVars, runVars
  <2>1. TypeOK'
    BY DEF IInv, TypeOK, RowTypeOK, AckTypeOK, FlagTypeOK, RunTypeOK
  <2>2. HostInv'
    BY DEF IInv, HostInv
  <2>3. RunInv'
    BY DEF IInv, RunInv, NoOrphanClaims, Claims
  <2>4. RowInv'
    BY DEF IInv, RowInv
  <2> QED
    BY <2>1, <2>2, <2>3, <2>4 DEF IInv
<1> QED
  BY <1>1, <1>2

-----------------------------------------------------------------------------
(* Theorems.                                                               *)

\* The inductive invariant holds of every reachable state.
THEOREM Invariance == Spec => []IInv
BY InvInit, InvStep, PTL DEF Spec

\* Every variable keeps its type, whatever the bounds.
THEOREM TypeCorrect == Spec => []TypeOK
<1>1. IInv => TypeOK
  BY DEF IInv
<1> QED
  BY <1>1, Invariance, PTL

\* wakePromises, activeContainers and cleanupOrphans let at most one container
\* work on the session.
THEOREM OneContainerHolds == Spec => []OneContainer
<1>1. IInv => OneContainer
  BY DEF IInv, HostInv, OneContainer
<1> QED
  BY <1>1, Invariance, PTL

\* A started container finds no claim of a predecessor on the table.
THEOREM NoOrphanClaimsHolds == Spec => []NoOrphanClaims
<1>1. IInv => NoOrphanClaims
  BY DEF IInv, RunInv
<1> QED
  BY <1>1, Invariance, PTL

\* A completed row was handed to the agent, run as a command, or gated by its
\* own script.
THEOREM CompletedWasHandedOverHolds == Spec => []CompletedWasHandedOver
<1>1. IInv => CompletedWasHandedOver
  BY DEF IInv, RowInv, CompletedWasHandedOver
<1> QED
  BY <1>1, Invariance, PTL

-----------------------------------------------------------------------------
(* Retries.                                                                *)

LEMMA RescheduleStep ==
    ASSUME IInv, [Next]_vars, NEW m \in Msgs,
           tries'[m] # tries[m] \/ (status'[m] = "failed" /\ status[m] # "failed")
    PROVE  cpc \notin Alive
<1> USE DEF rowVars, vars
<1>1. CASE SweepReset
  BY <1>1 DEF SweepReset, IInv, HostInv
<1>2. CASE \E n \in Msgs : Insert(n)
  BY <1>2 DEF Insert, IInv, TypeOK, RowTypeOK
<1>3. CASE SweepSync
  BY <1>3 DEF SweepSync, Mark, IInv, TypeOK, RowTypeOK
<1>4. CASE TimeStep
  BY <1>4 DEF TimeStep, HeartbeatExpires, BackoffElapses, ClaimAges
<1>5. CASE SpawnDone \/ SpawnFails \/ Close \/ HostCrash \/ HostStart
  BY <1>5 DEF SpawnDone, SpawnFails, Close, HostCrash, HostStart
<1>6. CASE SweepWake \/ SweepCheck \/ SweepKill
  BY <1>6 DEF SweepWake, SweepCheck, SweepKill
<1>7. CASE ContainerStep
  BY <1>7 DEF ContainerStep, Boot, Poll, Commands, ScriptRuns, StartQuery,
     FollowUpClaim, FollowUpPush, Event, Result, QueryEnds, Hang, Dies
<1>8. CASE UNCHANGED vars
  BY <1>8
<1> QED
  BY <1>1, <1>2, <1>3, <1>4, <1>5, <1>6, <1>7, <1>8 DEF Next, HostStep, SweepStep

\* No retry or give-up ever runs beside the attempt it replaces.
THEOREM RescheduledOnlyWhenDeadHolds == Spec => RescheduledOnlyWhenDead
<1>1. IInv /\ [Next]_vars
        => [\A m \in Msgs :
              (tries'[m] # tries[m] \/ (status'[m] = "failed" /\ status[m] # "failed"))
                 => cpc \notin Alive]_vars
  BY RescheduleStep
<1> QED
  BY <1>1, Invariance, PTL DEF Spec, RescheduledOnlyWhenDead

-----------------------------------------------------------------------------
(* The session implements MessageContract.                                 *)

\* Rows and acknowledgements decide the stage.
LEMMA StageStutters == status' = status /\ ack' = ack => stage' = stage
BY DEF stage

\* A claimed row that is not given up is taken, whatever its history.
LEMMA ClaimedIsTaken ==
    ASSUME IInv, NEW m \in Msgs, ack[m] = "processing", status[m] # "failed"
    PROVE  stage[m] = "taken"
BY DEF stage, IInv, TypeOK, RowTypeOK, RowInv, Statuses

\* Completing the claims of S moves them from taken to done.
LEMMA Completing ==
    ASSUME IInv, NEW S \in SUBSET Msgs, S \subseteq batch \cup follow,
           status' = status, ack' = Mark(ack, S, "completed")
    PROVE  [Contract!Next]_stage
<1> DEFINE T == {m \in S : ack[m] = "processing"}
<1>1. \A m \in T : stage[m] = "taken"
  BY ClaimedIsTaken DEF IInv, RowInv
<1>2. stage' = [m \in Msgs |-> IF m \in T THEN "done" ELSE stage[m]]
  BY DEF stage, Mark, IInv, RowInv, TypeOK, RowTypeOK, AckTypeOK, Statuses
<1>3. CASE T = {}
  <2>1. stage' = [m \in Msgs |-> stage[m]]
    BY <1>2, <1>3
  <2> QED
    BY <2>1 DEF stage
<1>4. CASE T # {}
  <2>1. Contract!Finish(T)
    BY <1>1, <1>2, <1>4 DEF Contract!Finish, Contract!Move
  <2> QED
    BY <2>1 DEF Contract!Next
<1> QED
  BY <1>3, <1>4

\* Claiming S moves it from waiting to taken.
LEMMA Claiming ==
    ASSUME IInv, NEW S \in SUBSET Msgs, S # {}, status' = status, Claim(S),
           \A m \in S : status[m] = "pending" /\ ack[m] = "none"
    PROVE  [Contract!Next]_stage
<1>1. \A m \in S : stage[m] = "waiting"
  BY DEF stage
<1>2. stage' = [m \in Msgs |-> IF m \in S THEN "taken" ELSE stage[m]]
  BY DEF stage, Claim, Mark
<1>3. Contract!Take(S)
  BY <1>1, <1>2 DEF Contract!Take, Contract!Move
<1> QED
  BY <1>3 DEF Contract!Next

LEMMA ContractInit == Init => Contract!Init
BY DEF Init, Contract!Init, stage

LEMMA ContractStep == IInv /\ [Next]_vars => [Contract!Next]_stage
<1> SUFFICES ASSUME IInv, [Next]_vars PROVE [Contract!Next]_stage
  OBVIOUS
<1> USE DEF rowVars, ackVars, vars
<1>1. CASE \E m \in Msgs : Insert(m)
  <2> PICK m \in Msgs : Insert(m)
    BY <1>1
  <2>0. status[m] = "absent" /\ ack[m] = "none"
    BY MsgsAssumption DEF Insert, IInv, RowInv
  <2>1. stage[m] = "unsent"
    BY <2>0 DEF stage
  <2>2. stage' = [n \in Msgs |-> IF n \in {m} THEN "waiting" ELSE stage[n]]
    BY <2>0 DEF Insert, stage, IInv, TypeOK, RowTypeOK
  <2>3. Contract!Arrive(m)
    BY <2>1, <2>2 DEF Contract!Arrive, Contract!Move
  <2> QED
    BY <2>3 DEF Contract!Next
<1>2. CASE SweepSync
  <2>1. stage' = stage
    BY <1>2 DEF SweepSync, Mark, stage, IInv, TypeOK, RowTypeOK, AckTypeOK, RowInv, Statuses
  <2> QED
    BY <2>1
<1>3. CASE SweepReset
  <2>1. \A m \in GivenUp : stage[m] = "taken"
    BY ClaimedIsTaken DEF GivenUp, Leftover, Claims
  <2>2. stage' = [m \in Msgs |-> IF m \in GivenUp THEN "dead" ELSE stage[m]]
    BY <1>3 DEF SweepReset, Mark, stage, GivenUp, Leftover, Claims
  <2>3. CASE GivenUp = {}
    <3>1. stage' = [m \in Msgs |-> stage[m]]
      BY <2>2, <2>3
    <3> QED
      BY <3>1 DEF stage
  <2>4. CASE GivenUp # {}
    <3>1. GivenUp \in SUBSET Msgs
      BY DEF GivenUp, Leftover, Claims
    <3>2. Contract!GiveUp(GivenUp)
      BY <2>1, <2>2, <2>4 DEF Contract!GiveUp, Contract!Move
    <3> QED
      BY <3>1, <3>2 DEF Contract!Next
  <2> QED
    BY <2>3, <2>4
<1>4. CASE Boot
  <2> DEFINE T == {m \in Claims : status[m] # "failed"}
  <2>1. \A m \in T : stage[m] = "taken"
    BY ClaimedIsTaken DEF Claims
  <2>2. stage' = [m \in Msgs |-> IF m \in T THEN "waiting" ELSE stage[m]]
    BY <1>4 DEF Boot, Mark, stage, Claims, IInv, RowInv, TypeOK, RowTypeOK, Statuses
  <2>3. CASE T = {}
    <3>1. stage' = [m \in Msgs |-> stage[m]]
      BY <2>2, <2>3
    <3> QED
      BY <3>1 DEF stage
  <2>4. CASE T # {}
    <3>1. T \in SUBSET Msgs
      BY DEF Claims
    <3>2. Contract!PutBack(T)
      BY <2>1, <2>2, <2>4 DEF Contract!PutBack, Contract!Move
    <3> QED
      BY <3>1, <3>2 DEF Contract!Next
  <2> QED
    BY <2>3, <2>4
<1>5. CASE Poll
  BY <1>5, PollableFacts, Claiming DEF Poll
<1>6. CASE FollowUpClaim
  BY <1>6, PollableFacts, Claiming DEF FollowUpClaim
<1>7. CASE Commands
  <2> DEFINE cmds == {m \in batch : Kind(m) = "clear"}
  <2>1. cmds \in SUBSET Msgs /\ cmds \subseteq batch \cup follow
    BY DEF IInv, TypeOK, RunTypeOK
  <2>2. status' = status /\ ack' = Mark(ack, cmds, "completed")
    BY <1>7 DEF Commands
  <2> QED
    BY <2>1, <2>2, Completing
<1>8. CASE \E skipped \in SUBSET Tasks : StartQuery(skipped)
  <2> PICK skipped \in SUBSET Tasks : StartQuery(skipped)
    BY <1>8
  <2>1. skipped \in SUBSET Msgs /\ skipped \subseteq batch \cup follow
    BY DEF Tasks, IInv, TypeOK, RunTypeOK
  <2> QED
    BY <2>1, Completing DEF StartQuery
<1>9. CASE FollowUpPush
  BY <1>9, Completing DEF FollowUpPush, IInv, TypeOK, RunTypeOK
<1>10. CASE Result \/ QueryEnds
  BY <1>10, Completing DEF Result, QueryEnds, IInv, TypeOK, RunTypeOK
<1>11. CASE \/ SpawnDone \/ SpawnFails \/ Close \/ HostCrash \/ HostStart
            \/ SweepWake \/ SweepCheck \/ SweepKill
            \/ TimeStep \/ ScriptRuns \/ Event \/ Hang \/ Dies
  BY <1>11, StageStutters DEF SpawnDone, SpawnFails, Close, HostCrash, HostStart,
     SweepWake, SweepCheck, SweepKill, TimeStep, HeartbeatExpires, BackoffElapses,
     ClaimAges, ScriptRuns, Event, Hang, Dies
<1>12. CASE UNCHANGED vars
  BY <1>12, StageStutters
<1> QED
  BY <1>1, <1>2, <1>3, <1>4, <1>5, <1>6, <1>7, <1>8, <1>9, <1>10, <1>11, <1>12
     DEF Next, HostStep, SweepStep, ContainerStep

\* Every behaviour of the session is one that MessageContract allows: completed
\* and failed are final, and reached only from a claim.
THEOREM Implementation == Spec => ImplementsContract
<1>1. Init /\ [][Next]_vars /\ []IInv => Contract!Init /\ [][Contract!Next]_stage
  BY ContractInit, ContractStep, PTL
<1> QED
  BY <1>1, Invariance, PTL DEF Spec, ImplementsContract, Contract!Spec

=============================================================================
