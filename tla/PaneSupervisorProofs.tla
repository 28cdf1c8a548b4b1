------------------------- MODULE PaneSupervisorProofs -------------------------
(***************************************************************************)
(* What the supervisor of one pane keeps, for every attempt cap and every  *)
(* bound: its types, an empty queue behind a give-up, a budget that an     *)
(* outage of ptyd leaves alone, and a cap on the restarts it pays for.     *)
(***************************************************************************)
EXTENDS PaneSupervisor, TLAPS

(* Attempts above the cap are a give-up. *)
Within(r) == r # None /\ ~r.gaveUp => r.attempts <= MaxAttempts

(* Between its probes the sweep holds a record, ptyd was there a moment    *)
(* ago, and the pane has not been given up behind its back.                *)
SweepHolds ==
  /\ sweep.pc \in {"pane", "fg"} =>
       /\ link
       /\ IF sweep.own THEN rec # None ELSE sweep.st # None
  /\ sweep.pc # "idle" => ~GaveUp /\ (sweep.st # None => ~sweep.st.gaveUp)

PaneInv == TypeOK /\ Within(rec) /\ Within(sweep.st) /\ GaveUpHoldsNothing /\ SweepHolds
(* The records of a pane that is still being restarted. *)
Sound(r) == r \in Records /\ ~r.gaveUp /\ r.attempts <= MaxAttempts

LEMMA Bounds == /\ MaxAttempts \in Nat /\ 0 \in 0 .. MaxAttempts + 1 /\ 0 <= MaxAttempts
                /\ \A n \in 0 .. MaxAttempts + 1 :
                     n <= MaxAttempts => n \in Nat /\ n + 1 \in 0 .. MaxAttempts + 1
  BY SupervisorAssumption

LEMMA FreshSound == Sound(Fresh) /\ Fresh # None
<1>1. Fresh \in Records
  BY Bounds DEF Fresh, Records
<1>2. ~Fresh.gaveUp /\ Fresh.attempts = 0
  BY DEF Fresh
<1> QED
  BY <1>1, <1>2, Bounds, NoneAssumption DEF Sound

(* A repair and a heal give the attempts back and nothing else; the next   *)
(* attempt is counted, and only a give-up sets gaveUp.                     *)
LEMMA RecordUpdates ==
  ASSUME NEW r, Sound(r)
  PROVE  /\ Sound([r EXCEPT !.fatal = FALSE, !.attempts = 0])
         /\ Sound([r EXCEPT !.fatal = FALSE, !.attempts = 0, !.healed = TRUE])
         /\ [r EXCEPT !.attempts = @ + 1, !.cooling = TRUE] \in Records
         /\ ~[r EXCEPT !.attempts = @ + 1, !.cooling = TRUE].gaveUp
<1> DEFINE a == [r EXCEPT !.fatal = FALSE, !.attempts = 0]
           b == [r EXCEPT !.fatal = FALSE, !.attempts = 0, !.healed = TRUE]
           c == [r EXCEPT !.attempts = @ + 1, !.cooling = TRUE]
<1>1. r \in Records /\ ~r.gaveUp /\ r.attempts \in 0 .. MaxAttempts + 1
  BY DEF Sound, Records
<1>2. r.attempts + 1 \in 0 .. MaxAttempts + 1
  BY <1>1, Bounds DEF Sound
<1>3. a \in Records /\ ~a.gaveUp /\ a.attempts = 0
  BY <1>1, Bounds DEF Records
<1>4. b \in Records /\ ~b.gaveUp /\ b.attempts = 0
  BY <1>1, Bounds DEF Records
<1>5. c \in Records /\ ~c.gaveUp
  BY <1>1, <1>2 DEF Records
<1> QED
  BY <1>3, <1>4, <1>5, Bounds DEF Sound

LEMMA GivenUp ==
  ASSUME NEW r \in Records
  PROVE  [r EXCEPT !.gaveUp = TRUE] \in Records /\ [r EXCEPT !.gaveUp = TRUE].gaveUp
  BY DEF Records

(* Every step keeps the invariant. *)
LEMMA PaneInvStep == PaneInv /\ [Next]_vars => PaneInv'
<1> SUFFICES ASSUME PaneInv, [Next]_vars PROVE PaneInv'
  OBVIOUS
<1> USE SupervisorAssumption, NoneAssumption
<1> USE DEF PaneInv, TypeOK, Within, GaveUpHoldsNothing, SweepHolds, GaveUp, Records, Sweeps,
            Callers, StreakCap, Strands, Repaired, dbVars, memoryVars, ptydVars, ghostVars,
            RowOK, MemoryOK, PtydOK, GhostOK, RecordOK, SweepOK, CallsOK
<1>1. CASE SweepPrune
  <2>1. GhostOK'
    BY <1>1 DEF SweepPrune, Forget, Detached
  <2>2. RecordOK' /\ Within(rec)' /\ GaveUpHoldsNothing'
    BY <1>1 DEF SweepPrune, Forget, Detached
  <2>3. SweepOK' /\ Within(sweep.st)' /\ SweepHolds'
    BY <1>1 DEF SweepPrune, Forget, Detached
  <2>4. RowOK' /\ MemoryOK' /\ PtydOK' /\ CallsOK'
    BY <1>1 DEF SweepPrune
  <2> QED
    BY <2>1, <2>2, <2>3, <2>4
<1>2. CASE SweepProbe
  <2>1. MemoryOK'
    BY <1>2 DEF SweepProbe, Wanted, HasPane, Fresh
  <2>2. SweepOK' /\ Within(sweep.st)' /\ SweepHolds'
    <3>1. CASE sweep' = sweep
      BY <1>2, <3>1 DEF SweepProbe
    <3>2. CASE /\ link /\ ~GaveUp
               /\ sweep' = [pc |-> "pane", answer |-> HasPane, own |-> rec # None,
                            st |-> IF rec = None THEN Fresh ELSE None]
      <4> DEFINE st == IF rec = None THEN Fresh ELSE None
      <4>1. /\ st \in Records \cup {None} /\ Within(st) /\ (st # None => ~st.gaveUp)
            /\ rec = None => st # None
        BY FreshSound DEF Sound
      <4>2. sweep' = [pc |-> "pane", answer |-> HasPane, own |-> rec # None, st |-> st]
        BY <3>2
      <4> HIDE DEF st
      <4>3. SweepOK' /\ sweep'.st = st /\ sweep'.pc = "pane" /\ (sweep'.own <=> rec # None)
        BY <4>1, <4>2 DEF HasPane
      <4> QED
        BY <1>2, <3>2, <4>1, <4>3 DEF SweepProbe
    <3> QED
      BY <1>2, <3>1, <3>2 DEF SweepProbe
  <2>3. RowOK' /\ PtydOK' /\ GhostOK' /\ RecordOK' /\ Within(rec)' /\
        GaveUpHoldsNothing' /\ CallsOK'
    BY <1>2 DEF SweepProbe
  <2> QED
    BY <2>1, <2>2, <2>3
<1>3. CASE SweepHasPane
  <2>1. SweepOK' /\ Within(sweep.st)' /\ SweepHolds'
    BY <1>3 DEF SweepHasPane
  <2>2. RowOK' /\ MemoryOK' /\ PtydOK' /\ GhostOK' /\ RecordOK' /\ Within(rec)' /\
        GaveUpHoldsNothing' /\ CallsOK'
    BY <1>3 DEF SweepHasPane
  <2> QED
    BY <2>1, <2>2
<1>4. CASE SweepSparesRunner
  BY <1>4 DEF SweepSparesRunner, Resting
<1>5. CASE SweepDecides
  <2> DEFINE st0   == IF sweep.own THEN rec ELSE sweep.st
             fixes == Strands
             heals == ~fixes /\ st0.fatal /\ ~st0.healed /\ cmd = "lost"
             st    == IF fixes THEN [st0 EXCEPT !.fatal = FALSE, !.attempts = 0]
                      ELSE IF heals THEN [st0 EXCEPT !.fatal = FALSE, !.attempts = 0,
                                                     !.healed = TRUE]
                      ELSE st0
             next  == [st EXCEPT !.attempts = @ + 1, !.cooling = TRUE]
             last  == [next EXCEPT !.gaveUp = TRUE]
  <2>1. Sound(st0)
    BY <1>5 DEF SweepDecides, Sound
  <2>2. Sound(st)
    <3> HIDE DEF st0
    <3> QED BY <2>1, RecordUpdates
  <2>3. next \in Records /\ ~next.gaveUp
    <3> HIDE DEF st
    <3> QED BY <2>2, RecordUpdates
  <2>4. last \in Records /\ last.gaveUp
    <3> HIDE DEF next
    <3> QED BY <2>3, GivenUp
  <2>5. \/ rec' \in {rec, st} /\ sweep' = [Resting EXCEPT !.pc = "kill"]
        \/ /\ rec' = next /\ next.attempts <= MaxAttempts
           /\ sweep' = [Resting EXCEPT !.pc = "kill"]
        \/ rec' = last /\ sweep' = Resting /\ queued' = FALSE
    <3> HIDE DEF st, next
    <3>1. ~(next.attempts > MaxAttempts) => next.attempts <= MaxAttempts
      BY <2>3 DEF Records
    <3>2. Decide => \/ rec' \in {rec, st} /\ sweep' = [Resting EXCEPT !.pc = "kill"]
                    \/ /\ rec' = next /\ ~(next.attempts > MaxAttempts)
                       /\ sweep' = [Resting EXCEPT !.pc = "kill"]
                    \/ rec' = last /\ sweep' = Resting /\ queued' = FALSE
      BY Zenon DEF Decide, Exhausted, Orphaned, st, next
    <3> QED BY <1>5, <3>1, <3>2 DEF SweepDecides
  <2>6. rec = None \/ Sound(rec)
    BY <1>5 DEF SweepDecides, Sound
  <2>7. RecordOK' /\ Within(rec)' /\ GaveUpHoldsNothing'
    <3> HIDE DEF st, next, last
    <3> QED BY <2>2, <2>3, <2>4, <2>5, <2>6 DEF Sound
  <2>8. GaveUp' => sweep' = Resting
    <3> HIDE DEF st, next, last
    <3> QED BY <2>2, <2>3, <2>5, <2>6 DEF Sound
  <2>9. sweep' \in {Resting, [Resting EXCEPT !.pc = "kill"]}
    <3> HIDE DEF st, next, last
    <3> QED BY <2>5
  <2>10. SweepOK' /\ Within(sweep.st)' /\ SweepHolds'
    <3>1. /\ sweep'.st = None /\ sweep'.pc \in {"idle", "kill"}
          /\ sweep' = Resting => sweep'.pc = "idle"
      BY <2>9 DEF Resting
    <3>2. Resting \in Sweeps /\ [Resting EXCEPT !.pc = "kill"] \in Sweeps
      BY DEF Resting
    <3> HIDE DEF st, next, last
    <3> QED BY <2>4, <2>5, <2>8, <2>9, <3>1, <3>2
  <2>11. RowOK'
    BY <1>5 DEF SweepDecides, Decide, Orphaned
  <2>12. CallsOK'
    BY <1>5 DEF SweepDecides, Decide, AskKill
  <2>17. MemoryOK'
    BY <1>5 DEF SweepDecides, Decide
  <2>13. PtydOK'
    BY <1>5 DEF SweepDecides, Decide, AskKill
  <2>14. streak' \in {streak, streak + 1} /\ (streak' = streak + 1 => streak < StreakCap)
    BY <1>5 DEF SweepDecides, Decide
  <2>15. faults' = faults /\ acts' = acts
    BY <1>5 DEF SweepDecides, Decide
  <2>16. GhostOK'
    BY <2>14, <2>15
  <2> QED
    BY <2>7, <2>10, <2>11, <2>12, <2>13, <2>16, <2>17

<1>6. CASE SweepSpawns
  <2>1. PtydOK'
    BY <1>6 DEF SweepSpawns, Answered, Return, Ensure, Resting
  <2>2. GhostOK'
    BY <1>6 DEF SweepSpawns, Answered, Return, Ensure, Resting
  <2>3. SweepOK' /\ Within(sweep.st)' /\ SweepHolds'
    BY <1>6 DEF SweepSpawns, Answered, Return, Ensure, Resting
  <2>4. CallsOK'
    BY <1>6 DEF SweepSpawns, Answered, Return, Ensure, Resting
  <2>5. RowOK' /\ MemoryOK' /\ RecordOK' /\ Within(rec)' /\ GaveUpHoldsNothing'
    BY <1>6 DEF SweepSpawns
  <2> QED
    BY <2>1, <2>2, <2>3, <2>4, <2>5
<1>7. CASE Boot
  BY <1>7 DEF Boot
<1>8. CASE Hello
  <2>1. RowOK'
    BY <1>8 DEF Hello, Vouch, Forget, Detached
  <2>2. MemoryOK'
    BY <1>8 DEF Hello, Vouch, Forget, Detached
  <2>3. GhostOK'
    BY <1>8 DEF Hello, Vouch, Forget, Detached
  <2>4. RecordOK' /\ Within(rec)' /\ GaveUpHoldsNothing'
    BY <1>8 DEF Hello, Vouch, Forget, Detached
  <2>5. SweepOK' /\ Within(sweep.st)' /\ SweepHolds'
    BY <1>8 DEF Hello, Vouch, Forget, Detached
  <2>6. PtydOK' /\ CallsOK'
    BY <1>8 DEF Hello
  <2> QED
    BY <2>1, <2>2, <2>3, <2>4, <2>5, <2>6
<1>9. CASE Survive
  <2>1. MemoryOK'
    BY <1>9 DEF Survive, Forget, Detached
  <2>2. GhostOK'
    BY <1>9 DEF Survive, Forget, Detached
  <2>3. RecordOK' /\ Within(rec)' /\ GaveUpHoldsNothing'
    BY <1>9 DEF Survive, Forget, Detached
  <2>4. SweepOK' /\ Within(sweep.st)' /\ SweepHolds'
    BY <1>9 DEF Survive, Forget, Detached
  <2>5. RowOK' /\ PtydOK' /\ CallsOK'
    BY <1>9 DEF Survive
  <2> QED
    BY <2>1, <2>2, <2>3, <2>4, <2>5
<1>10. CASE CoolDown
  <2>1. RecordOK' /\ Within(rec)' /\ GaveUpHoldsNothing'
    BY <1>10 DEF CoolDown
  <2>2. SweepOK' /\ Within(sweep.st)' /\ SweepHolds'
    BY <1>10 DEF CoolDown
  <2>3. RowOK' /\ MemoryOK' /\ PtydOK' /\ GhostOK' /\ CallsOK'
    BY <1>10 DEF CoolDown
  <2> QED
    BY <2>1, <2>2, <2>3
<1>11. CASE Fatal
  <2>1. MemoryOK'
    BY <1>11 DEF Fatal, Fresh
  <2>2. RecordOK' /\ Within(rec)' /\ GaveUpHoldsNothing'
    <3>1. CASE rec = None
      <4>1. rec' = [Fresh EXCEPT !.fatal = TRUE] /\ queued' = queued
        BY <1>11, <3>1 DEF Fatal
      <4> QED
        BY <4>1, FreshSound DEF Sound
    <3>2. CASE rec # None
      BY <1>11, <3>2 DEF Fatal
    <3> QED
      BY <3>1, <3>2
  <2>3. SweepOK' /\ Within(sweep.st)' /\ SweepHolds'
    BY <1>11 DEF Fatal, Fresh
  <2>4. RowOK' /\ PtydOK' /\ GhostOK' /\ CallsOK'
    BY <1>11 DEF Fatal
  <2> QED
    BY <2>1, <2>2, <2>3, <2>4
<1>12. CASE RunnerDies
  <2>1. RowOK'
    BY <1>12 DEF RunnerDies, SocketEnds, Teardown
  <2>2. MemoryOK'
    BY <1>12 DEF RunnerDies, SocketEnds, Teardown
  <2>3. PtydOK'
    BY <1>12 DEF RunnerDies, SocketEnds, Teardown
  <2>4. GhostOK'
    BY <1>12 DEF RunnerDies, SocketEnds, Teardown
  <2>5. RecordOK' /\ Within(rec)' /\ GaveUpHoldsNothing' /\ SweepOK' /\
        Within(sweep.st)' /\ SweepHolds' /\ CallsOK'
    BY <1>12 DEF RunnerDies
  <2> QED
    BY <2>1, <2>2, <2>3, <2>4, <2>5
<1>13. CASE PtyExit
  <2>1. RowOK'
    BY <1>13 DEF PtyExit, SocketEnds, Teardown
  <2>2. MemoryOK'
    BY <1>13 DEF PtyExit, SocketEnds, Teardown
  <2>3. PtydOK'
    BY <1>13 DEF PtyExit, SocketEnds, Teardown
  <2>4. CallsOK'
    BY <1>13 DEF PtyExit, SocketEnds, Teardown
  <2>5. GhostOK' /\ RecordOK' /\ Within(rec)' /\ GaveUpHoldsNothing' /\ SweepOK' /\
        Within(sweep.st)' /\ SweepHolds'
    BY <1>13 DEF PtyExit
  <2> QED
    BY <2>1, <2>2, <2>3, <2>4, <2>5
<1>14. CASE Poll
  BY <1>14 DEF Poll
<1>15. CASE TurnStart
  BY <1>15 DEF TurnStart
<1>16. CASE TurnDone
  <2>1. RowOK'
    BY <1>16 DEF TurnDone
  <2>2. RecordOK' /\ Within(rec)' /\ GaveUpHoldsNothing'
    BY <1>16 DEF TurnDone
  <2>3. MemoryOK' /\ PtydOK' /\ GhostOK' /\ SweepOK' /\ Within(sweep.st)' /\ SweepHolds'
        /\ CallsOK'
    BY <1>16 DEF TurnDone
  <2> QED
    BY <2>1, <2>2, <2>3
<1>17. CASE CloseEvent
  <2>1. RowOK'
    BY <1>17 DEF CloseEvent, Teardown
  <2>2. MemoryOK'
    BY <1>17 DEF CloseEvent, Teardown
  <2>3. PtydOK' /\ GhostOK' /\ RecordOK' /\ Within(rec)' /\ GaveUpHoldsNothing' /\
        SweepOK' /\ Within(sweep.st)' /\ SweepHolds' /\ CallsOK'
    BY <1>17 DEF CloseEvent
  <2> QED
    BY <2>1, <2>2, <2>3
<1>18. CASE Open
  BY <1>18 DEF Open, Act
<1>19. CASE Close
  <2>1. MemoryOK'
    BY <1>19 DEF Close
  <2>2. RowOK' /\ PtydOK' /\ GhostOK' /\ RecordOK' /\ Within(rec)' /\
        GaveUpHoldsNothing' /\ SweepOK' /\ Within(sweep.st)' /\ SweepHolds' /\ CallsOK'
    BY <1>19 DEF Close
  <2> QED
    BY <2>1, <2>2
<1>20. CASE SendNow
  BY <1>20 DEF SendNow, Act
<1>21. CASE Queue
  BY <1>21 DEF Queue, Act
<1>22. CASE Respawn
  BY <1>22 DEF Respawn, Act, AskKill
<1>23. CASE Delete
  BY <1>23 DEF Delete, Act, AskKill
<1>24. CASE ParkList
  BY <1>24 DEF ParkList, Act
<1>25. CASE RespawnGoesOn
  <2>1. MemoryOK'
    BY <1>25 DEF RespawnGoesOn, Answered, Return, Ensure
  <2>2. PtydOK'
    BY <1>25 DEF RespawnGoesOn, Answered, Return, Ensure
  <2>3. GhostOK'
    BY <1>25 DEF RespawnGoesOn, Answered, Return, Ensure
  <2>4. CallsOK'
    BY <1>25 DEF RespawnGoesOn, Answered, Return, Ensure
  <2>5. RowOK' /\ RecordOK' /\ Within(rec)' /\ GaveUpHoldsNothing' /\ SweepOK' /\
        Within(sweep.st)' /\ SweepHolds'
    BY <1>25 DEF RespawnGoesOn
  <2> QED
    BY <2>1, <2>2, <2>3, <2>4, <2>5
<1>26. CASE DeleteGoesOn
  <2>1. RowOK'
    BY <1>26 DEF DeleteGoesOn, Answered, Return, QueueKill
  <2>2. MemoryOK'
    BY <1>26 DEF DeleteGoesOn, Answered, Return, QueueKill
  <2>3. RecordOK' /\ Within(rec)' /\ GaveUpHoldsNothing'
    BY <1>26 DEF DeleteGoesOn, Answered, Return, QueueKill
  <2>4. CallsOK'
    BY <1>26 DEF DeleteGoesOn, Answered, Return, QueueKill
  <2>5. PtydOK' /\ GhostOK' /\ SweepOK' /\ Within(sweep.st)' /\ SweepHolds'
    BY <1>26 DEF DeleteGoesOn
  <2> QED
    BY <2>1, <2>2, <2>3, <2>4, <2>5
<1>27. CASE ParkDecide
  <2>1. MemoryOK'
    BY <1>27 DEF ParkDecide, AskKill
  <2>2. PtydOK'
    BY <1>27 DEF ParkDecide, AskKill
  <2>3. CallsOK'
    BY <1>27 DEF ParkDecide, AskKill
  <2>4. RowOK' /\ GhostOK' /\ RecordOK' /\ Within(rec)' /\ GaveUpHoldsNothing' /\
        SweepOK' /\ Within(sweep.st)' /\ SweepHolds'
    BY <1>27 DEF ParkDecide
  <2> QED
    BY <2>1, <2>2, <2>3, <2>4
<1>28. CASE ParkMark
  BY <1>28 DEF ParkMark, Answered, Return
<1>29. CASE Reap
  BY <1>29 DEF Reap
<1>30. CASE LinkDown
  <2>1. PtydOK'
    BY <1>30 DEF LinkDown, Fault, Disconnect, Unknown, Resting
  <2>2. GhostOK'
    BY <1>30 DEF LinkDown, Fault, Disconnect, Unknown, Resting
  <2>3. SweepOK' /\ Within(sweep.st)' /\ SweepHolds'
    BY <1>30 DEF LinkDown, Fault, Disconnect, Unknown, Resting
  <2>4. CallsOK'
    BY <1>30 DEF LinkDown, Fault, Disconnect, Unknown, Resting
  <2>5. RowOK' /\ MemoryOK' /\ RecordOK' /\ Within(rec)' /\ GaveUpHoldsNothing'
    BY <1>30 DEF LinkDown
  <2> QED
    BY <2>1, <2>2, <2>3, <2>4, <2>5
<1>31. CASE LinkUp
  BY <1>31 DEF LinkUp
<1>32. CASE Blip
  <2>1. RowOK'
    BY <1>32 DEF Blip, Fault, SocketEnds, Teardown
  <2>2. MemoryOK'
    BY <1>32 DEF Blip, Fault, SocketEnds, Teardown
  <2>3. GhostOK'
    BY <1>32 DEF Blip, Fault, SocketEnds, Teardown
  <2>4. PtydOK' /\ RecordOK' /\ Within(rec)' /\ GaveUpHoldsNothing' /\ SweepOK' /\
        Within(sweep.st)' /\ SweepHolds' /\ CallsOK'
    BY <1>32 DEF Blip
  <2> QED
    BY <2>1, <2>2, <2>3, <2>4
<1>33. CASE PtydRestart
  <2>1. RowOK'
    BY <1>33 DEF PtydRestart, Fault, Disconnect, Unknown, Resting, SocketEnds, Teardown
  <2>2. MemoryOK'
    BY <1>33 DEF PtydRestart, Fault, Disconnect, Unknown, Resting, SocketEnds, Teardown
  <2>3. PtydOK'
    BY <1>33 DEF PtydRestart, Fault, Disconnect, Unknown, Resting, SocketEnds, Teardown
  <2>4. GhostOK'
    BY <1>33 DEF PtydRestart, Fault, Disconnect, Unknown, Resting, SocketEnds, Teardown
  <2>5. SweepOK' /\ Within(sweep.st)' /\ SweepHolds'
    BY <1>33 DEF PtydRestart, Fault, Disconnect, Unknown, Resting, SocketEnds, Teardown
  <2>6. CallsOK'
    BY <1>33 DEF PtydRestart, Fault, Disconnect, Unknown, Resting, SocketEnds, Teardown
  <2>7. RecordOK' /\ Within(rec)' /\ GaveUpHoldsNothing'
    BY <1>33 DEF PtydRestart
  <2> QED
    BY <2>1, <2>2, <2>3, <2>4, <2>5, <2>6, <2>7
<1>34. CASE ServerRestart
  <2>1. RowOK'
    BY <1>34 DEF ServerRestart, Fault, Resting
  <2>2. MemoryOK'
    BY <1>34 DEF ServerRestart, Fault, Resting
  <2>3. PtydOK'
    BY <1>34 DEF ServerRestart, Fault, Resting
  <2>4. GhostOK'
    <3>1. streak' = 0 /\ acts' = acts /\ faults' \in 0 .. MaxFaults
      BY <1>34 DEF ServerRestart, Fault
    <3>2. 0 \in 0 .. StreakCap
      OBVIOUS
    <3> QED
      BY <3>1, <3>2
  <2>5. RecordOK' /\ Within(rec)' /\ GaveUpHoldsNothing'
    BY <1>34 DEF ServerRestart, Fault, Resting
  <2>6. SweepOK' /\ Within(sweep.st)' /\ SweepHolds'
    BY <1>34 DEF ServerRestart, Fault, Resting
  <2>7. CallsOK'
    BY <1>34 DEF ServerRestart, Fault, Resting
  <2> QED
    BY <2>1, <2>2, <2>3, <2>4, <2>5, <2>6, <2>7
<1>35. CASE UNCHANGED vars
  BY <1>35 DEF vars
<1> QED
  BY <1>1, <1>2, <1>3, <1>4, <1>5, <1>6, <1>7, <1>8, <1>9, <1>10, <1>11, <1>12, <1>13,
     <1>14, <1>15, <1>16, <1>17, <1>18, <1>19, <1>20, <1>21, <1>22, <1>23, <1>24, <1>25,
     <1>26, <1>27, <1>28, <1>29, <1>30, <1>31, <1>32, <1>33, <1>34, <1>35 DEF Next, Sweep,
     Runner, Users, Routes, Faults

LEMMA PaneInvInit == Init => PaneInv
<1> SUFFICES ASSUME Init PROVE PaneInv
  OBVIOUS
<1>1. RowOK /\ MemoryOK /\ PtydOK
  BY DEF Init, RowOK, MemoryOK, PtydOK
<1>2. GhostOK
  <2>1. 0 \in 0 .. MaxFaults /\ 0 \in 0 .. MaxActs /\ 0 \in 0 .. StreakCap
    BY SupervisorAssumption DEF StreakCap
  <2> QED
    BY <2>1 DEF Init, GhostOK
<1>3. RecordOK /\ SweepOK /\ CallsOK
  BY DEF Init, RecordOK, SweepOK, CallsOK, Resting, Sweeps, Callers
<1>4. Within(rec) /\ Within(sweep.st) /\ GaveUpHoldsNothing /\ SweepHolds
  BY DEF Init, Within, GaveUpHoldsNothing, GaveUp, SweepHolds, Resting
<1> QED
  BY <1>1, <1>2, <1>3, <1>4 DEF PaneInv, TypeOK

LEMMA PaneInvHolds == Spec => []PaneInv
  BY PaneInvInit, PaneInvStep, PTL DEF Spec

(* Every variable keeps to its values, the attempts to their cap           *)
(* (respawn-policy.ts RESPAWN_MAX_ATTEMPTS).                               *)
THEOREM PaneTypes == Spec => []TypeOK
<1>1. PaneInv => TypeOK
  BY DEF PaneInv
<1> QED
  BY <1>1, PaneInvHolds, PTL

(* Whatever the sweep, the routes, the users, ptyd and restarts do between *)
(* each other's awaits, a pane that was given up holds no message: the     *)
(* queue is cleared with the give-up and submitSend refuses from then on.  *)
THEOREM GivenUpIsEmpty == Spec => []GaveUpHoldsNothing
<1>1. PaneInv => GaveUpHoldsNothing
  BY DEF PaneInv
<1> QED
  BY <1>1, PaneInvHolds, PTL

(* While ptyd is out of reach no step spends an attempt or gives up.       *)
LEMMA OutageStep ==
  PaneInv /\ [Next]_vars /\ ~link => Spent(rec') <= Spent(rec) /\ (GaveUp' => GaveUp)
<1> SUFFICES ASSUME PaneInv, [Next]_vars, ~link
             PROVE  Spent(rec') <= Spent(rec) /\ (GaveUp' => GaveUp)
  OBVIOUS
<1> USE SupervisorAssumption, NoneAssumption
<1>1. Spent(rec) \in Nat
  BY DEF Spent, PaneInv, TypeOK, RecordOK, Records
<1>2. rec' = rec => Spent(rec') <= Spent(rec) /\ (GaveUp' => GaveUp)
  BY <1>1 DEF Spent, GaveUp
<1>3. rec' = None => Spent(rec') <= Spent(rec) /\ ~GaveUp'
  BY <1>1 DEF Spent, GaveUp, PaneInv, TypeOK, RecordOK, Records
<1>4. CASE SweepPrune
  BY <1>4, <1>2, <1>3 DEF SweepPrune, Forget
<1>5. CASE SweepDecides
  BY <1>5 DEF SweepDecides, PaneInv, SweepHolds
<1>6. CASE Hello
  BY <1>6, <1>2, <1>3 DEF Hello, Vouch, Forget
<1>7. CASE Survive
  BY <1>7, <1>2, <1>3 DEF Survive, Forget
<1>8. CASE CoolDown
  BY <1>8, <1>1 DEF CoolDown, Spent, GaveUp, PaneInv, TypeOK, RecordOK, Records
<1>9. CASE Fatal
  BY <1>9, <1>1 DEF Fatal, Fresh, Spent, GaveUp, PaneInv, TypeOK, RecordOK, Records
<1>10. CASE ServerRestart
  BY <1>10, <1>2, <1>3 DEF ServerRestart
<1>11. CASE SweepProbe \/ SweepHasPane \/ SweepSparesRunner \/ SweepSpawns
  BY <1>11, <1>2 DEF SweepProbe, SweepHasPane, SweepSparesRunner, SweepSpawns, memoryVars
<1>12. CASE Boot \/ RunnerDies \/ PtyExit \/ Poll \/ TurnStart \/ TurnDone \/
            CloseEvent
  BY <1>12, <1>2 DEF Boot, RunnerDies, PtyExit, Poll, TurnStart, TurnDone, CloseEvent,
     memoryVars
<1>13. CASE Open \/ Close \/ SendNow \/ Queue \/ Respawn \/ Delete \/ ParkList
  BY <1>13, <1>2 DEF Open, Close, SendNow, Queue, Respawn, Delete, ParkList, memoryVars
<1>14. CASE RespawnGoesOn \/ DeleteGoesOn \/ ParkDecide \/ ParkMark \/ Reap
  BY <1>14, <1>2 DEF RespawnGoesOn, DeleteGoesOn, ParkDecide, ParkMark, Reap, memoryVars
<1>15. CASE LinkDown \/ LinkUp \/ Blip \/ PtydRestart
  BY <1>15, <1>2 DEF LinkDown, LinkUp, Blip, PtydRestart, memoryVars
<1>16. CASE UNCHANGED vars
  BY <1>16, <1>2 DEF vars, memoryVars
<1> QED
  BY <1>4, <1>5, <1>6, <1>7, <1>8, <1>9, <1>10, <1>11, <1>12, <1>13, <1>14, <1>15, <1>16
     DEF Next, Sweep, Runner, Users, Routes, Faults

(* An outage of ptyd costs no pane an attempt, and gives none up: a probe  *)
(* that throws says nothing about life or death (sweepDeadRunners).        *)
THEOREM OutageIsFree == Spec => OutageSpendsNothing
<1>1. PaneInv /\ [Next]_vars => [~link => Spent(rec') <= Spent(rec) /\ (GaveUp' => GaveUp)]_vars
  BY OutageStep
<1> QED
  BY <1>1, PaneInvHolds, PTL DEF Spec, OutageSpendsNothing

-----------------------------------------------------------------------------
(* How often a command may fail before the supervisor gives the pane up.   *)

(* The attempts a repair or a heal may have given back: both happen only   *)
(* to a command that has lost its session, and no command loses it again.  *)
Base(c) == IF c = "lost" THEN 0 ELSE MaxAttempts

(* A restart is counted in the record, or the record's attempts were given *)
(* back when the command was repaired.  A record that gave up has counted  *)
(* one attempt more than it made, so the cap is a conjunct of its own; and *)
(* a record the sweep holds alone was new, or was vouched for, so nothing  *)
(* has been restarted since.                                               *)
BudgetInv ==
  /\ rec = None => streak = 0
  /\ streak <= Base(cmd) + Spent(rec)
  /\ streak <= Base(cmd) + MaxAttempts
  /\ sweep.pc \in {"pane", "fg"} /\ ~sweep.own => streak = 0

LEMMA BudgetNumbers ==
  ASSUME PaneInv
  PROVE  /\ MaxAttempts \in Nat /\ Base(cmd) \in Nat /\ streak \in Nat /\ Spent(rec) \in Nat
         /\ cmd = "lost" => Base(cmd) = 0
         /\ cmd # "lost" => Base(cmd) = MaxAttempts
  BY SupervisorAssumption
     DEF PaneInv, TypeOK, GhostOK, RecordOK, Records, Base, Spent, StreakCap

(* A step that restarts nothing and leaves command and attempts alone.     *)
LEMMA BudgetKept ==
  ASSUME BudgetInv, cmd' = cmd, Spent(rec') = Spent(rec), streak' = streak,
         rec' = None => rec = None,
         sweep'.pc \in {"pane", "fg"} /\ ~sweep'.own =>
           rec = None \/ (sweep.pc \in {"pane", "fg"} /\ ~sweep.own)
  PROVE  BudgetInv'
  BY DEF BudgetInv, Base, Spent

(* A step that ends the count.                                             *)
LEMMA BudgetReset ==
  ASSUME PaneInv', streak' = 0
  PROVE  BudgetInv'
<1>1. /\ MaxAttempts \in Nat /\ Base(cmd') \in Nat
      /\ (IF rec' = None THEN 0 ELSE rec'.attempts) \in Nat
  BY SupervisorAssumption DEF Base, PaneInv, TypeOK, RecordOK, Records
<1> QED
  BY <1>1 DEF BudgetInv, Spent

(* What an update of a record does to its attempts.                        *)
LEMMA AttemptsOf ==
  ASSUME NEW r \in Records
  PROVE  /\ [r EXCEPT !.fatal = FALSE, !.attempts = 0].attempts = 0
         /\ [r EXCEPT !.fatal = FALSE, !.attempts = 0, !.healed = TRUE].attempts = 0
         /\ [r EXCEPT !.attempts = @ + 1, !.cooling = TRUE].attempts = r.attempts + 1
         /\ [r EXCEPT !.gaveUp = TRUE].attempts = r.attempts
  BY DEF Records

(* The sweep's decision: a restart is paid for by an attempt, and attempts *)
(* are given back only together with the command.                          *)
LEMMA DecideBudget ==
  ASSUME PaneInv, BudgetInv, SweepDecides
  PROVE  BudgetInv'
<1> DEFINE st0   == IF sweep.own THEN rec ELSE sweep.st
           fixes == Strands
           heals == ~fixes /\ st0.fatal /\ ~st0.healed /\ cmd = "lost"
           st    == IF fixes THEN [st0 EXCEPT !.fatal = FALSE, !.attempts = 0]
                    ELSE IF heals THEN [st0 EXCEPT !.fatal = FALSE, !.attempts = 0,
                                                   !.healed = TRUE]
                    ELSE st0
           next  == [st EXCEPT !.attempts = @ + 1, !.cooling = TRUE]
           last  == [next EXCEPT !.gaveUp = TRUE]
<1> USE SupervisorAssumption, NoneAssumption
<1>1. Sound(st0) /\ Sound(st) /\ next \in Records /\ last \in Records
  <2>1. Sound(st0)
    BY DEF SweepDecides, Sound, PaneInv, TypeOK, RecordOK, SweepOK, Sweeps, Within,
       SweepHolds, GaveUp
  <2>2. Sound(st)
    <3> HIDE DEF st0
    <3> QED BY <2>1, RecordUpdates
  <2>3. next \in Records
    <3> HIDE DEF st
    <3> QED BY <2>2, RecordUpdates
  <2>4. last \in Records
    <3> HIDE DEF next
    <3> QED BY <2>3, GivenUp
  <2> QED
    BY <2>1, <2>2, <2>3, <2>4
<1>2. /\ st0.attempts \in Nat /\ st.attempts \in Nat
      /\ next.attempts = st.attempts + 1 /\ last.attempts = next.attempts
      /\ st = st0 \/ st.attempts = 0
  <2>1. next.attempts = st.attempts + 1
    <3> HIDE DEF st
    <3> QED BY <1>1, AttemptsOf DEF Sound
  <2>2. last.attempts = next.attempts
    <3> HIDE DEF next
    <3> QED BY <1>1, AttemptsOf
  <2>3. st0.attempts \in Nat /\ st.attempts \in Nat
    <3> HIDE DEF st, st0
    <3> QED BY <1>1 DEF Sound, Records
  <2>4. st = st0 \/ st.attempts = 0
    <3> HIDE DEF st0
    <3> QED BY <1>1, AttemptsOf DEF Sound
  <2> QED
    BY <2>1, <2>2, <2>3, <2>4
(* Attempts are given back with the command, or not at all. *)
<1>3. IF fixes \/ heals THEN cmd = "lost" /\ cmd' \in {"good", "broken"} /\ st.attempts = 0
      ELSE cmd' = cmd /\ st = st0
  <2>1. fixes \/ heals => cmd = "lost" /\ cmd' \in {"good", "broken"}
    BY DEF SweepDecides, Decide, Strands, Repaired
  <2>2. ~(fixes \/ heals) => cmd' = cmd
    BY DEF SweepDecides, Decide, Strands, Repaired
  <2>3. fixes \/ heals => st.attempts = 0
    <3> HIDE DEF st0
    <3> QED BY <1>1, AttemptsOf DEF Sound
  <2> QED
    BY <2>1, <2>2, <2>3
(* What the count was, seen from the record the sweep decides about. *)
<1>4. /\ MaxAttempts \in Nat /\ Base(cmd) \in Nat /\ streak \in Nat /\ Base(cmd') \in Nat
      /\ fixes \/ heals => Base(cmd) = 0 /\ Base(cmd') = MaxAttempts
      /\ ~(fixes \/ heals) => Base(cmd') = Base(cmd)
      /\ streak <= Base(cmd) + MaxAttempts
      /\ ~(fixes \/ heals) => streak <= Base(cmd) + st.attempts
  <2>1. streak <= Base(cmd) + st0.attempts
    <3>1. CASE sweep.own
      BY <3>1 DEF BudgetInv, Spent, SweepDecides, PaneInv, SweepHolds
    <3>2. CASE ~sweep.own
      <4>1. streak = 0
        BY <3>2 DEF BudgetInv, SweepDecides
      <4> HIDE DEF st0
      <4> QED BY <4>1, <1>2, BudgetNumbers
    <3> QED BY <3>1, <3>2
  <2>2. fixes \/ heals => Base(cmd) = 0 /\ Base(cmd') = MaxAttempts
    <3> HIDE DEF fixes, heals
    <3> QED BY <1>3 DEF Base
  <2>3. ~(fixes \/ heals) => Base(cmd') = Base(cmd)
    <3> HIDE DEF fixes, heals
    <3> QED BY <1>3 DEF Base
  <2> HIDE DEF fixes, heals, st, st0
  <2> QED
    BY <1>2, <1>3, <2>1, <2>2, <2>3, BudgetNumbers DEF BudgetInv
(* The three ways to go on: awake, restarted, given up. *)
<1>5. \/ rec' = (IF fixes \/ heals THEN st ELSE rec) /\ streak' = streak
      \/ rec' = next /\ next.attempts <= MaxAttempts /\ streak' \in {streak, streak + 1}
      \/ rec' = last /\ streak' = streak
  <2> HIDE DEF st, next, last, fixes, heals
  <2>1. ~(next.attempts > MaxAttempts) => next.attempts <= MaxAttempts
    BY <1>1, <1>2
  <2>2. Decide => \/ rec' = (IF fixes \/ heals THEN st ELSE rec) /\ streak' = streak
                  \/ /\ rec' = next /\ ~(next.attempts > MaxAttempts)
                     /\ streak' \in {streak, streak + 1}
                  \/ rec' = last /\ streak' = streak
    BY Zenon DEF Decide, Exhausted, st, next, last, fixes, heals
  <2> QED BY <2>1, <2>2 DEF SweepDecides
<1>6. sweep'.pc \notin {"pane", "fg"}
  BY DEF SweepDecides, Decide, Resting
<1>7. st # None /\ next # None /\ last # None
  <2> HIDE DEF st, next, last
  <2> QED BY <1>1 DEF Sound
<1>8. BudgetInv' <=> /\ rec' = None => streak' = 0
                     /\ streak' <= Base(cmd') + (IF rec' = None THEN 0 ELSE rec'.attempts)
                     /\ streak' <= Base(cmd') + MaxAttempts
  BY <1>6 DEF BudgetInv, Spent
<1> HIDE DEF st0, fixes, heals, st, next, last
<1>9. CASE rec' = (IF fixes \/ heals THEN st ELSE rec) /\ streak' = streak
  <2>1. CASE fixes \/ heals
    <3>1. streak' <= Base(cmd') /\ streak' \in Nat /\ Base(cmd') \in Nat
      BY <1>9, <2>1, <1>4
    <3>2. rec' = st /\ st # None /\ st.attempts \in Nat
      BY <1>9, <2>1, <1>2, <1>7
    <3> QED BY <3>1, <3>2, <1>4, <1>8
  <2>2. CASE ~(fixes \/ heals)
    BY <1>9, <2>2, <1>4, <1>8 DEF BudgetInv, Spent
  <2> QED BY <2>1, <2>2
<1>10. CASE rec' = next /\ next.attempts <= MaxAttempts /\ streak' \in {streak, streak + 1}
  <2>1. CASE fixes \/ heals
    <3>1. streak' <= Base(cmd') + 1 /\ streak' \in Nat /\ Base(cmd') \in Nat
      BY <1>10, <2>1, <1>4
    <3>2. rec' = next /\ next # None /\ next.attempts = 1
      BY <1>10, <2>1, <1>2, <1>3, <1>7
    <3> QED BY <3>1, <3>2, <1>4, <1>8
  <2>2. CASE ~(fixes \/ heals)
    BY <1>10, <2>2, <1>2, <1>4, <1>7, <1>8
  <2> QED BY <2>1, <2>2
<1>11. CASE rec' = last /\ streak' = streak
  <2>1. CASE fixes \/ heals
    <3>1. streak' <= Base(cmd') /\ streak' \in Nat /\ Base(cmd') \in Nat
      BY <1>11, <2>1, <1>4
    <3>2. rec' = last /\ last # None /\ last.attempts = 1
      BY <1>11, <2>1, <1>2, <1>3, <1>7
    <3> QED BY <3>1, <3>2, <1>4, <1>8
  <2>2. CASE ~(fixes \/ heals)
    BY <1>11, <2>2, <1>2, <1>4, <1>7, <1>8
  <2> QED BY <2>1, <2>2
<1> QED
  BY <1>5, <1>9, <1>10, <1>11

LEMMA BudgetStep == PaneInv /\ PaneInv' /\ BudgetInv /\ [Next]_vars => BudgetInv'
<1> SUFFICES ASSUME PaneInv, PaneInv', BudgetInv, [Next]_vars PROVE BudgetInv'
  OBVIOUS
<1>1. CASE SweepPrune
  BY <1>1, BudgetReset DEF SweepPrune
<1>2. CASE SweepProbe
  <2>1. sweep' = sweep \/ (sweep'.own <=> rec # None)
    BY <1>2 DEF SweepProbe
  <2>2. rec' = rec /\ cmd' = cmd /\ streak' = streak
    BY <1>2 DEF SweepProbe, dbVars, ghostVars
  <2> QED
    BY <2>1, <2>2, BudgetKept
<1>3. CASE SweepHasPane
  <2>1. sweep'.own = sweep.own /\ sweep.pc = "pane"
    BY <1>3 DEF SweepHasPane, PaneInv, TypeOK, SweepOK, Sweeps
  <2>2. rec' = rec /\ cmd' = cmd /\ streak' = streak
    BY <1>3 DEF SweepHasPane, dbVars, ghostVars
  <2> QED
    BY <2>1, <2>2, BudgetKept
<1>4. CASE SweepDecides
  BY <1>4, DecideBudget
<1>5. CASE SweepSparesRunner \/ SweepSpawns
  <2>1. rec' = rec /\ cmd' = cmd /\ streak' = streak /\ sweep'.pc = "idle"
    BY <1>5 DEF SweepSparesRunner, SweepSpawns, dbVars, ghostVars, Resting
  <2> QED
    BY <2>1, BudgetKept
<1>6. CASE Hello
  <2>1. CASE GaveUp
    BY <1>6, <2>1, BudgetReset DEF Hello, Vouch
  <2>2. CASE ~GaveUp
    BY <1>6, <2>2, BudgetKept DEF Hello, Vouch
  <2> QED BY <2>1, <2>2
<1>7. CASE Survive
  BY <1>7, BudgetReset DEF Survive
<1>8. CASE CoolDown
  <2>1. rec' # None /\ Spent(rec') = Spent(rec)
    BY <1>8, NoneAssumption DEF CoolDown, Spent, PaneInv, TypeOK, RecordOK, Records
  <2> QED
    BY <1>8, <2>1, BudgetKept DEF CoolDown, dbVars, ghostVars
<1>9. CASE Fatal
  <2>1. rec' # None /\ Spent(rec') = Spent(rec)
    <3>1. CASE rec = None
      <4>1. Fresh \in Records /\ Fresh.attempts = 0
        BY FreshSound DEF Sound, Fresh
      <4>2. rec' = [Fresh EXCEPT !.fatal = TRUE]
        BY <1>9, <3>1 DEF Fatal
      <4>3. rec' \in Records /\ rec'.attempts = 0
        BY <4>1, <4>2 DEF Records
      <4> QED BY <3>1, <4>3, NoneAssumption DEF Spent
    <3>2. CASE rec # None
      BY <1>9, <3>2, NoneAssumption DEF Fatal, Spent, PaneInv, TypeOK, RecordOK, Records
    <3> QED BY <3>1, <3>2
  <2> QED
    BY <1>9, <2>1, BudgetKept DEF Fatal, dbVars, ghostVars
<1>10. CASE ServerRestart
  BY <1>10, BudgetReset DEF ServerRestart
<1>11. CASE LinkDown \/ PtydRestart
  <2>1. sweep' = Unknown(sweep) /\ rec' = rec /\ cmd' = cmd /\ streak' = streak
    BY <1>11 DEF LinkDown, PtydRestart, Disconnect, Fault, dbVars
  <2>2. sweep'.pc \notin {"pane", "fg"}
    BY <2>1 DEF Unknown, Resting
  <2> QED
    BY <2>1, <2>2, BudgetKept
<1>12. CASE Boot \/ RunnerDies \/ PtyExit \/ Poll \/ TurnStart \/ TurnDone \/
            CloseEvent
  BY <1>12, BudgetKept DEF Boot, RunnerDies, PtyExit, Poll, TurnStart, TurnDone, CloseEvent,
     dbVars, memoryVars, ghostVars
<1>13. CASE Open \/ Close \/ SendNow \/ Queue \/ Respawn \/ Delete \/ ParkList
  BY <1>13, BudgetKept DEF Open, Close, SendNow, Queue, Respawn, Delete, ParkList, dbVars,
     memoryVars, ghostVars
<1>14. CASE RespawnGoesOn \/ DeleteGoesOn \/ ParkDecide \/ ParkMark \/ Reap
  BY <1>14, BudgetKept DEF RespawnGoesOn, DeleteGoesOn, ParkDecide, ParkMark, Reap, dbVars,
     memoryVars, ghostVars
<1>15. CASE LinkUp \/ Blip
  BY <1>15, BudgetKept DEF LinkUp, Blip, dbVars, memoryVars, ghostVars
<1>16. CASE UNCHANGED vars
  BY <1>16, BudgetKept DEF vars, dbVars, memoryVars, ghostVars
<1> QED
  BY <1>1, <1>2, <1>3, <1>4, <1>5, <1>6, <1>7, <1>8, <1>9, <1>10, <1>11, <1>12, <1>13,
     <1>14, <1>15, <1>16 DEF Next, Sweep, Runner, Users, Routes, Faults

LEMMA BudgetInit == Init => BudgetInv
  BY BudgetNumbers, PaneInvInit DEF Init, BudgetInv, Resting

(* A pane whose command keeps failing is restarted a bounded number of     *)
(* times: as often as RESPAWN_MAX_ATTEMPTS, and once more as often when    *)
(* its command was repaired or healed on the way, whatever user routes,    *)
(* outages of ptyd and a record replaced between two probes do to the      *)
(* sweep's count (sweepDeadRunners).                                       *)
THEOREM FailingPaneIsGivenUp == Spec => []RestartsBounded
<1>1. PaneInv /\ BudgetInv => RestartsBounded
  <2> SUFFICES ASSUME PaneInv, BudgetInv PROVE RestartsBounded
    OBVIOUS
  <2>1. Base(cmd) <= MaxAttempts
    BY BudgetNumbers
  <2> QED
    BY <2>1, BudgetNumbers DEF BudgetInv, RestartsBounded
<1>2. Spec => []BudgetInv
  BY BudgetInit, BudgetStep, PaneInvHolds, PTL DEF Spec
<1> QED
  BY <1>1, <1>2, PaneInvHolds, PTL
=============================================================================
