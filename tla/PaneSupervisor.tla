---------------------------- MODULE PaneSupervisor ----------------------------
(***************************************************************************)
(* Who starts and who stops the process of ONE agent pane: the dead-runner *)
(* sweep and the parking sweep of server/src/ws.ts, the delete and respawn *)
(* routes, the pane reaper, and the ptyd daemon they all call over one     *)
(* socket.  A call takes effect in ptyd when it is sent (its requests are  *)
(* served in order); the caller goes on when the answer is back, and what  *)
(* the others did meanwhile is what this module is about.                  *)
(*                                                                         *)
(* Turns and messages are reduced to "one runs", "some wait" (AgentLink    *)
(* has the rest); the pane is older than its startup grace.                *)
(***************************************************************************)
EXTENDS Naturals

CONSTANTS
  MaxAttempts,  \* RESPAWN_MAX_ATTEMPTS
  MaxFaults,    \* bound on deaths of a sound runner, outages and restarts
  MaxActs,      \* bound on what users, and the clock of the parking sweep, do
  Lingering,    \* may a socket be CLOSING for long before its close event?
  OldPtyd,      \* does ptyd predate the listPanes call?
  None          \* no respawn record

ASSUME SupervisorAssumption ==
  /\ MaxAttempts \in Nat \ {0} /\ MaxFaults \in Nat /\ MaxActs \in Nat
  /\ Lingering \in BOOLEAN /\ OldPtyd \in BOOLEAN

Records == [attempts : 0 .. MaxAttempts + 1, cooling : BOOLEAN, gaveUp : BOOLEAN,
            fatal : BOOLEAN, healed : BOOLEAN]

ASSUME NoneAssumption == None \notin Records

VARIABLES
  \* ---- the database
  row,      \* is the pane's row there, runner-owned?  "live" or "gone"
  cmd,      \* what its startup command does: "good", "lost" (resumes a session
            \* the harness has not), "broken" (dies before it says hello)
  fixable,  \* would repairPaneResume find an older session for it?
  queued,   \* do messages wait?
  turn,     \* session row status: running
  parked,   \* parked_at
  doomed,   \* pending_pane_kills has the pane
  \* ---- the server's memory
  reg,      \* agentRunners: "none", "open", or "closing" (socket not OPEN)
  watched,  \* chatClients has the pane
  rec,      \* respawns.get(pane)
  armed,    \* the probation timer runs
  dead,     \* cache.setDead: the nav shows a corpse
  sweep,    \* sweepDeadRunners between two of its awaits
  listed,   \* sweepParkedPanes holds the pane in its list
  calls,    \* who awaits killPane: "none", "sent", "done" or "failed"
  \* ---- ptyd
  link,     \* is the control socket open?
  pty,      \* "none", "boot" (command not up yet), "runner", "shell", "dying"
  fg,       \* the cached foreground command names the agent-runner
  busy,     \* the runner process is in a turn
  \* ---- bounds and history
  faults, acts,
  streak    \* restarts since the probation timer last fired

dbVars     == <<row, cmd, fixable, queued, turn, parked, doomed>>
memoryVars == <<reg, watched, rec, armed, dead, sweep, listed, calls>>
ptydVars   == <<link, pty, fg, busy>>
ghostVars  == <<faults, acts, streak>>
vars == <<dbVars, memoryVars, ptydVars, ghostVars>>

-----------------------------------------------------------------------------
(* Values *)

Fresh == [attempts |-> 0, cooling |-> FALSE, gaveUp |-> FALSE, fatal |-> FALSE,
          healed |-> FALSE]
Resting == [pc |-> "idle", answer |-> FALSE, own |-> FALSE, st |-> None]
Callers == {"sweep", "park", "delete", "user"}

StreakCap == 2 * MaxAttempts + 1     \* bound on the history variable

GaveUp == rec # None /\ rec.gaveUp
Spent(r) == IF r = None THEN 0 ELSE r.attempts

(* repairPaneResume, before a respawn and for every pane at boot, points   *)
(* the command at the newest session that still has a transcript.          *)
Strands  == fixable /\ cmd = "lost"
Repaired == IF Strands THEN {"good", "broken"} ELSE {cmd}

(* The record leaves the map; a sweep that read it keeps the object.       *)
Detached(s) == IF s.own THEN [s EXCEPT !.own = FALSE, !.st = rec] ELSE s
Forget == rec' = None /\ sweep' = Detached(sweep)

(* The panes the sweep looks at: running, queued (listAgentPanes) or open  *)
(* in some chat client.                                                    *)
Wanted_Unwatched == row = "live" /\ (turn \/ queued)     \* mutant: the database alone
Wanted == row = "live" /\ (turn \/ queued \/ watched)

(* killPane: thrown at once when the socket is down, answered when the pty *)
(* is gone.                                                                *)
AskKill(who) ==
  /\ calls' = [calls EXCEPT ![who] = IF ~link THEN "failed"
                                     ELSE IF pty = "none" THEN "done" ELSE "sent"]
  /\ pty' = IF link /\ pty # "none" THEN "dying" ELSE pty
Answered(who) == calls[who] \in {"done", "failed"}
Return(who)   == calls' = [calls EXCEPT ![who] = "none"]

(* ensurePane, called when the kill was answered or had failed, hands back *)
(* the runtime it has, even a dying one.                                   *)
Ensure == pty' = IF link /\ pty = "none" THEN "boot" ELSE pty

-----------------------------------------------------------------------------
(* sweepDeadRunners *)

SweepPrune ==
  /\ sweep.pc = "idle" /\ ~Wanted /\ rec # None
  /\ Forget
  /\ streak' = 0
  /\ UNCHANGED <<dbVars, reg, watched, armed, dead, listed, calls, ptydVars,
                 faults, acts>>

HasPane_Skipped == TRUE     \* mutant: the foreground command alone decides
HasPane == pty # "none"

(* A pane that needs a process and has no registered runner; work behind a *)
(* registration that is not OPEN drops it first.                           *)
SweepProbe ==
  /\ sweep.pc = "idle" /\ Wanted
  /\ reg = "none" \/ (reg = "closing" /\ queued)
  /\ reg' = "none"
  /\ sweep' = IF GaveUp \/ (rec # None /\ rec.cooling) \/ ~link THEN sweep
              ELSE [pc |-> "pane", answer |-> HasPane, own |-> rec # None,
                    st |-> IF rec = None THEN Fresh ELSE None]
  /\ UNCHANGED <<dbVars, watched, rec, armed, dead, listed, calls, ptydVars, ghostVars>>

Exhausted(st) == st.attempts > MaxAttempts

(* The queue when the supervisor gives up; the mutant keeps it. *)
Orphaned_Kept == queued
Orphaned == FALSE

(* The probes say the runner is gone: repair or heal the command, then     *)
(* wake a parked pane, or spend an attempt on a dead one.                  *)
Decide ==
  LET st0   == IF sweep.own THEN rec ELSE sweep.st
      fixes == Strands
      heals == ~fixes /\ st0.fatal /\ ~st0.healed /\ cmd = "lost"
      st    == IF fixes THEN [st0 EXCEPT !.fatal = FALSE, !.attempts = 0]
               ELSE IF heals THEN [st0 EXCEPT !.fatal = FALSE, !.attempts = 0, !.healed = TRUE]
               ELSE st0
      next  == [st EXCEPT !.attempts = @ + 1, !.cooling = TRUE]
  IN
  /\ cmd' \in IF heals THEN {"good", "broken"} ELSE Repaired
  /\ \/ /\ parked
        /\ parked' = FALSE
        /\ rec' = IF fixes \/ heals THEN st ELSE rec
        /\ sweep' = [Resting EXCEPT !.pc = "kill"] /\ AskKill("sweep")
        /\ UNCHANGED <<queued, dead, streak>>
     \/ /\ ~parked /\ ~Exhausted(next)
        /\ rec' = next
        /\ streak' = IF streak < StreakCap THEN streak + 1 ELSE streak
        /\ sweep' = [Resting EXCEPT !.pc = "kill"] /\ AskKill("sweep")
        /\ UNCHANGED <<queued, dead, parked>>
     \/ /\ ~parked /\ Exhausted(next)
        /\ rec' = [next EXCEPT !.gaveUp = TRUE]
        /\ dead' = TRUE /\ queued' = Orphaned
        /\ sweep' = Resting
        /\ UNCHANGED <<parked, calls, pty, streak>>
  /\ UNCHANGED <<row, fixable, turn, doomed, reg, watched, armed, listed, link, fg,
                 busy, faults, acts>>

SweepHasPane ==
  /\ sweep.pc = "pane" /\ sweep.answer
  /\ sweep' = [sweep EXCEPT !.pc = "fg", !.answer = fg]
  /\ UNCHANGED <<dbVars, reg, watched, rec, armed, dead, listed, calls, ptydVars, ghostVars>>

SweepSparesRunner ==
  /\ sweep.pc = "fg" /\ sweep.answer
  /\ sweep' = Resting
  /\ UNCHANGED <<dbVars, reg, watched, rec, armed, dead, listed, calls, ptydVars, ghostVars>>

SweepDecides == sweep.pc \in {"pane", "fg"} /\ ~sweep.answer /\ Decide

(* spawnAgentPane after its kill: the row is read again. *)
SweepSpawns ==
  /\ sweep.pc = "kill" /\ Answered("sweep")
  /\ sweep' = Resting /\ Return("sweep")
  /\ IF row = "live" THEN Ensure ELSE UNCHANGED pty
  /\ UNCHANGED <<dbVars, reg, watched, rec, armed, dead, listed, link, fg, busy,
                 faults, acts, streak>>

Sweep == \/ SweepPrune \/ SweepProbe \/ SweepHasPane
         \/ SweepSparesRunner \/ SweepDecides \/ SweepSpawns

-----------------------------------------------------------------------------
(* The runner and its pty *)

Teardown == reg' = "none" /\ armed' = FALSE /\ turn' = FALSE

(* The other end of the runner's socket is gone. *)
SocketEnds ==
  CASE reg = "open" /\ ~Lingering -> Teardown
    [] reg = "open" /\ Lingering  -> reg' = "closing" /\ UNCHANGED <<armed, turn>>
    [] OTHER                      -> UNCHANGED <<reg, armed, turn>>

CloseEvent ==
  /\ reg = "closing" /\ Teardown
  /\ UNCHANGED <<row, cmd, fixable, queued, parked, doomed, watched, rec, dead,
                 sweep, listed,
                 calls, ptydVars, ghostVars>>

(* The shell runs the startup command. *)
Boot ==
  /\ pty = "boot"
  /\ pty' = IF cmd = "broken" THEN "shell" ELSE "runner"
  /\ UNCHANGED <<dbVars, memoryVars, link, fg, busy, ghostVars>>

(* What hello does to the record; the mutant clears it on the spot. *)
Vouch_AtOnce == Forget /\ armed' = FALSE /\ UNCHANGED streak
Vouch == IF GaveUp THEN Forget /\ streak' = 0 /\ UNCHANGED armed
         ELSE armed' = TRUE /\ UNCHANGED <<rec, sweep, streak>>

(* Upgrade and hello; what waits is drained into an idle runner, and stays *)
(* if the runner's turn outlived its old socket.                           *)
Hello ==
  /\ pty = "runner" /\ reg # "open" /\ row = "live"
  /\ reg' = "open" /\ dead' = FALSE
  /\ Vouch
  /\ \/ turn' = queued /\ busy' = queued /\ queued' = FALSE
     \/ busy /\ turn' = TRUE /\ UNCHANGED <<queued, busy>>
  /\ UNCHANGED <<row, cmd, fixable, parked, doomed, watched, listed, calls, link,
                 pty, fg, faults, acts>>

(* The probation timer.  A runner without a session dies long before it.   *)
Survive ==
  /\ armed /\ ~(reg = "open" /\ cmd = "lost")
  /\ armed' = FALSE /\ Forget
  /\ streak' = 0
  /\ UNCHANGED <<dbVars, reg, watched, dead, listed, calls, ptydVars, faults, acts>>

(* The cooldown may end before a slow boot does.                           *)
CoolDown ==
  /\ rec # None /\ rec.cooling /\ sweep.pc # "kill"
  /\ rec' = [rec EXCEPT !.cooling = FALSE]
  /\ UNCHANGED <<dbVars, reg, watched, armed, dead, sweep, listed, calls, ptydVars,
                 ghostVars>>

(* "No conversation found with session ID": the runner says so and goes.   *)
Fatal ==
  /\ pty = "runner" /\ cmd = "lost" /\ reg = "open"
  /\ (rec # None => ~rec.fatal)
  /\ armed' = FALSE
  /\ rec' = [IF rec = None THEN Fresh ELSE rec EXCEPT !.fatal = TRUE]
  /\ UNCHANGED <<dbVars, reg, watched, dead, sweep, listed, calls, ptydVars, ghostVars>>

RunnerDies ==
  /\ pty = "runner"
  /\ IF cmd = "lost" THEN UNCHANGED faults ELSE faults < MaxFaults /\ faults' = faults + 1
  /\ pty' = "shell" /\ busy' = FALSE
  /\ SocketEnds
  /\ UNCHANGED <<row, cmd, fixable, queued, parked, doomed, watched, rec, dead,
                 sweep, listed,
                 calls, link, fg, acts, streak>>

(* A pty that was killed is gone, and every call that waited is answered.  *)
(* After the SIGKILL fallback the cached foreground command stays behind.  *)
PtyExit ==
  /\ pty = "dying"
  /\ pty' = "none" /\ busy' = FALSE /\ fg' \in {FALSE, fg}
  /\ calls' = [w \in Callers |-> IF calls[w] = "sent" THEN "done" ELSE calls[w]]
  /\ SocketEnds
  /\ UNCHANGED <<row, cmd, fixable, queued, parked, doomed, watched, rec, dead,
                 sweep, listed,
                 link, ghostVars>>

(* The 10 s poll of the foreground command. *)
Poll ==
  /\ pty \in {"runner", "shell", "boot"}
  /\ fg' = (pty = "runner")
  /\ UNCHANGED <<dbVars, memoryVars, link, pty, busy, ghostVars>>

TurnStart ==
  /\ reg = "open" /\ pty = "runner" /\ ~turn
  /\ turn' = TRUE /\ busy' = TRUE
  /\ UNCHANGED <<row, cmd, fixable, queued, parked, doomed, memoryVars, link, pty,
                 fg, ghostVars>>

TurnDone ==
  /\ reg = "open" /\ pty = "runner" /\ turn
  /\ turn' = queued /\ busy' = queued /\ queued' = FALSE
  /\ UNCHANGED <<row, cmd, fixable, parked, doomed, memoryVars, link, pty, fg, ghostVars>>

Runner == \/ Boot \/ Hello \/ Survive \/ CoolDown \/ Fatal \/ RunnerDies \/ PtyExit \/ Poll
          \/ TurnStart \/ TurnDone \/ CloseEvent

-----------------------------------------------------------------------------
(* Users, their routes, and the parking sweep *)

Act == acts < MaxActs /\ acts' = acts + 1

(* A parked pane is woken by the sweep, which Open and Send nudge and which *)
(* may run at any time here.                                               *)
Open  == /\ ~watched /\ row = "live" /\ Act
         /\ watched' = TRUE
         /\ UNCHANGED <<dbVars, reg, rec, armed, dead, sweep, listed, calls,
                        ptydVars, faults, streak>>
Close == /\ watched
         /\ watched' = FALSE
         /\ UNCHANGED <<dbVars, reg, rec, armed, dead, sweep, listed, calls,
                        ptydVars, ghostVars>>

(* submitSend: at once to an idle runner, else into the queue, unless the  *)
(* supervisor gave up.  A drain that finds the socket not OPEN drops it.   *)
SendNow ==
  /\ row = "live" /\ Act
  /\ reg = "open" /\ ~turn /\ ~queued
  /\ turn' = TRUE /\ busy' = (pty = "runner")
  /\ UNCHANGED <<row, cmd, fixable, queued, parked, doomed, memoryVars, link, pty,
                 fg, faults, streak>>
Queue ==
  /\ row = "live" /\ ~queued /\ Act
  /\ reg # "open" \/ turn
  /\ ~GaveUp
  /\ queued' = TRUE
  /\ reg' = IF reg = "closing" /\ ~turn THEN "none" ELSE reg
  /\ UNCHANGED <<row, cmd, fixable, turn, parked, doomed, watched, rec, armed, dead,
                 sweep,
                 listed, calls, ptydVars, faults, streak>>

(* POST /:id/respawn *)
Respawn ==
  /\ row = "live" /\ calls["user"] = "none" /\ Act
  /\ AskKill("user")
  /\ UNCHANGED <<dbVars, reg, watched, rec, armed, dead, sweep, listed, link, fg,
                 busy, faults, streak>>
RespawnGoesOn ==
  /\ Answered("user") /\ Return("user")
  /\ dead' = FALSE
  /\ Ensure
  /\ UNCHANGED <<dbVars, reg, watched, rec, armed, sweep, listed, link, fg, busy,
                 faults, acts, streak>>

(* DELETE /:id.  A kill that failed is queued for the reaper; the mutant   *)
(* forgets it.                                                             *)
QueueKill_Lost == UNCHANGED doomed
QueueKill == doomed' = (doomed \/ calls["delete"] = "failed")

Delete ==
  /\ row = "live" /\ calls["delete"] = "none" /\ Act
  /\ AskKill("delete")
  /\ UNCHANGED <<dbVars, reg, watched, rec, armed, dead, sweep, listed, link, fg,
                 busy, faults, streak>>
DeleteGoesOn ==
  /\ Answered("delete") /\ Return("delete")
  /\ QueueKill
  /\ row' = "gone" /\ queued' = FALSE /\ turn' = FALSE /\ parked' = FALSE /\ dead' = FALSE
  /\ UNCHANGED <<cmd, fixable, reg, watched, rec, armed, sweep, listed, ptydVars, ghostVars>>

(* The pane is idle long enough: the list is one query ...                 *)
ParkList ==
  /\ row = "live" /\ ~parked /\ ~turn /\ ~queued /\ Act
  /\ ~listed /\ calls["park"] = "none"
  /\ listed' = TRUE
  /\ UNCHANGED <<dbVars, reg, watched, rec, armed, dead, sweep, calls, ptydVars,
                 faults, streak>>
(* ... whose rows are taken one after the other, each with an awaited kill. *)
ParkDecide ==
  /\ listed /\ listed' = FALSE
  /\ IF watched THEN UNCHANGED <<calls, pty>> ELSE AskKill("park")
  /\ UNCHANGED <<dbVars, reg, watched, rec, armed, dead, sweep, link, fg, busy, ghostVars>>
ParkMark ==
  /\ Answered("park") /\ Return("park")
  /\ parked' = (row = "live")
  /\ UNCHANGED <<row, cmd, fixable, queued, turn, doomed, reg, watched, rec, armed,
                 dead, sweep,
                 listed, ptydVars, ghostVars>>

(* The reaper retries a queued kill until it is answered. *)
Reap ==
  /\ doomed /\ link
  /\ pty' = IF pty = "none" THEN pty ELSE "dying"
  /\ doomed' = (pty # "none")
  /\ UNCHANGED <<row, cmd, fixable, queued, turn, parked, memoryVars, link, fg, busy,
                 ghostVars>>

Users  == Open \/ Close \/ SendNow \/ Queue \/ Respawn \/ Delete \/ ParkList
Routes == RespawnGoesOn \/ DeleteGoesOn \/ ParkDecide \/ ParkMark \/ Reap

-----------------------------------------------------------------------------
(* ptyd's socket, and restarts *)

(* A probe that throws says nothing; the mutant takes it for a death. *)
Unknown_IsDead(s) == IF s.pc \in {"pane", "fg"} THEN [s EXCEPT !.answer = FALSE] ELSE s
Unknown(s) == IF s.pc \in {"pane", "fg"} THEN Resting ELSE s

Disconnect ==
  /\ link' = FALSE
  /\ calls' = [w \in Callers |-> IF calls[w] = "none" THEN "none" ELSE "failed"]
  /\ sweep' = Unknown(sweep)

Fault == faults < MaxFaults /\ faults' = faults + 1

LinkDown == /\ link /\ Fault /\ Disconnect
            /\ UNCHANGED <<dbVars, reg, watched, rec, armed, dead, listed, pty, fg,
                           busy, acts, streak>>
(* Connected: the reaper kills what has no row, if ptyd can list it. *)
LinkUp == /\ ~link /\ link' = TRUE
          /\ \A w \in Callers : calls[w] # "failed"     \* a rejection is handled at once
          /\ pty' = IF row = "gone" /\ pty # "none" /\ ~OldPtyd THEN "dying" ELSE pty
          /\ UNCHANGED <<dbVars, memoryVars, fg, busy, ghostVars>>
(* The runner's socket to the server breaks, the process lives on. *)
Blip == /\ reg = "open" /\ pty = "runner" /\ Fault
        /\ SocketEnds
        /\ UNCHANGED <<row, cmd, fixable, queued, parked, doomed, watched, rec, dead,
                       sweep,
                       listed, calls, ptydVars, acts, streak>>
PtydRestart ==
  /\ Fault /\ Disconnect
  /\ pty' = "none" /\ busy' = FALSE /\ fg' = FALSE
  /\ SocketEnds
  /\ UNCHANGED <<row, cmd, fixable, queued, parked, doomed, watched, rec, dead,
                 listed, acts, streak>>
ServerRestart ==
  /\ Fault
  /\ reg' = "none" /\ watched' = FALSE /\ rec' = None /\ armed' = FALSE /\ dead' = FALSE
  /\ sweep' = Resting /\ listed' = FALSE /\ calls' = [w \in Callers |-> "none"]
  /\ link' = FALSE /\ turn' = FALSE /\ streak' = 0
  /\ cmd' \in Repaired
  /\ UNCHANGED <<row, fixable, queued, parked, doomed, pty, fg, busy, acts>>

Faults == LinkDown \/ LinkUp \/ Blip \/ PtydRestart \/ ServerRestart

-----------------------------------------------------------------------------

(* A chat that was used before: its runner is up, or it is parked.         *)
Init ==
  /\ row = "live" /\ cmd \in {"good", "lost", "broken"} /\ fixable \in BOOLEAN
  /\ queued = FALSE /\ turn = FALSE /\ doomed = FALSE
  /\ \/ parked = TRUE  /\ pty = "none" /\ fg = FALSE /\ reg = "none"
     \/ parked = FALSE /\ pty = "none" /\ fg = FALSE /\ reg = "none"
     \/ parked = FALSE /\ pty = "runner" /\ fg = TRUE /\ reg = "open" /\ cmd = "good"
  /\ watched = FALSE /\ rec = None /\ armed = FALSE /\ dead = FALSE
  /\ sweep = Resting /\ listed = FALSE /\ calls = [w \in Callers |-> "none"]
  /\ link = TRUE /\ busy = FALSE
  /\ faults = 0 /\ acts = 0 /\ streak = 0

Next == Sweep \/ Runner \/ Users \/ Routes \/ Faults

Spec == Init /\ [][Next]_vars

(***************************************************************************)
(* The timers fire, ptyd answers and comes back, a command in a shell      *)
(* starts, a runner that is up connects, a turn ends, and a runner without *)
(* a session dies.  No fairness for what users do, nor for close events.   *)
(***************************************************************************)
Fairness ==
  /\ WF_vars(Sweep) /\ WF_vars(Boot) /\ WF_vars(Hello) /\ WF_vars(CoolDown)
  /\ WF_vars(PtyExit) /\ WF_vars(Poll) /\ WF_vars(TurnDone)
  /\ WF_vars(cmd = "lost" /\ RunnerDies)
  /\ WF_vars(RespawnGoesOn) /\ WF_vars(DeleteGoesOn) /\ WF_vars(ParkDecide)
  /\ WF_vars(ParkMark) /\ WF_vars(Reap) /\ WF_vars(LinkUp)

FairSpec == Spec /\ Fairness

-----------------------------------------------------------------------------
(* Properties *)

Sweeps  == [pc : {"idle", "pane", "fg", "kill"}, answer : BOOLEAN, own : BOOLEAN,
            st : Records \cup {None}]

(* Every variable keeps to its values; the attempts to their cap           *)
(* (respawn-policy.ts RESPAWN_MAX_ATTEMPTS).                               *)
RowOK    == /\ row \in {"live", "gone"} /\ cmd \in {"good", "lost", "broken"}
            /\ fixable \in BOOLEAN /\ queued \in BOOLEAN /\ turn \in BOOLEAN
            /\ parked \in BOOLEAN /\ doomed \in BOOLEAN
MemoryOK == /\ reg \in {"none", "open", "closing"} /\ watched \in BOOLEAN
            /\ armed \in BOOLEAN /\ dead \in BOOLEAN /\ listed \in BOOLEAN
PtydOK   == /\ link \in BOOLEAN /\ fg \in BOOLEAN /\ busy \in BOOLEAN
            /\ pty \in {"none", "boot", "runner", "shell", "dying"}
GhostOK  == /\ faults \in 0 .. MaxFaults /\ acts \in 0 .. MaxActs
            /\ streak \in 0 .. StreakCap
RecordOK == rec \in Records \cup {None}
SweepOK  == sweep \in Sweeps
CallsOK  == calls \in [Callers -> {"none", "sent", "done", "failed"}]

TypeOK == RowOK /\ MemoryOK /\ PtydOK /\ GhostOK /\ RecordOK /\ SweepOK /\ CallsOK

(* A pane that was given up holds no message: nobody would ever run it     *)
(* (queue.clear at the give-up, the gaveUp rejection of submitSend).       *)
GaveUpHoldsNothing == GaveUp => ~queued

(* However its command fails, a pane is restarted at most MaxAttempts      *)
(* times, and as often again after a repair or a heal, until the probation *)
(* timer vouches for a runner.                                             *)
RestartsBounded == streak <= 2 * MaxAttempts

(* An outage of ptyd spends no attempt and clears no queue: "a throw is    *)
(* not death" (sweepDeadRunners).                                          *)
OutageSpendsNothing ==
  [][~link => Spent(rec') <= Spent(rec) /\ (GaveUp' => GaveUp)]_vars

(* Queued work gets a runner, or is given up, through every bounded mix of *)
(* deaths, outages, restarts, deletions and parkings.                      *)
QueueMoves == queued ~> ~queued

(* A reader is not left in front of silence: a runner registers, or the    *)
(* pane says it is dead, or has gone (the union in sweepDeadRunners).  A   *)
(* socket that is dead and never fires its close event counts as a runner  *)
(* here: the sweep drops it for queued work only.                          *)
WatchedIsServed == watched ~> reg # "none" \/ GaveUp \/ ~watched \/ row = "gone"

(* The kill of a deleted pane that could not be sent is sent again, even   *)
(* to a ptyd that cannot list its panes (pane-reaper.ts); unless the       *)
(* server dies before it has deleted the row: then nothing is deleted.     *)
DeletedForGood == row = "gone" /\ pty = "none"
NothingDeleted == row # "gone" /\ calls["delete"] = "none"
LostKillRetried == calls["delete"] = "failed" ~> (DeletedForGood \/ NothingDeleted)
=============================================================================
