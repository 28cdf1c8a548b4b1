---------------------------- MODULE SpawnRounds ----------------------------
(***************************************************************************)
(* A parent chat hands work to sub-chats ("kids").  Each hand-over is a    *)
(* ROUND: it opens with a message into the kid, closes when the kid has    *)
(* settled, its runner was given up or the user filed the chat away, gets  *)
(* a result later (a statement of the kid, or a summary that takes a model *)
(* call) and is handed to the parent in one message with its fan-out.      *)
(* tab-retire.ts, SpawnRoundStore.ts, SpawnReportWriter.ts and             *)
(* report-delivery.ts, with the parts of ws.ts that drive them.            *)
(*                                                                         *)
(* A closure has a stamp, the model's ended_at; a stamp is used once.      *)
(* `conn` is the kid's runner: "up" connected, "away" alive without a      *)
(* socket, "gone" dead and still supervised, "dead" given up, "none" the   *)
(* pane was deleted.  `turn` is the truth of the process; the server sees  *)
(* it while the runner is up.                                              *)
(***************************************************************************)
EXTENDS Integers, FiniteSets, Sequences

CONSTANTS Kids,       \* the sub-chats, spawned by one turn of the parent
          MaxRounds,  \* bound on the rounds of a kid
          MaxActs,    \* bound on messages, wakeups and acts of the user
          MaxFaults,  \* bound on faults
          Kinds,      \* the faults that happen: some of Faults
          Prompt      \* runners reconnect within the settle window

Faults == {"blip", "die", "restart", "deaf"}

ASSUME RoundsAssumption == /\ MaxRounds \in Nat \ {0} /\ MaxActs \in Nat
                           /\ MaxFaults \in Nat /\ Kinds \subseteq Faults
                           /\ Prompt \in BOOLEAN

VARIABLES rounds, retired, pinned, card,     \* the database: spawn_rounds, tabs
          queued,                            \* the database: agent_queue
          stated, settle, jobs,              \* memory of the server
          conn, turn, back,                  \* the kids' runners
          par, parTurn, deaf,                \* the parent
          clock, grace, ceiling,             \* time, counted in closures
          told, again,                       \* history: closures handed over
          acts, faults

tabs    == <<rounds, retired, pinned, card>>
memory  == <<stated, settle, jobs>>
runners == <<conn, turn, back, queued>>
parent  == <<par, deaf>>
handed  == <<parTurn, told, again>>
time    == <<grace, ceiling>>
vars    == <<tabs, memory, runners, parent, handed, time, clock, acts, faults>>

Act  == acts < MaxActs /\ acts' = acts + 1 /\ faults' = faults
Fault(kind) == kind \in Kinds /\ faults < MaxFaults /\ faults' = faults + 1 /\ acts' = acts
Calm == UNCHANGED <<acts, faults>>

Set(f, c, v) == [f EXCEPT ![c] = v]
-----------------------------------------------------------------------------
(* The rounds of a kid: only its last one can be open.                      *)
Fresh(t)     == [turn |-> t, end |-> 0, got |-> 0, sent |-> FALSE]
Tip(R, c)    == R[c][Len(R[c])]
IsOpen(R, c) == Tip(R, c).end = 0
SetTip(R, c, r) == Set(R, c, Set(R[c], Len(R[c]), r))

\* One round while it is open, however many messages go into it.
Open(R, c)  == IF IsOpen(R, c) THEN R ELSE Set(R, c, Append(R[c], Fresh(parTurn)))
Close(R, c) == IF IsOpen(R, c) THEN SetTip(R, c, [Tip(R, c) EXCEPT !.end = clock + 1]) ELSE R
\* Work goes on: the closure was premature, its result and its delivery go.
Reopen(R, c) == IF IsOpen(R, c) THEN R ELSE SetTip(R, c, Fresh(Tip(R, c).turn))
Stamped(R, c) == clock' = IF IsOpen(R, c) THEN clock + 1 ELSE clock

\* A kid is a sub-chat while its parent's row exists.
Sub == par # "gone"
-----------------------------------------------------------------------------
\* Mutant of Pending.
Pending_NeedsResult(R) ==
  {p \in Kids \X (1..MaxRounds) :
     /\ p[2] <= Len(R[p[1]])
     /\ LET r == R[p[1]][p[2]] IN r.end # 0 /\ ~r.sent /\ r.got # 0}

(* Report delivery.                                                         *)
Pending(R) ==
  {p \in Kids \X (1..MaxRounds) :
     /\ p[2] <= Len(R[p[1]])
     /\ LET r == R[p[1]][p[2]]
        IN  r.end # 0 /\ ~r.sent /\ (r.got # 0 \/ r.end <= grace)}
Stamps(R, P) == {R[p[1]][p[2]].end : p \in P}

\* The barrier: a round of the same turn of the parent still runs.
Held(R) ==
  /\ \E p \in Pending(R), c \in Kids : IsOpen(R, c) /\ Tip(R, c).turn = R[p[1]][p[2]].turn
  /\ \A s \in Stamps(R, Pending(R)) : s > ceiling

MarkDelivered(R, P) ==
  [c \in Kids |-> [i \in 1..Len(R[c]) |->
     IF <<c, i>> \in P THEN [R[c][i] EXCEPT !.sent = TRUE] ELSE R[c][i]]]

\* Mutant of Cut.
Cut_SendFirst(R, P) == [rounds |-> R, told |-> told \cup Stamps(R, P)]

\* A crash between the stamp and the send: the batch counts as delivered.
Cut(R, P) == [rounds |-> MarkDelivered(R, P), told |-> told]

\* flushParent.  The message into the parent restarts its clock: a new turn.
Hand(R) ==
  LET P == Pending(R)
  IN  \/ /\ P = {} \/ (par = "live" /\ (Held(R) \/ deaf))
         /\ rounds' = R /\ UNCHANGED handed
      \/ /\ P # {} /\ par # "live"
         /\ rounds' = MarkDelivered(R, P) /\ UNCHANGED handed
      \/ /\ P # {} /\ par = "live" /\ ~Held(R) /\ ~deaf
         /\ rounds' = MarkDelivered(R, P)
         /\ parTurn' = parTurn + 1
         /\ told' = told \cup Stamps(R, P)
         /\ again' = (again \/ Stamps(R, P) \cap told # {})
-----------------------------------------------------------------------------
(* The report writer.                                                       *)
Job(R, c) == [kid |-> c, round |-> Len(R[c]), end |-> Tip(R, c).end]

\* Mutant of IsCurrent.
IsCurrent_ById(R, j) == TRUE

\* A reopened round is another closure; a result for the old one is dropped.
IsCurrent(R, j) == R[j.kid][j.round].end = j.end
\* Mutant of OwnsTab.
OwnsTab_Always(R, j) == TRUE

\* The card of the tab belongs to the newest job, once it has closed.
OwnsTab(R, j) == ~IsOpen(R, j.kid) /\ Len(R[j.kid]) = j.round
WriteResult(R, j) == [R EXCEPT ![j.kid][j.round].got = j.end]

Deliver(R, j) ==
  /\ card' = IF OwnsTab(R, j) THEN Set(card, j.kid, j.end) ELSE card
  /\ Hand(WriteResult(R, j))

\* onFinished: close at once, then the statement, or a generation in flight.
Finished(c) ==
  LET R == Close(rounds, c)
      j == Job(R, c)
  IN  /\ Stamped(rounds, c)
      /\ IF j \in jobs
         THEN rounds' = R /\ UNCHANGED <<jobs, stated, card, handed>>
         ELSE IF stated[c] # 0
         THEN Deliver(R, j) /\ stated' = Set(stated, c, 0) /\ UNCHANGED jobs
         ELSE rounds' = R /\ jobs' = jobs \cup {j} /\ UNCHANGED <<stated, card, handed>>

\* A generation ends, after at most one retry: with a result, or with none.
Generated(j, result) ==
  /\ j \in jobs /\ jobs' = jobs \ {j}
  /\ IF result /\ IsCurrent(rounds, j)
     THEN Deliver(rounds, j)
     ELSE UNCHANGED <<rounds, card, handed>>
  /\ Calm /\ UNCHANGED <<retired, pinned, stated, settle, runners, parent, time, clock>>
-----------------------------------------------------------------------------
(* The settle.                                                              *)

\* Mutant of Starts.
Starts_NoRevive(c, R, was) ==
  /\ settle' = Set(settle, c, "none") /\ rounds' = R
  /\ UNCHANGED card /\ retired' = Set(retired, c, was)

\* Mutant of Starts.
Starts_KeepsVerdict(c, R, was) ==
  /\ settle' = Set(settle, c, "none") /\ UNCHANGED card
  /\ IF Sub /\ was # "archived"
     THEN rounds' = Reopen(R, c) /\ retired' = Set(retired, c, "no")
     ELSE rounds' = R /\ retired' = Set(retired, c, was)

\* onTurnStart: disarm, reopen, forget the old verdict, revive.
Starts(c, R, was) ==
  /\ settle' = Set(settle, c, "none")
  /\ IF Sub /\ was # "archived"
     THEN rounds' = Reopen(R, c) /\ retired' = Set(retired, c, "no") /\ card' = Set(card, c, 0)
     ELSE rounds' = R /\ retired' = Set(retired, c, was) /\ UNCHANGED card

Nothing == UNCHANGED <<tabs, stated, jobs, handed, clock>>

\* Mutant of Settles.
Settles_NoRearm(c, phase, idle, b) ==
  IF ~idle \/ queued[c] > 0 \/ b = "roster"
  THEN Nothing /\ settle' = Set(settle, c, "none")
  ELSE /\ Finished(c) /\ settle' = Set(settle, c, "none")
       /\ retired' = IF phase = "fatal" \/ pinned[c] \/ retired[c] # "no"
                     THEN retired ELSE Set(retired, c, "delivered")
       /\ UNCHANGED pinned

\* settle(): everything is read again.  `b` is what runs in the background.
Settles(c, phase, idle, b) ==
  IF ~idle \/ queued[c] > 0 \/ b = "roster"
  THEN Nothing /\ settle' = Set(settle, c, IF idle /\ b = "roster" THEN phase ELSE "none")
  ELSE /\ Finished(c)
       /\ settle' = Set(settle, c, "none")
       /\ \E hold \in BOOLEAN :
            /\ phase = "fatal" => hold
            /\ retired' = IF hold \/ pinned[c] \/ retired[c] # "no"
                          THEN retired ELSE Set(retired, c, "delivered")
       /\ UNCHANGED pinned

\* onTurnEnded: arm, unless more work is known or the result was stated.
TurnEnded(c, phase, idle, b) ==
  IF ~Sub THEN Nothing /\ UNCHANGED settle
  ELSE IF b = "commands" \/ (queued[c] > 0 /\ b # "roster")
  THEN Nothing /\ settle' = Set(settle, c, "none")
  ELSE IF stated[c] # 0 THEN Settles(c, phase, idle, b)
  ELSE Nothing /\ settle' = Set(settle, c, phase)

\* The timer, ninety seconds.  A reconnect takes seconds and the first respawn
\* forty-five: with Prompt, the runner is back before it fires, or never.
Settle(c) ==
  /\ settle[c] # "none"
  /\ Prompt => conn[c] \notin {"away", "gone"}
  /\ IF Sub THEN Settles(c, settle[c], conn[c] = "up" /\ ~turn[c], back[c])
            ELSE Nothing /\ settle' = Set(settle, c, "none")
  /\ Calm /\ UNCHANGED <<runners, parent, time>>
-----------------------------------------------------------------------------
(* Turns of a kid.                                                          *)

\* A message: it opens the round and revives the chat, then runs or queues.
Task(c) ==
  /\ Act
  /\ conn[c] \notin {"dead", "none"}
  /\ ~IsOpen(rounds, c) => Len(rounds[c]) < MaxRounds
  /\ LET R == IF Sub THEN Open(rounds, c) ELSE rounds
     IN  IF conn[c] = "up" /\ ~turn[c] /\ queued[c] = 0
         THEN Starts(c, R, "no") /\ turn' = Set(turn, c, TRUE) /\ UNCHANGED queued
         ELSE /\ rounds' = R /\ retired' = Set(retired, c, "no")
              /\ queued' = Set(queued, c, 1) /\ UNCHANGED <<settle, card, turn>>
  /\ UNCHANGED <<pinned, stated, jobs, conn, back, parent, handed, time, clock>>

\* A wakeup or the end of a background task starts a turn nobody asked for.
AutoStart(c) ==
  /\ Act /\ conn[c] = "up" /\ ~turn[c]
  /\ turn' = Set(turn, c, TRUE) /\ Starts(c, rounds, retired[c])
  /\ UNCHANGED <<pinned, stated, jobs, conn, back, queued, parent, handed, time, clock>>

\* The report tool.
State(c) ==
  /\ conn[c] = "up" /\ turn[c]
  /\ stated' = Set(stated, c, Len(rounds[c])) /\ stated' # stated
  /\ Calm /\ UNCHANGED <<tabs, settle, jobs, runners, parent, handed, time, clock>>

\* turn-done; then the queue feeds the next message.
TurnEnd(c) ==
  /\ conn[c] = "up" /\ turn[c] /\ Calm
  /\ IF queued[c] > 0
     THEN /\ queued' = Set(queued, c, 0) /\ Starts(c, rounds, retired[c])
          /\ UNCHANGED <<pinned, stated, jobs, handed, clock, turn, back>>
     ELSE \E b \in {"none", "roster", "commands"} :
            /\ back' = Set(back, c, b) /\ turn' = Set(turn, c, FALSE)
            /\ TurnEnded(c, "done", TRUE, b) /\ UNCHANGED queued
  /\ UNCHANGED <<conn, parent, time>>

\* The turn ends without a socket: the frame is lost.
TurnEndUnseen(c) ==
  /\ conn[c] = "away" /\ turn[c] /\ turn' = Set(turn, c, FALSE)
  /\ Calm /\ UNCHANGED <<tabs, memory, conn, back, queued, parent, handed, time, clock>>

\* The roster clears silently, the last command is reported as a turn-end.
Drain(c) ==
  /\ back[c] # "none" /\ back' = Set(back, c, "none") /\ Calm
  /\ IF back[c] = "commands" /\ conn[c] = "up" /\ ~turn[c]
     THEN TurnEnded(c, "done", TRUE, "none")
     ELSE Nothing /\ UNCHANGED settle
  /\ UNCHANGED <<conn, turn, queued, parent, time>>
-----------------------------------------------------------------------------
(* The runner comes and goes.                                               *)

\* teardown: a turn in flight is ended for it, with no runner registered.
Blip(c) ==
  /\ Fault("blip") /\ conn[c] = "up" /\ conn' = Set(conn, c, "away")
  /\ IF turn[c] THEN TurnEnded(c, "done", FALSE, "none") ELSE Nothing /\ UNCHANGED settle
  /\ UNCHANGED <<turn, back, queued, parent, time>>

\* The process dies, having said `fatal` or not.  The fatal of a turn in
\* flight is overtaken by the turn-end its teardown makes up.
Die(c) ==
  /\ Fault("die") /\ conn[c] \in {"up", "away"} /\ conn' = Set(conn, c, "gone")
  /\ turn' = Set(turn, c, FALSE) /\ back' = Set(back, c, "none")
  /\ \/ conn[c] = "up" /\ turn[c] /\ TurnEnded(c, "done", FALSE, "none")
     \/ conn[c] = "up" /\ ~turn[c] /\ TurnEnded(c, "fatal", TRUE, back[c])
     \/ (conn[c] = "up" => ~turn[c]) /\ Nothing /\ UNCHANGED settle
  /\ UNCHANGED <<queued, parent, time>>

\* hello: a turn in flight is announced again, else the queue is drained.
Hello(c) ==
  /\ conn' = Set(conn, c, "up")
  /\ IF turn[c] \/ queued[c] > 0
     THEN /\ turn' = Set(turn, c, TRUE)
          /\ queued' = IF turn[c] THEN queued ELSE Set(queued, c, 0)
          /\ Starts(c, rounds, retired[c])
     ELSE UNCHANGED <<turn, queued, settle, rounds, retired, card>>
  /\ UNCHANGED <<pinned, stated, jobs, back, parent, handed, time, clock>>

Reconnect(c) == conn[c] = "away" /\ Hello(c) /\ Calm
Respawn(c)   == conn[c] = "gone" /\ Hello(c) /\ Calm
UserRespawn(c) == conn[c] = "dead" /\ Hello(c) /\ Act

\* The sweep gives the runner up: the queue goes, the round ends as a crash.
GiveUp(c) ==
  /\ conn[c] = "gone" /\ conn' = Set(conn, c, "dead") /\ queued' = Set(queued, c, 0)
  /\ settle' = Set(settle, c, "none")
  /\ IF Sub THEN Finished(c)
            ELSE UNCHANGED <<rounds, card, stated, jobs, handed, clock>>
  /\ retired' = IF Sub /\ ~pinned[c] /\ retired[c] = "no" THEN Set(retired, c, "died") ELSE retired
  /\ Calm /\ UNCHANGED <<pinned, turn, back, parent, time>>
-----------------------------------------------------------------------------
(* The user.                                                                *)

\* Mutant of Retire.
Retire_LeavesRound(c, why) ==
  /\ UNCHANGED <<rounds, clock>>
  /\ retired' = IF retired[c] = "no" THEN Set(retired, c, why) ELSE retired

\* retireChat: one door, and the round closes with the row.
Retire(c, why) ==
  /\ rounds' = Close(rounds, c) /\ Stamped(rounds, c)
  /\ retired' = IF retired[c] = "no" THEN Set(retired, c, why) ELSE retired

Archive(c) ==
  /\ Act /\ Retire(c, "archived") /\ pinned' = Set(pinned, c, FALSE)
  /\ UNCHANGED <<card, memory, runners, parent, handed, time>>

Unarchive(c) ==
  /\ Act /\ retired[c] # "no" /\ retired' = Set(retired, c, "no")
  /\ UNCHANGED <<rounds, pinned, card, memory, runners, parent, handed, time, clock>>

Pin(c) ==
  /\ Act /\ pinned' = Set(pinned, c, ~pinned[c])
  /\ UNCHANGED <<rounds, retired, card, memory, runners, parent, handed, time, clock>>

\* The pane goes, and with it every later verdict: retireOrphanedChild.
DeletePane(c) ==
  /\ Act /\ conn[c] # "none" /\ conn' = Set(conn, c, "none")
  /\ turn' = Set(turn, c, FALSE) /\ back' = Set(back, c, "none")
  /\ queued' = Set(queued, c, 0) /\ settle' = Set(settle, c, "none")
  /\ IF Sub /\ retired[c] = "no" /\ ~pinned[c] THEN Retire(c, "died")
     ELSE IF Sub /\ retired[c] = "no"
     THEN rounds' = Close(rounds, c) /\ Stamped(rounds, c) /\ UNCHANGED retired
     ELSE UNCHANGED <<rounds, retired, clock>>
  /\ UNCHANGED <<pinned, card, stated, jobs, parent, handed, time>>

ParentMessage ==
  /\ Act /\ Sub /\ parTurn' = parTurn + 1 /\ par' = "live"
  /\ UNCHANGED <<tabs, memory, runners, deaf, told, again, time, clock>>

ParentLeaves ==
  /\ Act /\ par = "live" /\ par' \in {"archived", "gone"}
  /\ UNCHANGED <<tabs, memory, runners, deaf, handed, time, clock>>
-----------------------------------------------------------------------------
(* Time, refusals and restarts.                                             *)

\* Closures so far are past the grace; those past it before, past the hold.
Tick ==
  /\ <<grace, ceiling>> # <<clock, clock>>
  /\ grace' = clock /\ ceiling' = grace
  /\ Calm /\ UNCHANGED <<tabs, memory, runners, parent, handed, clock>>

Sweep ==
  /\ Hand(rounds) /\ rounds' # rounds
  /\ Calm /\ UNCHANGED <<retired, pinned, card, memory, runners, parent, time, clock>>

Deafen == Fault("deaf") /\ ~deaf /\ deaf' = TRUE
          /\ UNCHANGED <<tabs, memory, runners, par, handed, time, clock>>
Hears  == deaf /\ deaf' = FALSE /\ Calm
          /\ UNCHANGED <<tabs, memory, runners, par, handed, time, clock>>

\* reconcileDeadChats: a retired chat whose round was left open.
Reconcile(R, ret) == [c \in Kids |-> IF ret[c] # "no" THEN Close(R, c)[c] ELSE R[c]]

\* Everything in memory goes; the boot passes run before anyone connects.
\* recoverStuck asks again for retired kids without a verdict.
Boot(R, ret) ==
  /\ rounds' = Reconcile(R, ret) /\ retired' = ret
  /\ clock' = IF Reconcile(R, ret) = R THEN clock ELSE clock + 1
  /\ settle' = [c \in Kids |-> IF Sub /\ ret[c] = "no" /\ ~pinned[c] /\ conn[c] # "none"
                               THEN "done" ELSE "none"]
  /\ stated' = [c \in Kids |-> 0]
  /\ jobs' \in SUBSET {Job(rounds', c) : c \in {k \in Kids : ret[k] # "no" /\ card[k] = 0
                                                             /\ conn[k] # "none"}}
  /\ conn' = [c \in Kids |-> CASE conn[c] = "up" -> "away" [] conn[c] = "dead" -> "gone"
                               [] OTHER -> conn[c]]

\* The server restarts: between two writes of an archive or of a delivery too.
Restart ==
  /\ Fault("restart")
  /\ \/ Boot(rounds, retired) /\ UNCHANGED <<told, pinned>>
     \/ \E c \in Kids :
          /\ retired[c] = "no" /\ Boot(rounds, Set(retired, c, "archived"))
          /\ pinned' = Set(pinned, c, FALSE) /\ UNCHANGED told
     \/ LET k == Cut(rounds, Pending(rounds))
        IN  /\ Pending(rounds) # {} /\ par = "live" /\ ~Held(rounds) /\ ~deaf
            /\ Boot(k.rounds, retired) /\ told' = k.told /\ UNCHANGED pinned
  /\ UNCHANGED <<card, turn, back, queued, parent, parTurn, again, time>>
-----------------------------------------------------------------------------
Init ==
  /\ rounds = [c \in Kids |-> <<Fresh(1)>>]
  /\ retired = [c \in Kids |-> "no"] /\ pinned = [c \in Kids |-> FALSE]
  /\ card = [c \in Kids |-> 0] /\ queued = [c \in Kids |-> 0]
  /\ stated = [c \in Kids |-> 0] /\ settle = [c \in Kids |-> "none"] /\ jobs = {}
  /\ conn = [c \in Kids |-> "up"] /\ turn = [c \in Kids |-> TRUE]
  /\ back = [c \in Kids |-> "none"]
  /\ par = "live" /\ parTurn = 1 /\ deaf = FALSE
  /\ clock = 0 /\ grace = 0 /\ ceiling = 0 /\ told = {} /\ again = FALSE
  /\ acts = 0 /\ faults = 0

KidStep(c) ==
  \/ Task(c) \/ AutoStart(c) \/ State(c) \/ TurnEnd(c) \/ TurnEndUnseen(c)
  \/ Drain(c) \/ Settle(c) \/ Blip(c) \/ Die(c) \/ Reconnect(c) \/ Respawn(c)
  \/ UserRespawn(c) \/ GiveUp(c) \/ Archive(c) \/ Unarchive(c) \/ Pin(c) \/ DeletePane(c)

Next ==
  \/ \E c \in Kids : KidStep(c)
  \/ \E j \in jobs, result \in BOOLEAN : Generated(j, result)
  \/ ParentMessage \/ ParentLeaves \/ Tick \/ Sweep \/ Deafen \/ Hears \/ Restart

Spec == Init /\ [][Next]_vars

\* Turns end, commands end, a model call is cut off after 30 s, timers fire, a
\* runner reconnects, a dead one is respawned or given up, the sweep runs.
GenerationEnds(c) ==
  \E j \in jobs, result \in BOOLEAN : j.kid = c /\ Generated(j, result)
Fairness ==
  /\ \A c \in Kids :
       /\ WF_vars(TurnEnd(c) \/ TurnEndUnseen(c)) /\ WF_vars(Drain(c))
       /\ WF_vars(Settle(c)) /\ WF_vars(Reconnect(c))
       /\ WF_vars(Respawn(c) \/ GiveUp(c)) /\ WF_vars(GenerationEnds(c))
  /\ WF_vars(Tick) /\ WF_vars(Sweep) /\ WF_vars(Hears)
FairSpec == Spec /\ Fairness
-----------------------------------------------------------------------------
Round == [turn : 1..parTurn, end : 0..clock, got : 0..clock, sent : BOOLEAN]

\* Types, and of the times: what is past the hold is past the grace.
TypeOK ==
  /\ \A c \in Kids : rounds[c] \in Seq(Round) /\ Len(rounds[c]) \in 1..MaxRounds
  /\ retired \in [Kids -> {"no", "delivered", "died", "archived"}]
  /\ pinned \in [Kids -> BOOLEAN] /\ card \in [Kids -> 0..clock]
  /\ queued \in [Kids -> 0..1] /\ stated \in [Kids -> 0..MaxRounds]
  /\ settle \in [Kids -> {"none", "done", "fatal"}]
  /\ jobs \subseteq [kid : Kids, round : 1..MaxRounds, end : 1..clock]
  /\ conn \in [Kids -> {"up", "away", "gone", "dead", "none"}]
  /\ turn \in [Kids -> BOOLEAN] /\ back \in [Kids -> {"none", "roster", "commands"}]
  /\ par \in {"live", "archived", "gone"} /\ parTurn \in Nat /\ deaf \in BOOLEAN
  /\ clock \in Nat /\ grace \in 0..clock /\ ceiling \in 0..grace
  /\ told \subseteq 1..clock /\ again \in BOOLEAN
  /\ acts \in 0..MaxActs /\ faults \in 0..MaxFaults

(* "A retired chat has no open round" (tab-retire.ts): every door out of    *)
(* the live list closes the round, a crash in the middle of one included,   *)
(* and every door back reopens or opens one only with the row.              *)
RetiredHasNoOpenRound ==
  \A c \in Kids : retired[c] # "no" /\ Sub => ~IsOpen(rounds, c)

(* A result on a round was made for the closure the round now has: a        *)
(* summary that was still being written when the worker went on never       *)
(* lands on the round it reopened, nor on its later closure.                *)
ResultOfItsClosure ==
  \A c \in Kids : \A i \in 1..Len(rounds[c]) :
     rounds[c][i].got # 0 => rounds[c][i].got = rounds[c][i].end

(* No closure is handed to the parent twice, by the nudge and the sweep,    *)
(* a refusal and its retry, or a crash in between.                          *)
HandedOnce == ~again

(* A chat filed as delivered or dead is quiet: no turn of its runner is     *)
(* known to the server and no message waits for it.                         *)
DoneIsQuiet ==
  \A c \in Kids : retired[c] \in {"delivered", "died"} /\ Sub =>
     queued[c] = 0 /\ ~(conn[c] = "up" /\ turn[c])

(* Whatever writes the verdict on the tab writes that of its newest job,    *)
(* and never while a newer one runs: a late summary of an old round stays   *)
(* off the card.                                                            *)
CardOfNewestJob ==
  [][\A c \in Kids : card'[c] \notin {0, card[c]} => card'[c] = Tip(rounds', c).end]_vars

(* The verdict outlives neither a restart nor a reopening: a card that      *)
(* shows a verdict is over a closure that has a result.                     *)
CardHasResult ==
  \A c \in Kids : card[c] # 0 => \E i \in 1..Len(rounds[c]) : rounds[c][i].got = card[c]

(* A closed round is handed over, settled or reopened, unless the parent    *)
(* refuses for ever: with a lost summary, a crash, a sibling that never     *)
(* ends, or a parent that went away.                                        *)
Unsent(c, i) == i <= Len(rounds[c]) /\ rounds[c][i].end # 0 /\ ~rounds[c][i].sent
RoundsSettle ==
  \A c \in Kids, i \in 1..MaxRounds : Unsent(c, i) ~> ~Unsent(c, i)

(* The round of a worker that goes quiet ends: through its background work, *)
(* a sibling, a queue, a statement, and through a restart of the server,    *)
(* which forgets the timer.  Unless the chat is pinned at times, which a    *)
(* boot skips, or the parent's row went.                                    *)
OpenRoundEnds ==
  \A c \in Kids : []~pinned[c] => (IsOpen(rounds, c) ~> ~IsOpen(rounds, c) \/ ~Sub)
=============================================================================
