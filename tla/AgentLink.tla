------------------------------ MODULE AgentLink ------------------------------
(***************************************************************************)
(* The link between the muxpad server and the agent-runner process of ONE  *)
(* pane (server/src/ws.ts and server/src/agent-runner): the server-owned   *)
(* send queue, the runner registration, the optimistic turn claim and its  *)
(* mirrors, the correlation stamp, and the questions a turn waits on.      *)
(*                                                                         *)
(* Panes share no state here, so one pane stands for all of them.  The     *)
(* runner is the claude backend without its account and credential         *)
(* recovery.  Texts are model values; a message is submitted once.         *)
(***************************************************************************)
EXTENDS Naturals, FiniteSets, SequencesExt

CONSTANTS
  Msgs,        \* chat messages a client, the HTTP bridge or a cron may submit
  Questions,   \* ids of the questions a turn may block on
  Conns,       \* websockets; an id is used again once both ends have dropped it
  Procs,       \* agent-runner processes of the pane
  MaxQueue,    \* MAX_QUEUED_SENDS
  MaxFaults,   \* bound on link cuts, process crashes and server restarts
  MaxAuto,     \* bound on autonomous turns (wakeups, crons inside the session)
  Lingering,   \* may a socket be seen CLOSING before its close event fires?
  None         \* no connection, no message, no question

ASSUME ConstantsAssumption ==
  /\ MaxQueue \in Nat \ {0} /\ MaxFaults \in Nat /\ MaxAuto \in Nat
  /\ Lingering \in BOOLEAN
  /\ None \notin Msgs \cup Conns \cup Questions
  /\ "auto" \notin Msgs

VARIABLES
  \* ---- the server process
  seq,      \* agent_queue rows: seq[m] > 0 is m's row, 0 means no row
  gaveUp,   \* respawns.get(pane)?.gaveUp
  reg,      \* agentRunners.get(pane): the registered socket, or None
  conn,     \* its AgentRunnerConn: turnActive, lastSendAt > 0, stamp, questions
  view,     \* what everybody else sees of the pane: cache, row, bus, chat card
  \* ---- the sockets
  srv,      \* the server's end: closed, open, or closing (not OPEN any more)
  alive,    \* does the connection still carry frames?
  toRun,    \* frames on their way to the runner
  toSrv,    \* frames on their way to the server
  \* ---- the runner processes
  up,       \* the process runs
  sock,     \* its current websocket, or None while it waits to reconnect
  pend,     \* pendingTexts
  turn,     \* the message of the turn it is in, "auto", or None
  asking,   \* its pendingQuestions, oldest first
  \* ---- bounds and history
  faults, autos,
  fate,     \* what became of each message
  asked,    \* the question ids used so far (they are random UUIDs)
  accepted, \* how many messages were accepted
  born,     \* and which one each message was
  relayed   \* born of the message relayed last

serverVars == <<seq, gaveUp, reg, conn, view>>
wireVars   == <<srv, alive, toRun, toSrv>>
runnerVars == <<up, sock, pend, turn, asking>>
ghostVars  == <<fate, accepted, born, relayed, asked>>
vars == <<serverVars, wireVars, runnerVars, faults, autos, ghostVars>>

-----------------------------------------------------------------------------
(* Values *)

NoTurn == [active |-> FALSE, sent |-> FALSE, stamp |-> None, asks |-> <<>>]
Quiet  == [busy |-> FALSE, blocked |-> FALSE, row |-> "idle", bus |-> "done",
           card |-> None]

Send(m)         == [t |-> "send", msg |-> m]
StopFrame       == [t |-> "stop", msg |-> None]
Displaced       == [t |-> "displaced", msg |-> None]
Answer(q)       == [t |-> "answer", msg |-> q]
Hello(active)   == [t |-> "hello", by |-> active]
TurnStart(by)   == [t |-> "turn-start", by |-> by]
TurnDone        == [t |-> "turn-done", by |-> None]
Question(q)     == [t |-> "question", by |-> q]
QuestionDone(q) == [t |-> "question-done", by |-> q]

(* A question id is held at most once. *)
Position(s, x) == CHOOSE i \in DOMAIN s : s[i] = x
Without(s, x)  == IF Contains(s, x) THEN RemoveAt(s, Position(s, x)) ELSE s
Shown(s)       == IF s = <<>> THEN None ELSE Head(s)

-----------------------------------------------------------------------------
(* The queue table *)

Waiting(s)  == {m \in Msgs : s[m] > 0}

(* queue.peek: ORDER BY seq LIMIT 1; the mutant takes the other end. *)
Oldest_Newest(s) == CHOOSE m \in Waiting(s) : \A n \in Waiting(s) : s[n] <= s[m]
Oldest(s)   == CHOOSE m \in Waiting(s) : \A n \in Waiting(s) : s[m] <= s[n]
NextRank(s) == IF Waiting(s) = {} THEN 1 ELSE 1 + Max({s[m] : m \in Waiting(s)})

(* queue.remove of the row just relayed; the mutant forgets it. *)
TakeRow_Keeps(s, m) == s
TakeRow(s, m) == [s EXCEPT ![m] = 0]

(* Bytes written to a socket whose peer is gone vanish without an error. *)
Push(chan, c, frames) == IF c \in Conns /\ alive[c]
                         THEN [chan EXCEPT ![c] = @ \o frames] ELSE chan

SocketOpen == reg # None /\ srv[reg] = "open"

(***************************************************************************)
(* The relay of m: the server claims the turn before the runner's own      *)
(* turn-start echoes back, and mirrors the claim everywhere.               *)
(***************************************************************************)
Relay_Dark(c, v, m) ==     \* mutant: the claim is not mirrored (D14)
  /\ conn' = [c EXCEPT !.active = TRUE, !.sent = TRUE, !.stamp = m]
  /\ view' = v
  /\ toRun' = Push(toRun, reg, <<Send(m)>>)
Relay(c, v, m) ==
  /\ conn' = [c EXCEPT !.active = TRUE, !.sent = TRUE, !.stamp = m]
  /\ view' = [v EXCEPT !.busy = TRUE, !.row = "running", !.bus = "start"]
  /\ toRun' = Push(toRun, reg, <<Send(m)>>)

(***************************************************************************)
(* drainQueue, run at the end of a handler that leaves the connection c,   *)
(* the view v, the rows s and the fates f behind.                          *)
(***************************************************************************)
DrainQueue(c, v, s, f) ==
  \/ /\ reg = None \/ c.active \/ Waiting(s) = {}
     /\ conn' = c /\ view' = v /\ seq' = s /\ fate' = f
     /\ UNCHANGED <<reg, toRun, relayed>>
  \/ /\ ~c.active /\ Waiting(s) # {} /\ SocketOpen
     /\ Relay(c, v, Oldest(s))
     /\ seq' = TakeRow(s, Oldest(s))
     /\ fate' = [f EXCEPT ![Oldest(s)] = "relayed"]
     /\ relayed' = born'[Oldest(s)]
     /\ UNCHANGED reg
  \/ /\ reg # None /\ ~c.active /\ Waiting(s) # {} /\ ~SocketOpen
     /\ reg' = None /\ conn' = NoTurn
     /\ view' = v /\ seq' = s /\ fate' = f
     /\ UNCHANGED <<toRun, relayed>>

-----------------------------------------------------------------------------
(* Clients of the pane: chat sockets, the HTTP bridge, crons *)

CanSendNow_Overtakes == SocketOpen /\ ~conn.active     \* mutant: past the rows
CanSendNow == SocketOpen /\ ~conn.active /\ Waiting(seq) = {}

Accept(m) == /\ fate[m] = "new"
             /\ accepted' = accepted + 1
             /\ born' = [born EXCEPT ![m] = accepted']

SendNow(m) ==
  /\ CanSendNow
  /\ Accept(m)
  /\ Relay(conn, view, m)
  /\ fate' = [fate EXCEPT ![m] = "relayed"]
  /\ relayed' = born'[m]
  /\ UNCHANGED <<seq, gaveUp, reg, srv, alive, toSrv, runnerVars, faults, autos, asked>>

HasRoom_OffByOne == Cardinality(Waiting(seq)) <= MaxQueue     \* mutant
HasRoom == Cardinality(Waiting(seq)) < MaxQueue

Reject(m) ==
  /\ fate[m] = "new" /\ ~CanSendNow
  /\ gaveUp \/ ~HasRoom
  /\ fate' = [fate EXCEPT ![m] = "rejected"]
  /\ UNCHANGED <<serverVars, wireVars, runnerVars, faults, autos, accepted, born, relayed, asked>>

Enqueue(m) ==
  /\ ~CanSendNow
  /\ ~gaveUp /\ HasRoom
  /\ Accept(m)
  /\ DrainQueue(conn, view, [seq EXCEPT ![m] = NextRank(seq)],
                [fate EXCEPT ![m] = "queued"])
  /\ UNCHANGED <<gaveUp, srv, alive, toSrv, runnerVars, faults, autos, asked>>

(* The rows in S leave the table without being relayed. *)
Drop(S, why) ==
  /\ seq' = [m \in Msgs |-> IF m \in S THEN 0 ELSE seq[m]]
  /\ fate' = [m \in Msgs |-> IF m \in S THEN why ELSE fate[m]]
  /\ UNCHANGED <<wireVars, runnerVars, faults, autos, accepted, born, relayed, asked>>

QueueCancel(m) == /\ m \in Waiting(seq)
                  /\ Drop({m}, "cancelled")
                  /\ UNCHANGED <<gaveUp, reg, conn, view>>
QueueClear     == /\ Waiting(seq) # {}
                  /\ Drop(Waiting(seq), "cancelled")
                  /\ UNCHANGED <<gaveUp, reg, conn, view>>

Stopped_Stamped(c) == c     \* mutant: the stamp outlives the Stop
Stopped(c) == [c EXCEPT !.stamp = None]

(* Stop, from the chat socket or agentBridge.stop: relayed when a turn is  *)
(* active or this connection relayed a send in the last 15 s (any send: a  *)
(* model without a clock lets the 15 s be as long or as short as it may).  *)
Stop ==
  /\ reg # None
  /\ conn.active \/ conn.sent
  /\ ~Contains(toRun[reg], StopFrame)      \* bound: one Stop in flight
  /\ conn' = Stopped(conn)
  /\ toRun' = IF SocketOpen THEN Push(toRun, reg, <<StopFrame>>) ELSE toRun
  /\ UNCHANGED <<seq, gaveUp, reg, view, srv, alive, toSrv, runnerVars, faults,
                 autos, ghostVars>>

(* The user answers the card: the client drops it, the server relays. *)
AnswerCard ==
  /\ view.card # None
  /\ reg # None => ~Contains(toRun[reg], Answer(view.card))   \* bound: one in flight
  /\ view' = [view EXCEPT !.card = None]
  /\ toRun' = IF SocketOpen THEN Push(toRun, reg, <<Answer(view.card)>>) ELSE toRun
  /\ UNCHANGED <<seq, gaveUp, reg, conn, srv, alive, toSrv, runnerVars, faults,
                 autos, ghostVars>>

(* A chat socket (re)opens: its first session frame carries the front question. *)
SessionFrame ==
  /\ view.card # Shown(conn.asks)
  /\ view' = [view EXCEPT !.card = Shown(conn.asks)]
  /\ UNCHANGED <<seq, gaveUp, reg, conn, wireVars, runnerVars, faults, autos, ghostVars>>

-----------------------------------------------------------------------------
(* The server's end of the runner socket *)

(* A frame of c reaches the server, which ignores every socket but the     *)
(* registered one; no frame is delivered once the socket left OPEN.        *)
Frame(c) == Head(toSrv[c])
Pop(c)   == /\ srv[c] = "open" /\ toSrv[c] # <<>>
            /\ toSrv' = [toSrv EXCEPT ![c] = Tail(@)]
Receive(c, t) == Pop(c) /\ reg = c /\ Frame(c).t = t

RecvIgnored(c) ==
  /\ Pop(c) /\ reg # c
  /\ UNCHANGED <<serverVars, srv, alive, toRun, runnerVars, faults, autos, ghostVars>>

RecvHello(c) ==
  LET active == Frame(c).by IN
  /\ Receive(c, "hello")
  /\ UNCHANGED <<accepted, born>>
  /\ gaveUp' = FALSE
  /\ DrainQueue([conn EXCEPT !.active = active],
                [view EXCEPT !.busy = active,
                             !.row  = IF active THEN "running" ELSE "idle",
                             !.bus  = IF active THEN "start" ELSE @,
                             !.card = Shown(conn.asks)],
                seq, fate)
  /\ UNCHANGED <<srv, alive, runnerVars, faults, autos, asked>>

RecvTurnStart(c) ==
  /\ Receive(c, "turn-start")
  /\ conn' = [conn EXCEPT !.active = TRUE, !.stamp = None]
  /\ view' = [view EXCEPT !.busy = TRUE, !.row = "running", !.bus = "start"]
  /\ UNCHANGED <<seq, gaveUp, reg, srv, alive, toRun, runnerVars, faults, autos, ghostVars>>

TurnOver_StaysActive(c) == [c EXCEPT !.stamp = None, !.asks = <<>>]     \* mutant
TurnOver(c) == [c EXCEPT !.active = FALSE, !.stamp = None, !.asks = <<>>]

RecvTurnDone(c) ==
  /\ Receive(c, "turn-done")
  /\ UNCHANGED <<accepted, born>>
  /\ DrainQueue(TurnOver(conn),
                [view EXCEPT !.busy = FALSE, !.blocked = FALSE, !.row = "idle",
                             !.bus = "done", !.card = None],
                seq, fate)
  /\ UNCHANGED <<gaveUp, srv, alive, runnerVars, faults, autos, asked>>

(* Only the front question is shown; the others wait for it. *)
Held_OneSlot(asks, q) == <<q>>     \* mutant: the newest question evicts
Held(asks, q) == IF Contains(asks, q) THEN asks ELSE Append(asks, q)

RecvQuestion(c) ==
  LET q == Frame(c).by IN
  /\ Receive(c, "question")
  /\ conn' = [conn EXCEPT !.asks = Held(@, q)]
  /\ view' = [view EXCEPT !.blocked = TRUE,
                          !.card = IF conn.asks = <<>> THEN q ELSE @]
  /\ UNCHANGED <<seq, gaveUp, reg, srv, alive, toRun, runnerVars, faults, autos, ghostVars>>

(* The card once q is settled: the next question, if q was the front one. *)
Promoted_Never(q) == IF view.card = q THEN None ELSE view.card     \* mutant
Promoted(q) ==
  IF Shown(conn.asks) = q THEN Shown(Without(conn.asks, q))
  ELSE IF view.card = q THEN None ELSE view.card

RecvQuestionDone(c) ==
  LET q == Frame(c).by
      left == Without(conn.asks, q) IN
  /\ Receive(c, "question-done")
  /\ conn' = [conn EXCEPT !.asks = left]
  /\ view' = [view EXCEPT !.blocked = IF left = <<>> THEN FALSE ELSE @,
                          !.card = Promoted(q)]
  /\ UNCHANGED <<seq, gaveUp, reg, srv, alive, toRun, runnerVars, faults, autos, ghostVars>>

(* What the end of a registered connection does to the view of the pane. *)
EndTurn(v) == IF conn.active
              THEN [v EXCEPT !.busy = FALSE, !.bus = "done", !.card = None] ELSE v

(* The close event: teardown, inert for a socket that was replaced or      *)
(* dropped before it.                                                      *)
Teardown(c) ==
  /\ srv' = [srv EXCEPT ![c] = "closed"]
  /\ toSrv' = [toSrv EXCEPT ![c] = <<>>]
  /\ IF reg = c
     THEN /\ reg' = None /\ conn' = NoTurn
          /\ view' = [EndTurn(view) EXCEPT !.busy = FALSE, !.blocked = FALSE,
                                           !.row = "idle", !.card = None]
     ELSE UNCHANGED <<reg, conn, view>>
  /\ UNCHANGED <<seq, gaveUp, alive, toRun, runnerVars, faults, autos, ghostVars>>

(* The peer is gone: by its close frame or by the heartbeat's terminate the *)
(* socket leaves OPEN, and the close event follows, at once or later.       *)
SocketLost(c) ==
  /\ srv[c] = "open" /\ ~alive[c]
  /\ IF Lingering
     THEN /\ srv' = [srv EXCEPT ![c] = "closing"]
          /\ toSrv' = [toSrv EXCEPT ![c] = <<>>]
          /\ UNCHANGED <<serverVars, alive, toRun, runnerVars, faults, autos, ghostVars>>
     ELSE toSrv[c] = <<>> /\ Teardown(c)

SocketClosed(c) == srv[c] = "closing" /\ Teardown(c)

(* What a runner says first: hello, and every question it waits on. *)
Announce_Forgets(p) == <<Hello(turn[p] # None)>>     \* mutant
Announce(p) == <<Hello(turn[p] # None)>>
               \o [i \in DOMAIN asking[p] |-> Question(asking[p][i])]

(* A runner connects: newest wins.  The upgrade handler displaces the      *)
(* registered socket (closing it with 4001) and registers a fresh record;  *)
(* the runner's open handler sends hello and re-announces its questions.   *)
Connect(p, c) ==
  /\ up[p] /\ sock[p] = None
  /\ srv[c] = "closed" /\ \A r \in Procs : sock[r] # c
  /\ sock' = [sock EXCEPT ![p] = c]
  /\ reg' = c /\ conn' = NoTurn
  /\ view' = [EndTurn(view) EXCEPT !.blocked = FALSE]
  /\ srv' = [srv EXCEPT ![c] = "open"]
  /\ alive' = [alive EXCEPT ![c] = TRUE]
  /\ toRun' = [Push(toRun, reg, <<Displaced>>) EXCEPT ![c] = <<>>]
  /\ toSrv' = [toSrv EXCEPT ![c] = Announce(p)]
  /\ UNCHANGED <<seq, gaveUp, up, pend, turn, asking, faults, autos, ghostVars>>

(* The sweep finds work behind a registration whose socket is not OPEN and *)
(* drops the registration, nothing else.                                   *)
SweepDrop_Skips == FALSE /\ UNCHANGED vars     \* mutant: registered means alive
SweepDrop ==
  /\ reg # None /\ ~SocketOpen /\ Waiting(seq) # {}
  /\ reg' = None /\ conn' = NoTurn
  /\ UNCHANGED <<seq, gaveUp, view, wireVars, runnerVars, faults, autos, ghostVars>>

(* The sweep spends the last restart attempt of a pane without a runner    *)
(* (PaneSupervisor says when) and clears its queue.                        *)
GiveUp ==
  /\ reg = None /\ ~gaveUp /\ \A p \in Procs : ~up[p]
  /\ gaveUp' = TRUE
  /\ Drop(Waiting(seq), "dropped")
  /\ UNCHANGED <<reg, conn, view>>

(* A sweep prunes the record of a pane that needs no process at the moment *)
(* (nobody watches it, no turn runs, nothing is queued).                   *)
Prune ==
  /\ gaveUp /\ Waiting(seq) = {} /\ view.row = "idle"
  /\ gaveUp' = FALSE
  /\ UNCHANGED <<seq, reg, conn, view, wireVars, runnerVars, faults, autos, ghostVars>>

-----------------------------------------------------------------------------
(* The runner process *)

(* A frame the runner emits while it has no open socket is lost.           *)
Emit(p, frames) == toSrv' = Push(toSrv, sock[p], frames)

Hears(p, t) == sock[p] # None /\ toRun[sock[p]] # <<>> /\ Head(toRun[sock[p]]).t = t
Heard(p)    == toRun' = [toRun EXCEPT ![sock[p]] = Tail(@)]
Said(p)     == Head(toRun[sock[p]]).msg

Dismissals(p) == [i \in DOMAIN asking[p] |-> QuestionDone(asking[p][i])]

HearSend(p) ==
  /\ Hears(p, "send") /\ Heard(p)
  /\ pend' = [pend EXCEPT ![p] = Append(@, Said(p))]
  /\ UNCHANGED <<serverVars, srv, alive, toSrv, up, sock, turn, asking, faults, autos, ghostVars>>

(* What the runner answers to a Stop. *)
StopReply_Silent(p) == IF turn[p] # None THEN Dismissals(p) ELSE <<>>     \* mutant
StopReply(p) == IF turn[p] # None THEN Dismissals(p)
                ELSE IF pend[p] # <<>> THEN <<TurnDone>> ELSE <<>>

(* Stop empties pendingTexts.  In a turn it dismisses the questions and    *)
(* interrupts, and the turn's own end follows; out of a turn it answers    *)
(* for the sends it cancelled with a bare turn-done.                       *)
HearStop(p) ==
  /\ Hears(p, "stop") /\ Heard(p)
  /\ pend' = [pend EXCEPT ![p] = <<>>]
  /\ fate' = [m \in Msgs |-> IF Contains(pend[p], m) THEN "stopped" ELSE fate[m]]
  /\ asking' = [asking EXCEPT ![p] = IF turn[p] # None THEN <<>> ELSE @]
  /\ Emit(p, StopReply(p))
  /\ UNCHANGED <<serverVars, srv, alive, up, sock, turn, faults, autos, accepted, born, relayed, asked>>

HearAnswer(p) ==
  /\ Hears(p, "answer") /\ Heard(p)
  /\ asking' = [asking EXCEPT ![p] = Without(@, Said(p))]
  /\ Emit(p, IF Contains(asking[p], Said(p)) THEN <<QuestionDone(Said(p))>> ELSE <<>>)
  /\ UNCHANGED <<serverVars, srv, alive, up, sock, pend, turn, faults, autos, ghostVars>>

(* The generator takes the next pending text: a turn starts. *)
StartTurn(p) ==
  /\ up[p] /\ turn[p] = None /\ pend[p] # <<>>
  /\ turn' = [turn EXCEPT ![p] = Head(pend[p])]
  /\ pend' = [pend EXCEPT ![p] = Tail(@)]
  /\ fate' = [fate EXCEPT ![Head(pend[p])] = "ran"]
  /\ Emit(p, <<TurnStart(Head(pend[p]))>>)
  /\ UNCHANGED <<serverVars, srv, alive, toRun, up, sock, asking, faults, autos, accepted, born, relayed, asked>>

(* noteAutonomousTurn: a wakeup or a cron fires inside the session. *)
StartAutonomousTurn(p) ==
  /\ up[p] /\ turn[p] = None /\ autos < MaxAuto
  /\ autos' = autos + 1
  /\ turn' = [turn EXCEPT ![p] = "auto"]
  /\ Emit(p, <<TurnStart("auto")>>)
  /\ UNCHANGED <<serverVars, srv, alive, toRun, up, sock, pend, asking, faults, ghostVars>>

(* askUser: ask_user or the reversibility gate blocks the turn. *)
Ask(p, q) ==
  /\ turn[p] # None /\ q \notin asked
  /\ asked' = asked \cup {q}
  /\ asking' = [asking EXCEPT ![p] = Append(@, q)]
  /\ Emit(p, <<Question(q)>>)
  /\ UNCHANGED <<serverVars, srv, alive, toRun, up, sock, pend, turn, faults, autos,
                 fate, accepted, born, relayed>>

(* The result of the turn: no question outlives it. *)
FinishTurn(p) ==
  /\ turn[p] # None
  /\ turn' = [turn EXCEPT ![p] = None]
  /\ asking' = [asking EXCEPT ![p] = <<>>]
  /\ Emit(p, Dismissals(p) \o <<TurnDone>>)
  /\ UNCHANGED <<serverVars, srv, alive, toRun, up, sock, pend, faults, autos, ghostVars>>

(* A process that ends takes its queue and its turn with it, and its       *)
(* socket closes behind the frames it had written.                         *)
Exit(p) ==
  /\ up' = [up EXCEPT ![p] = FALSE]
  /\ sock' = [sock EXCEPT ![p] = None]
  /\ pend' = [pend EXCEPT ![p] = <<>>]
  /\ turn' = [turn EXCEPT ![p] = None]
  /\ asking' = [asking EXCEPT ![p] = <<>>]
  /\ alive' = [c \in Conns |-> alive[c] /\ c # sock[p]]
  /\ UNCHANGED <<serverVars, srv, autos, ghostVars>>

(* Close code 4001: another process took the pane over. *)
HearDisplaced(p) == Hears(p, "displaced") /\ Heard(p) /\ Exit(p) /\ UNCHANGED <<toSrv, faults>>

Crash(p) ==
  /\ up[p] /\ faults < MaxFaults
  /\ faults' = faults + 1
  /\ Exit(p)
  /\ toRun' = [c \in Conns |-> IF c = sock[p] THEN <<>> ELSE toRun[c]]
  /\ UNCHANGED toSrv

(* Any other close: reconnect (Connect) after a pause. *)
LoseSocket(p) ==
  /\ sock[p] # None /\ ~alive[sock[p]] /\ toRun[sock[p]] = <<>>
  /\ sock' = [sock EXCEPT ![p] = None]
  /\ UNCHANGED <<serverVars, wireVars, up, pend, turn, asking, faults, autos, ghostVars>>

(* The startup command runs again: the sweep's or the user's respawn. *)
Spawn(p) ==
  /\ \A r \in Procs : ~up[r]
  /\ up' = [up EXCEPT ![p] = TRUE]
  /\ UNCHANGED <<serverVars, wireVars, sock, pend, turn, asking, faults, autos, ghostVars>>

-----------------------------------------------------------------------------
(* Faults *)

(* A connection is severed: each direction loses a suffix of its frames.   *)
CutLink(c) ==
  /\ alive[c] /\ faults < MaxFaults
  /\ faults' = faults + 1
  /\ alive' = [alive EXCEPT ![c] = FALSE]
  /\ \E r \in Prefixes(toRun[c]), s \in Prefixes(toSrv[c]) :
       /\ toRun' = [toRun EXCEPT ![c] = r]
       /\ toSrv' = [toSrv EXCEPT ![c] = s]
  /\ UNCHANGED <<serverVars, srv, runnerVars, autos, ghostVars>>

(* A server-only restart: the rows survive, the registry and the bus's     *)
(* subscribers do not, and reconcileStartup sets the row idle.             *)
ServerRestart ==
  /\ faults < MaxFaults
  /\ faults' = faults + 1
  /\ reg' = None /\ conn' = NoTurn /\ view' = Quiet /\ gaveUp' = FALSE
  /\ srv' = [c \in Conns |-> "closed"]
  /\ alive' = [c \in Conns |-> FALSE]
  /\ toSrv' = [c \in Conns |-> <<>>]
  /\ UNCHANGED <<seq, toRun, runnerVars, autos, ghostVars>>

-----------------------------------------------------------------------------

Init ==
  /\ seq = [m \in Msgs |-> 0] /\ gaveUp = FALSE
  /\ reg = None /\ conn = NoTurn /\ view = Quiet
  /\ srv = [c \in Conns |-> "closed"] /\ alive = [c \in Conns |-> FALSE]
  /\ toRun = [c \in Conns |-> <<>>] /\ toSrv = [c \in Conns |-> <<>>]
  /\ up \in [Procs -> BOOLEAN]
  /\ sock = [p \in Procs |-> None] /\ pend = [p \in Procs |-> <<>>]
  /\ turn = [p \in Procs |-> None] /\ asking = [p \in Procs |-> <<>>]
  /\ faults = 0 /\ autos = 0
  /\ fate = [m \in Msgs |-> "new"] /\ accepted = 0
  /\ born = [m \in Msgs |-> 0] /\ relayed = 0
  /\ asked = {}

ClientStep == \/ \E m \in Msgs : SendNow(m) \/ Reject(m) \/ Enqueue(m) \/ QueueCancel(m)
              \/ QueueClear \/ Stop \/ AnswerCard \/ SessionFrame

Deliver(c) == \/ RecvIgnored(c) \/ RecvHello(c) \/ RecvTurnStart(c) \/ RecvTurnDone(c)
              \/ RecvQuestion(c) \/ RecvQuestionDone(c)
ServerStep == \/ \E c \in Conns : Deliver(c) \/ SocketLost(c) \/ SocketClosed(c)
              \/ SweepDrop \/ GiveUp \/ Prune

Hear(p)    == HearSend(p) \/ HearStop(p) \/ HearAnswer(p) \/ HearDisplaced(p)
RunnerStep == \E p \in Procs :
                \/ Hear(p) \/ StartTurn(p) \/ StartAutonomousTurn(p) \/ FinishTurn(p)
                \/ LoseSocket(p) \/ Spawn(p)
                \/ \E q \in Questions : Ask(p, q)
                \/ \E c \in Conns : Connect(p, c)

FaultStep  == \/ ServerRestart
              \/ \E c \in Conns : CutLink(c)
              \/ \E p \in Procs : Crash(p)

(* The pane at rest: every message of the instance met its fate.  Any      *)
(* other state without a successor is a deadlock of the link.              *)
AtRest == /\ \A m \in Msgs : fate[m] \notin {"new", "queued"}
          /\ \A c \in Conns : toRun[c] = <<>> /\ toSrv[c] = <<>>
          /\ \A p \in Procs : pend[p] = <<>> /\ turn[p] = None
          /\ ~conn.active
          /\ UNCHANGED vars

Next == ClientStep \/ ServerStep \/ RunnerStep \/ FaultStep \/ AtRest

Spec == Init /\ [][Next]_vars

(* The respawn the sweep is bound to make: work waits, or the row still    *)
(* says running, and nothing is registered (listAgentPanes).  (A user may  *)
(* restart the command at any other time.)                                 *)
SweepRespawn(p) == /\ reg = None /\ ~gaveUp
                   /\ Waiting(seq) # {} \/ view.row = "running"
                   /\ Spawn(p)

(***************************************************************************)
(* What keeps moving: both event loops read what arrived, a socket whose   *)
(* peer is gone is noticed (the heartbeat), a runner reconnects for ever,  *)
(* the sweep respawns a pane with queued work, the session loop takes the  *)
(* next text, a turn that waits on no question ends, and the user answers  *)
(* the card on the screen.  A socket that lingers in CLOSING is promised   *)
(* no close event: the sweep has to drop it.                               *)
(***************************************************************************)
Fairness ==
  /\ \A c \in Conns : WF_vars(Deliver(c)) /\ WF_vars(SocketLost(c))
  /\ WF_vars(SweepDrop)
  /\ WF_vars(AnswerCard)
  /\ \A p \in Procs : /\ WF_vars(Hear(p)) /\ WF_vars(StartTurn(p))
                      /\ WF_vars(asking[p] = <<>> /\ FinishTurn(p))
                      /\ WF_vars(LoseSocket(p)) /\ WF_vars(SweepRespawn(p))
                      /\ WF_vars(\E c \in Conns : Connect(p, c))

FairSpec == Spec /\ Fairness

-----------------------------------------------------------------------------
(* Properties *)

Frames == [t : {"send"}, msg : Msgs] \cup [t : {"answer"}, msg : Questions]
          \cup {StopFrame, Displaced}
Reports == [t : {"hello"}, by : BOOLEAN] \cup [t : {"turn-start"}, by : Msgs \cup {"auto"}]
           \cup [t : {"question", "question-done"}, by : Questions] \cup {TurnDone}
Claims  == [active : BOOLEAN, sent : BOOLEAN, stamp : Msgs \cup {None}, asks : Seq(Questions)]
Views   == [busy : BOOLEAN, blocked : BOOLEAN, row : {"idle", "running"},
            bus : {"start", "done"}, card : Questions \cup {None}]
Fates   == {"new", "rejected", "queued", "relayed", "cancelled", "dropped", "stopped", "ran"}

ServerTypes == /\ seq \in [Msgs -> Nat] /\ gaveUp \in BOOLEAN /\ reg \in Conns \cup {None}
               /\ conn \in Claims /\ view \in Views
WireTypes   == /\ srv \in [Conns -> {"closed", "open", "closing"}] /\ alive \in [Conns -> BOOLEAN]
               /\ toRun \in [Conns -> Seq(Frames)] /\ toSrv \in [Conns -> Seq(Reports)]
RunnerTypes == /\ up \in [Procs -> BOOLEAN] /\ sock \in [Procs -> Conns \cup {None}]
               /\ pend \in [Procs -> Seq(Msgs)] /\ turn \in [Procs -> Msgs \cup {"auto", None}]
               /\ asking \in [Procs -> Seq(Questions)]
GhostTypes  == /\ faults \in 0 .. MaxFaults /\ autos \in 0 .. MaxAuto /\ asked \in SUBSET Questions
               /\ fate \in [Msgs -> Fates] /\ accepted \in Nat
               /\ born \in [Msgs -> Nat] /\ relayed \in Nat
QueueBounded == Cardinality(Waiting(seq)) <= MaxQueue

(* Every variable keeps to its values, and the table to its capacity       *)
(* (MAX_QUEUED_SENDS; submitSend is the only writer of rows).              *)
TypeOK == ServerTypes /\ WireTypes /\ RunnerTypes /\ GhostTypes /\ QueueBounded

(* Rows keep the order in which messages were accepted, and no row is      *)
(* older than a message already relayed (submitSend, drainQueue: the fast  *)
(* path may not overtake a row, a cancel may not reshuffle the rest).      *)
AcceptanceOrder ==
  \A m \in Waiting(seq) :
    /\ relayed < born[m]
    /\ \A n \in Waiting(seq) : born[m] < born[n] => seq[m] < seq[n]

(* The promise to a client (MessageLine), and what stands for it here. *)
Promised(f) == CASE f = "rejected" -> "refused"
                 [] f = "queued"   -> "waiting"
                 [] f = "relayed"  -> "handed"
                 [] f = "ran"      -> "begun"
                 [] f \in {"cancelled", "dropped"} -> "withdrawn"
                 [] OTHER          -> f

Promise == INSTANCE MessageLine WITH
             Capacity <- MaxQueue,
             state <- [m \in Msgs |-> Promised(fate[m])],
             count <- accepted, place <- born

(* Whatever the sockets, processes and restarts do, a client sees a        *)
(* bounded line handed over in order, each message once (submitSend,       *)
(* drainQueue, the queue frames, the runner's pendingTexts).               *)
KeepsPromise == Promise!Spec

(* Where a message can physically be besides the queue table. *)
Holding(m) == {c \in Conns : Contains(toRun[c], Send(m))} \cup {p \in Procs : Contains(pend[p], m) \/ turn[p] = m}

(* A message is in one place only: a row, one frame, one pending text or   *)
(* one turn.  Reconnects, displaced runners and restarts never replay it.  *)
OneCopy ==
  \A m \in Msgs :
    /\ Cardinality(Holding(m)) <= 1
    /\ seq[m] > 0 <=> fate[m] = "queued"
    /\ Holding(m) # {} => fate[m] \in {"relayed", "ran"}
    /\ \A p \in Procs : Contains(pend[p], m) => fate[m] = "relayed"

(* The three views of "is it running" agree with the claim from the moment *)
(* of the relay (D14), and with no claim nothing reads busy.               *)
ClaimVisible ==
  /\ conn.active => view.busy /\ view.row = "running" /\ view.bus = "start"
  /\ view.busy => conn.active

(* "A stamp names a send that can still start a turn, or it is null": it   *)
(* is on its way, pending, or its turn-start is, unless the link died.     *)
StampUnspent ==
  conn.stamp # None /\ alive[reg] =>
    \/ Contains(toRun[reg], Send(conn.stamp))
    \/ \E p \in Procs : sock[p] = reg /\ Contains(pend[p], conn.stamp)
    \/ Contains(toSrv[reg], TurnStart(conn.stamp))

(* The pane reads blocked exactly while a question is held, and the card   *)
(* on the screen is the front one, never a later or a settled one.         *)
CardIsFront ==
  /\ view.blocked <=> conn.asks # <<>>
  /\ view.card # None => view.card = Shown(conn.asks)

(* A held question with no card is being answered or its socket is dying.  *)
CardNeverLost ==
  conn.asks # <<>> /\ view.card = None =>
    \/ ~alive[reg]
    \/ Contains(toRun[reg], Answer(Head(conn.asks)))
    \/ Contains(toSrv[reg], QuestionDone(Head(conn.asks)))

(* drainQueue: a row in the table always moves on, through reconnects,     *)
(* respawns, restarts and turns that wait on questions.                    *)
QueueDrains == \A m \in Msgs : seq[m] > 0 ~> seq[m] = 0

(* No spinner without a way back: the pane stops reading busy, reads dead  *)
(* (the sweep gave up), or the server has not been told that the           *)
(* registered socket is gone.                                              *)
BusySettles == view.busy ~> ~view.busy \/ gaveUp \/ (reg # None /\ srv[reg] = "closing")

(* A question the runner waits on is answered or dismissed.                *)
QuestionsSettle == \A p \in Procs, q \in Questions : Contains(asking[p], q) ~> ~Contains(asking[p], q)
=============================================================================
