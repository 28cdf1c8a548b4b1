---------------------------- MODULE CronScheduler ----------------------------
(***************************************************************************)
(* Scheduled work: CronScheduler.ts over CronStore.ts, schedule.ts and      *)
(* routes/crons.ts, and the panes it fires into as ws.ts runs them.         *)
(*                                                                          *)
(* A schedule is its interval, a slot the nominal time of one occurrence;   *)
(* the row keeps the time `due` of the next slot with its jitter.  A pass   *)
(* of the tick, and a fire by hand, is a job: it holds the row as read      *)
(* before its awaits (the hand-over briefing, the start of the new tab's    *)
(* runner).  Handlers run at those awaits only: the other steps of a job    *)
(* follow each other before the server takes another event.                 *)
(*                                                                          *)
(* `turn` is the truth of a pane's runner process, a cron or Human; the     *)
(* server knows it while `conn` holds.                                      *)
(***************************************************************************)
EXTENDS Integers, FiniteSetsExt, SequencesExt

CONSTANTS Crons,
          Policies,    \* the settings a cron may be created with
          Tabs,        \* a set of integers: the tabs crons may open
          Main,        \* the pane that pane crons target
          Human, None,
          Intervals,   \* the schedules: every so many units of time
          Hash,        \* of a cron's id, from which its jitter is drawn
          Grace,       \* CRON_MISSED_GRACE_MS
          Quiet,       \* quiet_mins
          MaxOpen,     \* max_open
          FailLimit,   \* CRON_FAIL_LIMIT
          MaxQueue,    \* MAX_QUEUED_SENDS
          Times,       \* the instants of the clock; at the last, the bound,
                       \* the user has long been quiet
          MaxActs,     \* bound on acts of the user
          MaxFaults,   \* bound on faults
          Acts, Kinds  \* the acts and the faults that happen

Ticks  == 1..2         \* callbacks of the interval that may overlap
ByHand == 3            \* POST /:ref/run
Actors == Ticks \cup {ByHand}
Panes  == {Main} \cup Tabs

Policy == [tab : BOOLEAN, catchup : {"once", "skip", "all"}, skip : BOOLEAN,
           once : BOOLEAN, quiet : BOOLEAN, rotate : BOOLEAN, close : BOOLEAN]

ASSUME CronAssumption ==
  /\ Policies \subseteq Policy /\ Tabs \subseteq Nat /\ Main \notin Tabs
  /\ Intervals \subseteq Nat \ {0} /\ Hash \in [Crons -> Nat]
  /\ {Human, None} \cap Crons = {} /\ Human # None
  /\ {Grace, Quiet, MaxOpen, FailLimit, MaxQueue} \subseteq Nat
  /\ Times \subseteq Nat /\ \E last \in Times : \A t \in Times : t <= last
  /\ {MaxActs, MaxFaults} \subseteq Nat
  /\ MaxOpen > 0 /\ FailLimit > 0

VARIABLES pol, row,               \* the database: crons
          owner, queue,           \* the database: tabs, agent_queue
          jobs, inflight, closeOn, closing, \* memory of the server
          dead, conn, turn,       \* Main is given up; the panes' runners
          now, human,             \* the clock, the user's last message
          seen, fired, again,     \* history: slots settled, submitted, twice
          base,                   \* history: when the row was last anchored
          extra, blind,           \* history: what excuses an excess
          acts, faults

memory  == <<jobs, inflight, closeOn, closing>>
runners == <<dead, conn, turn, queue>>
time    == <<now, human>>
slots   == <<seen, fired, again>>
history == <<slots, base, extra, blind>>
vars    == <<pol, row, owner, memory, runners, time, history, acts, faults>>

Set(f, x, v) == [f EXCEPT ![x] = v]
Act(kind)   == kind \in Acts /\ acts < MaxActs /\ acts' = acts + 1 /\ faults' = faults
Fault(kind) == kind \in Kinds /\ faults < MaxFaults /\ faults' = faults + 1 /\ acts' = acts
Calm        == UNCHANGED <<acts, faults>>
-----------------------------------------------------------------------------
\* Mutant of After.
After_Inclusive(s, t) == ((t + s - 1) \div s) * s


(* The schedule.                                                            *)
After(s, t)  == ((t \div s) + 1) * s
Jitter(c, s) == IF s < 2 THEN 0 ELSE Hash[c] % (s \div 2)
NextFire(c, s, t) == After(s, t) + Jitter(c, s)

\* The slots of a row that came due, from its anchor on, before the jitter.
FiresDue(r, j, t) == {x \in (r.due - j)..(t - j) : x % r.sched = 0}
Missed(x, j, t)   == x + j < t - Grace
-----------------------------------------------------------------------------
(* A job.                                                                   *)
NoJob == [phase |-> "none"]
Pass(t, todo) == [phase |-> "rows", at |-> t, todo |-> todo]
Fire(p, c, j, S) == [phase |-> "fire", at |-> p.at, todo |-> p.todo, cron |-> c,
                     jit |-> j, slots |-> S, open |-> {}, tab |-> 0]
Manual(c) == Fire(Pass(now, {}), c, 0, {})
Rows(p)   == Pass(p.at, p.todo)

Busy(a)  == jobs[a].phase # "none"
Waits(a) == jobs[a].phase \in {"none", "carry", "tab"}
Idle     == \A a \in Actors : Waits(a)    \* the server takes an event
Holds(c) == \E a \in Ticks : Busy(a) /\ jobs[a].phase # "rows" /\ jobs[a].cron = c

\* Catching up on all fires each slot, else one fire stands for those due.
Slot(c, S)   == IF pol[c].catchup = "all" THEN Min(S) ELSE Max(S)
Served(c, S) == IF pol[c].catchup = "all" THEN {Min(S)} ELSE S
-----------------------------------------------------------------------------
(* Rows.  An UPDATE of a deleted row changes nothing.                       *)
Put(c, r) == IF row[c].live THEN Set(row, c, r) ELSE row

Failed(res) == res \in {"error", "gone", "rejected"}

Recorded(r, res, byHand) ==
  LET n == IF Failed(res) THEN r.streak + 1 ELSE 0
  IN  [r EXCEPT !.streak = n,
                !.enabled = @ /\ res # "gone"
                              /\ (byHand \/ ~Failed(res) \/ n < FailLimit)]

RetireOnce(r) == [r EXCEPT !.enabled = FALSE]

\* Mutant of Anchored.
Anchored_Jittered(c, r, p) ==
  IF pol[c].once THEN RetireOnce(r) ELSE [r EXCEPT !.due = NextFire(c, r.sched, p.at)]


Anchored(c, r, p) ==
  IF pol[c].once THEN RetireOnce(r)
  ELSE [r EXCEPT !.due = NextFire(c, r.sched, p.at - p.jit)]

\* setEnabled: a resume anchors afresh.
Enabled(c, r, on) ==
  IF on THEN [r EXCEPT !.enabled = TRUE, !.streak = 0, !.due = NextFire(c, r.sched, now)]
  ELSE [r EXCEPT !.enabled = FALSE]

Reschedule(c, r, s) == [r EXCEPT !.sched = s, !.due = NextFire(c, s, now)]
-----------------------------------------------------------------------------
(* The pane: what the scheduler asks of it and does to it.                  *)
TurnActive(p) == conn[p] /\ turn[p] # None

Live(p) == owner[p] # None

IsOutstanding(c) ==
  c \in ToSet(queue[Main]) \/ (inflight = c /\ TurnActive(Main))

InQuiet(t) == human # None /\ t - human < Quiet /\ t < Max(Times)

SubmitSend(p) ==
  IF ~Live(p) THEN "rejected"
  ELSE IF conn[p] /\ turn[p] = None /\ queue[p] = <<>> THEN "sent"
  ELSE IF (p = Main /\ dead) \/ Len(queue[p]) >= MaxQueue THEN "rejected"
  ELSE "queued"

Sends(p, who, res) ==
  /\ turn' = IF res = "sent" THEN Set(turn, p, who) ELSE turn
  /\ queue' = IF res = "queued" THEN Set(queue, p, Append(queue[p], who)) ELSE queue

\* What a fire into the pane comes to: its answer, or "rotate".
PaneVerdict(c, t, high) ==
  IF ~Live(Main) THEN "gone"
  ELSE IF dead THEN "error"
  ELSE IF pol[c].quiet /\ InQuiet(t) THEN "deferred"
  ELSE IF pol[c].skip /\ IsOutstanding(c) THEN "skipped"
  ELSE IF high /\ pol[c].rotate THEN "rotate"
  ELSE SubmitSend(Main)

\* Mutant of Note.
Note_Unparsed(p, who) == inflight' = IF p = Main THEN turn'[p] ELSE inflight


\* The fire whose turn runs in Main.
Note(p, who) == inflight' = IF p = Main THEN who ELSE inflight

\* Mutant of Drain.
Drain_Unseen(p, known) ==
  IF queue[p] = <<>>
  THEN turn' = Set(turn, p, None) /\ Note(p, known) /\ UNCHANGED <<queue, human>>
  ELSE LET who == Head(queue[p])
       IN  /\ turn' = Set(turn, p, who) /\ queue' = Set(queue, p, Tail(queue[p]))
           /\ Note(p, known)
           /\ human' = IF p = Main /\ who = Human THEN now ELSE human


\* onTurnStarted, as the runner, idle and up, is given the head of the queue.
Drain(p, known) ==
  IF queue[p] = <<>>
  THEN turn' = Set(turn, p, None) /\ Note(p, known) /\ UNCHANGED <<queue, human>>
  ELSE LET who == Head(queue[p])
       IN  /\ turn' = Set(turn, p, who) /\ queue' = Set(queue, p, Tail(queue[p]))
           /\ Note(p, IF who \in Crons THEN who ELSE None)
           /\ human' = IF p = Main /\ who = Human THEN now ELSE human

\* onTurnEnded: a tab opened by a cron goes with its last turn, unless it
\* holds something for the user.
TurnEnded(p, keep) ==
  IF closeOn[p] = None \/ (~keep /\ queue[p] # <<>>)
  THEN UNCHANGED <<closeOn, closing>>
  ELSE /\ closeOn' = Set(closeOn, p, None)
       /\ closing' = IF keep THEN closing ELSE closing \cup {p}
-----------------------------------------------------------------------------
Init ==
  /\ pol \in [Crons -> Policies]
  /\ \E s \in Intervals, on \in BOOLEAN :
       row = [c \in Crons |-> [live |-> TRUE, enabled |-> on, sched |-> s, streak |-> 0,
                               due |-> NextFire(c, s, 0), open |-> {}]]
  /\ owner = [p \in Panes |-> IF p = Main THEN Human ELSE None] /\ queue = [p \in Panes |-> <<>>]
  /\ jobs = [a \in Actors |-> NoJob]
  /\ inflight = None /\ closeOn = [p \in Panes |-> None]
  /\ closing = {}
  /\ dead = FALSE /\ conn = [p \in Panes |-> p = Main] /\ turn = [p \in Panes |-> None]
  /\ now = 0 /\ human = None
  /\ seen = [c \in Crons |-> {}] /\ fired = [c \in Crons |-> {}]
  /\ again = FALSE /\ base = [c \in Crons |-> 0]
  /\ extra = [c \in Crons |-> 0] /\ blind = FALSE
  /\ acts = 0 /\ faults = 0

Clock ==
  /\ now' = Min({t \in Times : t > now} \cup {Max(Times)}) /\ now' # now
  /\ UNCHANGED <<pol, row, owner, memory, runners, human, history>> /\ Calm
-----------------------------------------------------------------------------
(* The tick.                                                                *)
Due == {c \in Crons : row[c].live /\ row[c].enabled /\ row[c].due <= now}

\* Mutant of Ticking.
Ticking_Off == FALSE


\* One pass at a time.
Ticking == \E b \in Ticks : Busy(b)

TickStart(a) ==
  /\ ~Ticking /\ ~Busy(a) /\ \A b \in Ticks : b < a => Busy(b)
  /\ Due # {}
  /\ jobs' = Set(jobs, a, Pass(now, Due))
  /\ UNCHANGED <<pol, row, owner, inflight, closeOn, closing, runners, time, history>>
  /\ Calm

TickEnd(a) ==
  /\ jobs[a].phase = "rows" /\ jobs[a].todo = {}
  /\ jobs' = Set(jobs, a, NoJob)
  /\ UNCHANGED <<pol, row, owner, inflight, closeOn, closing, runners, time, history>>
  /\ Calm

\* One due row, read again: re-armed, its stale slots dropped, or fired.
RunDue(a, c) ==
  /\ jobs[a].phase = "rows" /\ c \in jobs[a].todo
  /\ LET r == row[c]
         p == [jobs[a] EXCEPT !.todo = @ \ {c}]
         j == Jitter(c, r.sched)
         S == FiresDue(r, j, p.at)
         stale == pol[c].catchup = "skip" /\ \A x \in S : Missed(x, j, p.at)
     IN  IF ~r.live \/ ~r.enabled \/ r.due > p.at
         THEN jobs' = Set(jobs, a, p) /\ UNCHANGED <<row, seen>>
         ELSE IF S = {}
         THEN /\ row' = Set(row, c, [r EXCEPT !.due = NextFire(c, r.sched, p.at)])
              /\ jobs' = Set(jobs, a, p) /\ seen' = seen
         ELSE IF stale
         THEN /\ row' = Set(row, c, Recorded(r, "missed", FALSE))
              /\ seen' = [seen EXCEPT ![c] = @ \cup S]
              /\ jobs' = Set(jobs, a, [Fire(p, c, j, {}) EXCEPT !.phase = "anchor"])
         ELSE jobs' = Set(jobs, a, Fire(p, c, j, S)) /\ UNCHANGED <<row, seen>>
  /\ UNCHANGED <<pol, owner, inflight, closeOn, closing, runners, time>>
  /\ UNCHANGED <<fired, again, base, extra, blind>> /\ Calm

\* A one-off is done, any other cron is anchored at its next slot.
Anchor(a) ==
  /\ jobs[a].phase = "anchor"
  /\ LET c == jobs[a].cron IN row' = Put(c, Anchored(c, row[c], jobs[a]))
  /\ jobs' = Set(jobs, a, Rows(jobs[a]))
  /\ UNCHANGED <<pol, owner, inflight, closeOn, closing, runners, time, history>>
  /\ Calm
-----------------------------------------------------------------------------
(* A fire.                                                                  *)
\* The verdict `res` of a fire, on a row that reads `r`.
Record(a, r, res) ==
  LET p == jobs[a]
      c == p.cron
      byHand == a = ByHand
      rest == IF byHand THEN {} ELSE p.slots \ Served(c, p.slots)
      sent == ~byHand /\ res \in {"sent", "queued"}
      S == p.slots
  IN  /\ row' = Put(c, Recorded(r, res, byHand))
      /\ jobs' = Set(jobs, a,
           IF byHand THEN NoJob
           ELSE IF res = "deferred" THEN Rows(p)
           ELSE [Fire(p, c, p.jit, rest) EXCEPT !.phase = IF rest = {} THEN "anchor" ELSE @])
      /\ seen' = IF byHand \/ res = "deferred" THEN seen
                 ELSE [seen EXCEPT ![c] = @ \cup Served(c, S)]
      /\ fired' = IF sent THEN [fired EXCEPT ![c] = @ \cup {Slot(c, S)}] ELSE fired
      /\ again' = (again \/ (sent /\ Slot(c, S) \in fired[c]))

FirePane(a) ==
  /\ jobs[a].phase = "fire" /\ ~pol[jobs[a].cron].tab
  /\ \E high \in BOOLEAN :
       LET c == jobs[a].cron
           res == PaneVerdict(c, jobs[a].at, high)
       IN  IF res = "rotate"
           THEN /\ jobs' = [jobs EXCEPT ![a].phase = "carry"]
                /\ UNCHANGED <<row, inflight, turn, queue, slots>>
           ELSE /\ Record(a, row[c], res)
                /\ Sends(Main, c, res)
                /\ inflight' = IF res = "sent" THEN c ELSE inflight
  /\ UNCHANGED <<pol, owner, closeOn, closing, dead, conn, time, base, extra, blind>>
  /\ Calm

Opening == {a \in Actors : jobs[a].phase = "tab"}
OpeningFor(c) == {a \in Opening : jobs[a].cron = c}

\* The recorded tabs that still exist.
Open(c) == {t \in row[c].open : Live(t)}

\* Ids are never used twice: a tab is new if nothing refers to it.
Refers == closing \cup {t \in Tabs : closeOn[t] # None}
            \cup UNION {row[c].open : c \in Crons}
            \cup UNION {jobs[a].open \cup {jobs[a].tab} : a \in Opening}
Fresh  == {t \in Tabs : ~Live(t) /\ t \notin Refers}

TabsFull(a) ==
  LET c == jobs[a].cron
  IN  /\ Cardinality(Open(c)) >= MaxOpen
      /\ Record(a, [row[c] EXCEPT !.open = Open(c)], "skipped")
      /\ UNCHANGED <<pol, owner, inflight, closeOn, closing, runners, time>>
      /\ UNCHANGED <<base, extra, blind>> /\ Calm

\* The rows of the tab are there, its runner is being started.
TabOpens(a) ==
  LET c == jobs[a].cron
      t == Min(Fresh)
  IN  /\ Cardinality(Open(c)) < MaxOpen /\ Fresh # {}
      /\ jobs' = [jobs EXCEPT ![a].phase = "tab", ![a].open = Open(c), ![a].tab = t]
      /\ owner' = Set(owner, t, c)
      /\ extra' = IF OpeningFor(c) = {} THEN extra ELSE [extra EXCEPT ![c] = @ + 1]
      /\ UNCHANGED <<pol, row, inflight, closeOn, closing, runners, time>>
      /\ UNCHANGED <<slots, base, blind>> /\ Calm

NewTab(a) == TabsFull(a) \/ TabOpens(a)

FireNewTab(a) == jobs[a].phase = "fire" /\ pol[jobs[a].cron].tab /\ NewTab(a)

\* The briefing of a rotation is there: a new tab.  It could not be made:
\* the fire is skipped.
Carried(a) ==
  /\ jobs[a].phase = "carry"
  /\ \/ NewTab(a)
     \/ /\ Record(a, row[jobs[a].cron], "skipped")
        /\ UNCHANGED <<pol, owner, inflight, closeOn, closing, runners, time>>
        /\ UNCHANGED <<base, extra, blind>> /\ Calm

\* Mutant of TabUp.
TabUp_SentOnly(a) ==
  /\ jobs[a].phase = "tab"
  /\ LET c == jobs[a].cron
         t == jobs[a].tab
         res == SubmitSend(t)
         opened == IF res = "sent" THEN {t} ELSE {}
     IN  /\ Record(a, [row[c] EXCEPT !.open = jobs[a].open \cup opened], res)
         /\ Sends(t, c, res)
         /\ closeOn' = IF pol[c].close THEN Set(closeOn, t, c) ELSE closeOn
  /\ UNCHANGED <<pol, owner, inflight, closing, dead, conn, time, base, extra, blind>> /\ Calm


\* After the await: the list of open tabs as it was read before it.
TabUp(a) ==
  /\ jobs[a].phase = "tab"
  /\ LET c == jobs[a].cron
         t == jobs[a].tab
         res == SubmitSend(t)
     IN  /\ Record(a, [row[c] EXCEPT !.open = jobs[a].open \cup {t}], res)
         /\ Sends(t, c, res)
         /\ closeOn' = IF pol[c].close THEN Set(closeOn, t, c) ELSE closeOn
  /\ UNCHANGED <<pol, owner, inflight, closing, dead, conn, time, base, extra, blind>> /\ Calm

RunNow(c) ==
  /\ Act("run") /\ row[c].live /\ ~Busy(ByHand)
  /\ jobs' = Set(jobs, ByHand, Manual(c))
  /\ UNCHANGED <<pol, row, owner, inflight, closeOn, closing, runners, time, history>>
-----------------------------------------------------------------------------
(* Routes of the crons.                                                     *)
Patch(c, r) ==
  /\ row[c].live /\ row' = Set(row, c, r)
  /\ base' = IF r.due = row[c].due /\ r.sched = row[c].sched THEN base ELSE Set(base, c, now)
  /\ UNCHANGED <<pol, owner, memory, runners, time, slots, extra, blind>>

Edit(c, s)   == Act("edit") /\ Patch(c, Reschedule(c, row[c], s))
Pause(c)     == Act("pause") /\ Patch(c, Enabled(c, row[c], FALSE))
Resume(c)    == Act("pause") /\ Patch(c, Enabled(c, row[c], TRUE))
DeleteRow(c) == Act("edit") /\ Patch(c, [row[c] EXCEPT !.live = FALSE, !.open = {}])
-----------------------------------------------------------------------------
(* The panes.                                                               *)
SendByHuman(p) ==
  /\ Act("human") /\ Live(p)
  /\ Sends(p, Human, SubmitSend(p))
  /\ human' = IF p = Main /\ SubmitSend(p) = "sent" THEN now ELSE human
  /\ UNCHANGED <<pol, row, owner, memory, dead, conn, now, history>>

\* turn-done, and the next message of the queue.  `keep`: a question, an
\* artifact or a background agent holds the tab.
TurnDone(p, keep) ==
  /\ TurnActive(p)
  /\ TurnEnded(p, keep)
  /\ Drain(p, None)
  /\ blind' = (blind /\ p # Main)
  /\ UNCHANGED <<pol, row, owner, jobs, dead, conn, now, slots, base, extra>> /\ Calm

\* Mutant of Teardown.
Teardown_Silent(p, t) ==
  /\ conn' = Set(conn, p, FALSE) /\ turn' = Set(turn, p, t)
  /\ Note(p, None) /\ blind' = IF p = Main THEN t # None ELSE blind
  /\ UNCHANGED <<pol, row, owner, jobs, closeOn, closing, dead, queue, time, slots, base, extra>>

\* The socket of a runner goes: the server ends its turn, a live one too.
Teardown(p, t) ==
  /\ conn' = Set(conn, p, FALSE) /\ turn' = Set(turn, p, t)
  /\ IF turn[p] = None THEN UNCHANGED <<inflight, closeOn, closing>>
     ELSE TurnEnded(p, FALSE) /\ Note(p, None)
  /\ blind' = IF p = Main THEN t # None ELSE blind
  /\ UNCHANGED <<pol, row, owner, jobs, dead, queue, time, slots, base, extra>>

\* The turn of a runner without a socket ends: nobody hears of it.
TurnEndsUnseen(p) ==
  /\ ~conn[p] /\ turn[p] # None
  /\ turn' = Set(turn, p, None) /\ blind' = (blind /\ p # Main)
  /\ UNCHANGED <<pol, row, owner, memory, dead, conn, queue, time, slots, base, extra>>
  /\ Calm

Blip(p) == Fault("blip") /\ conn[p] /\ Teardown(p, turn[p])
Die(p)  == Fault("die") /\ conn[p] /\ Teardown(p, None)

\* The runner says why it goes: a tab it leaves is kept.
Fatal(p) ==
  /\ Fault("fatal") /\ conn[p]
  /\ conn' = Set(conn, p, FALSE) /\ turn' = Set(turn, p, None)
  /\ Note(p, None) /\ closeOn' = Set(closeOn, p, None)
  /\ blind' = (blind /\ p # Main)
  /\ UNCHANGED <<pol, row, owner, jobs, closing, dead, queue, time, slots, base, extra>>

\* hello: of a live runner with its turn, or of a respawned one.
Hello(p) ==
  /\ Live(p) /\ ~conn[p] /\ ~(p = Main /\ dead)
  /\ conn' = Set(conn, p, TRUE)
  /\ IF turn[p] # None THEN UNCHANGED <<turn, queue, inflight, human>> ELSE Drain(p, inflight)
  /\ UNCHANGED <<pol, row, owner, jobs, closeOn, closing, dead, now, history>> /\ Calm

\* The runner of the pane dies for good, its restarts are exhausted: the
\* supervisor gives it up with its queue, until the user respawns it.
GiveUp ==
  /\ Fault("dead") /\ Live(Main) /\ ~dead
  /\ dead' = TRUE /\ conn' = Set(conn, Main, FALSE) /\ turn' = Set(turn, Main, None)
  /\ queue' = Set(queue, Main, <<>>) /\ inflight' = None /\ blind' = FALSE
  /\ UNCHANGED <<pol, row, owner, jobs, closeOn, closing, time, slots, base, extra>>

Respawn ==
  /\ Act("respawn") /\ dead /\ dead' = FALSE
  /\ UNCHANGED <<pol, row, owner, memory, conn, turn, queue, time, history>>

Gone(p) ==
  /\ owner' = Set(owner, p, None)
  /\ conn' = Set(conn, p, FALSE) /\ turn' = Set(turn, p, None)
  /\ queue' = Set(queue, p, <<>>)
  /\ Note(p, None) /\ closeOn' = Set(closeOn, p, None)
  /\ blind' = (blind /\ p # Main)
  /\ UNCHANGED <<pol, jobs, dead, time, slots, base, extra>>

\* The user deletes the pane, or a tab.
Delete(p) == Act("delete") /\ Live(p) /\ Gone(p) /\ UNCHANGED <<row, closing>>

\* The cascade of onTurnEnded has killed the pane: the rows go, then the tab
\* leaves the list of the cron as it reads by now.
CloseTab(t) ==
  /\ t \in closing /\ closing' = closing \ {t}
  /\ Gone(t)
  /\ row' = [c \in Crons |-> [row[c] EXCEPT !.open = @ \ {t}]]
  /\ Calm

\* What a job was at when the server went may be fired again.
Excused(c) ==
  IF Holds(c) THEN {x \in fired[c] : x + Jitter(c, row[c].sched) < row[c].due} ELSE fired[c]

\* The server restarts.  Runners live on; what a fire was doing is forgotten.
Restart ==
  /\ Fault("restart")
  /\ jobs' = [a \in Actors |-> NoJob] /\ closing' = {}
  /\ inflight' = None /\ closeOn' = [p \in Panes |-> None]
  /\ conn' = [p \in Panes |-> FALSE] /\ blind' = (turn[Main] # None)
  /\ fired' = [c \in Crons |-> Excused(c)]
  /\ extra' = [c \in Crons |-> extra[c] + Cardinality(OpeningFor(c))]
  /\ UNCHANGED <<pol, row, owner, dead, turn, queue, time, seen, again, base>>
-----------------------------------------------------------------------------
Job(a) ==
  \/ TickEnd(a)
  \/ \E c \in Crons : RunDue(a, c)
  \/ Anchor(a)
  \/ FirePane(a)
  \/ FireNewTab(a)

Returns(a) == Idle /\ (Carried(a) \/ TabUp(a))

User ==
  \/ \E c \in Crons : RunNow(c) \/ Pause(c) \/ Resume(c) \/ DeleteRow(c)
  \/ \E c \in Crons, s \in Intervals : Edit(c, s)
  \/ \E p \in Panes : SendByHuman(p) \/ Delete(p)
  \/ Respawn

Runner ==
  \E p \in Panes :
     \/ \E keep \in BOOLEAN : TurnDone(p, keep)
     \/ TurnEndsUnseen(p)
     \/ Hello(p)
     \/ Blip(p)
     \/ Die(p)
     \/ Fatal(p)

Event ==
  \/ Clock
  \/ \E a \in Ticks : TickStart(a)
  \/ User
  \/ Runner
  \/ GiveUp
  \/ \E t \in Tabs : CloseTab(t)

Next ==
  \/ Idle /\ Event
  \/ \E a \in Actors : Job(a) \/ Returns(a)
  \/ Restart

Spec == Init /\ [][Next]_vars

(* The interval calls the tick, awaits return, runners connect and end      *)
(* their turns.  Acts and faults may never happen.                          *)
FairSpec ==
  /\ Spec
  /\ SF_vars(Idle /\ Clock)
  /\ \A a \in Actors : WF_vars(Job(a)) /\ WF_vars(Returns(a))
  /\ \A a \in Ticks : WF_vars(Idle /\ TickStart(a))
  /\ \A p \in Panes : /\ WF_vars(Idle /\ Hello(p))
                     /\ WF_vars(Idle /\ \E keep \in BOOLEAN : TurnDone(p, keep))
  /\ \A t \in Tabs : WF_vars(Idle /\ CloseTab(t))
-----------------------------------------------------------------------------
TypeOK ==
  /\ pol \in [Crons -> Policies]
  /\ row \in [Crons -> [live : BOOLEAN, enabled : BOOLEAN, sched : Intervals, streak : Nat,
                       due : Nat, open : SUBSET Tabs]]
  /\ owner \in [Panes -> Crons \cup {Human, None}]
  /\ queue \in [Panes -> Seq(Crons \cup {Human})]
  /\ DOMAIN jobs = Actors
  /\ inflight \in Crons \cup {None} /\ closeOn \in [Panes -> Crons \cup {None}]
  /\ closing \subseteq Tabs
  /\ dead \in BOOLEAN /\ conn \in [Panes -> BOOLEAN]
  /\ turn \in [Panes -> Crons \cup {Human, None}]
  /\ now \in Times \cup {0} /\ human \in Nat \cup {None}

(* A scheduled slot is submitted once: by callbacks of the interval that    *)
(* overlap, a slow fire, a catch-up, an edit or a resume.  Only a slot that *)
(* a job was at when the server went may be submitted again.                *)
SlotOnce == ~again

(* No slot of an enabled cron is lost: by the jitter, a deferral, an        *)
(* outage or a crash between a fire and the new anchor.  Each one since the *)
(* row was anchored has been fired, or dropped by a rule of the cron.       *)
NoSlotLost ==
  \A c \in Crons :
     LET r == row[c]
     IN  r.live /\ r.enabled =>
           \A x \in (base[c] + 1)..(r.due - Jitter(c, r.sched) - 1) :
              x % r.sched = 0 => x \in seen[c]

(* With overlap=skip the fires of a cron do not pile up in the pane: one is *)
(* outstanding, and "the worst case here is one extra fire" once the server *)
(* lost sight of a turn.                                                    *)
Outstanding(c) ==
  Cardinality({i \in DOMAIN queue[Main] : queue[Main][i] = c})
    + (IF turn[Main] = c THEN 1 ELSE 0)
OverlapBounded ==
  \A c \in Crons : pol[c].skip /\ ~pol[c].tab =>
     Outstanding(c) <= IF blind THEN 2 ELSE 1

(* A cron leaves at most max_open tabs behind, and one more for each fire   *)
(* by hand that overlapped another and each crash while a tab opened.       *)
TabsBounded ==
  \A c \in Crons : row[c].live =>
     Cardinality({t \in Tabs : owner[t] = c}) <= MaxOpen + extra[c]

(* What is due is served: through slow fires, quiet hours, crashes of the   *)
(* server and panes that are gone.                                          *)
IsDue(c) == row[c].live /\ row[c].enabled /\ row[c].due <= now
DueServed == \A c \in Crons : IsDue(c) ~> ~IsDue(c)

(* A tab that is to close with its work is closed or kept: it does not wait *)
(* for ever for a turn that already ended.                                  *)
CloseResolves ==
  \A t \in Tabs : closeOn[t] # None /\ Live(t) ~> closeOn[t] = None \/ ~Live(t)
=============================================================================
