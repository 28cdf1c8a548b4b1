------------------------------ MODULE HostedApps ------------------------------
(***************************************************************************)
(* The apps the server hosts: the registry that turns an app's row into a  *)
(* pane and back (server/src/apps/AppRegistry.ts), the requests and the    *)
(* heal sweep that call it, the supervisor that gives every serve pane its *)
(* pty back (serve-supervisor.ts), the pane reaper, and the ptyd daemon    *)
(* they share one socket to.                                               *)
(*                                                                         *)
(* ptyd takes requests in the order they were sent and a request has its   *)
(* effect when it is sent; the answers come back in `wire`, in order, a    *)
(* kill's once the pty has gone.  JavaScript runs a piece of code up to    *)
(* its next await without interruption: a job whose next piece is ready is *)
(* urgent, and nothing else happens before it.                             *)
(***************************************************************************)
EXTENDS Naturals, Sequences, SequencesExt, FiniteSets

CONSTANTS
  Apps,         \* the app rows there may be: 1 .. n, in the order of list()
  Manual,       \* the apps whose autostart is off
  MaxPanes,     \* bound on the pane ids in use at one time
  Requests,     \* the HTTP requests, and the heal sweep, that may be under way
  MaxAttempts,  \* RESPAWN_MAX_ATTEMPTS
  MaxActs,      \* bound on what users and the heal sweep do
  MaxFaults     \* bound on outages, restarts and ptys that cannot be made

ASSUME AppsAssumption ==
  /\ Apps \in SUBSET (Nat \ {0}) /\ Manual \subseteq Apps /\ MaxPanes \in Nat
  /\ IsFiniteSet(Requests)
  /\ MaxAttempts \in Nat \ {0} /\ MaxActs \in Nat /\ MaxFaults \in Nat
  /\ {"reconcile", "sweep", "reaper", "none"} \cap Requests = {}

Panes == 1 .. MaxPanes
Jobs  == Requests \cup {"reconcile", "sweep", "reaper"}

VARIABLES
  \* ---- the database
  mode,     \* per app: "absent", "off" (enabled = 0) or "on"
  ptr,      \* per app: pane_id, or 0
  rows,     \* the pane rows
  doomed,   \* pending_pane_kills
  \* ---- the server's memory
  job,      \* what each activity is doing
  list,     \* reconcile: the rows it has yet to look at, as read at its start
  look,     \* sweep: the panes it has yet to look at
  due,      \* reaper: the panes it has yet to look at
  st,       \* the supervisor's states, per pane
  young,    \* panes within their startup grace
  recent,   \* apps within the cooldown of materialize
  booting,  \* the boot pass of the reconciler is still to come
  relist,   \* ptyd was connected: the reaper is to list its panes
  wire,     \* the answers on their way, in order
  \* ---- ptyd
  link,     \* is the control socket open?
  pty,      \* per pane: "none", "live" or "dying"
  waits,    \* per pane: the kills waiting for its exit
  \* ---- bounds and history
  acts, faults,
  made,     \* per pane: the app it was made for
  raced,    \* apps on which two activities of the registry have overlapped
  byHand    \* panes whose row went by the pane route

dbVars    == <<mode, ptr, rows, doomed>>
passVars  == <<list, look, due, booting, relist>>
superVars == <<st, young>>
ptydVars  == <<link, pty, waits, wire>>
histVars  == <<acts, faults, made, raced, byHand>>
vars == <<dbVars, job, passVars, superVars, recent, ptydVars, histVars>>

-----------------------------------------------------------------------------
(* Values *)

Idle  == [pc |-> "idle", app |-> 0, pane |-> 0, next |-> "idle"]
Fresh == [attempts |-> 0, cooling |-> FALSE, gaveUp |-> FALSE, alive |-> FALSE]

Ready == {"teardown", "start", "remove", "materialize", "loop", "look", "queue", "orphans"}
Calm  == \A j \in Jobs : job[j].pc \notin Ready

(* A socket that closed has failed its calls before anything else happens. *)
Event == Calm /\ ~booting /\ (link \/ wire = <<>>)

Goto(j, pc) == job' = [job EXCEPT ![j].pc = pc]
Ends(j)     == job' = [job EXCEPT ![j] = Idle]

(* Where a call of the registry returns to. *)
Return(j) == job' = [job EXCEPT ![j] = IF j = "reconcile" THEN [Idle EXCEPT !.pc = "loop"]
                                       ELSE Idle]

(* ... and a teardown, to what its caller does next.                       *)
GoesOn(j) == job' = [job EXCEPT ![j] = IF job[j].next = "idle" THEN Idle
                                       ELSE [job[j] EXCEPT !.pc = job[j].next, !.pane = 0]]

LeastOf(S) == CHOOSE n \in S : \A m \in S : n <= m

(* Pane ids are fresh: one that nothing mentions stands for any of them.   *)
Free == {p \in Panes : /\ p \notin rows \cup doomed \cup look \cup due
                       /\ pty[p] = "none" /\ st[p] = Fresh
                       /\ \A a \in Apps : ptr[a] # p
                       /\ \A j \in Jobs : job[j].pane # p
                       /\ \A s \in list : s.pane # p}

Mentioned(a) == (\E j \in Jobs : job[j].app = a) \/ \E s \in list : s.app = a

(* Is the registry at work on the app?                                     *)
Busy(a) == job["reconcile"].pc # "idle" \/ \E j \in Requests : job[j].app = a
Overlaps(S) == raced' = raced \cup {a \in S : Busy(a)}

-----------------------------------------------------------------------------
(* Calls to ptyd *)

Answer(j, what) == wire' = Append(wire, [to |-> j, ans |-> what])

AskKill(j, p) ==
  CASE ~link                     -> Answer(j, "fail") /\ UNCHANGED <<pty, waits>>
    [] link /\ pty[p] = "none"   -> Answer(j, "ok") /\ UNCHANGED <<pty, waits>>
    [] OTHER                     -> /\ pty' = [pty EXCEPT ![p] = "dying"]
                                    /\ waits' = [waits EXCEPT ![p] = Append(@, j)]
                                    /\ UNCHANGED wire

(* ensurePane hands back the runtime there is; the pty table may be full.  *)
AskEnsure(j, p) ==
  \/ /\ link
     /\ pty' = [pty EXCEPT ![p] = IF @ = "none" THEN "live" ELSE @]
     /\ Answer(j, "ok") /\ UNCHANGED faults
  \/ ~link /\ Answer(j, "fail") /\ UNCHANGED <<pty, faults>>
  \/ /\ link /\ pty[p] = "none" /\ faults < MaxFaults
     /\ faults' = faults + 1 /\ Answer(j, "fail") /\ UNCHANGED pty

AskHas(j, p) == Answer(j, IF ~link THEN "fail" ELSE IF pty[p] = "none" THEN "no" ELSE "yes")

(* The next answer is for job j, which waits at pc.                        *)
Delivers(j, pc) ==
  /\ Calm /\ wire # <<>> /\ Head(wire).to = j /\ job[j].pc = pc

-----------------------------------------------------------------------------
(* The registry: materialize, teardown, start, stop, remove *)

(* The row has a pane already, or had one made for it a moment ago.  (How  *)
(* long ago is not counted: what is recent may be so no longer.)           *)
NeedsNone(a) == mode[a] = "absent" \/ ptr[a] \in rows

MaterializeSkips(j) ==
  /\ job[j].pc = "materialize" /\ (NeedsNone(job[j].app) \/ job[j].app \in recent)
  /\ Return(j)
  /\ UNCHANGED <<dbVars, passVars, superVars, recent, ptydVars, histVars>>

(* Tab, pane and pointer in one transaction, then the pty.                 *)
Materialize(j) ==
  LET a == job[j].app
      p == LeastOf(Free)
  IN
  /\ job[j].pc = "materialize" /\ ~NeedsNone(a) /\ Free # {}
  /\ rows' = rows \cup {p} /\ ptr' = [ptr EXCEPT ![a] = p]
  /\ made' = [made EXCEPT ![p] = a] /\ byHand' = byHand \ {p}
  /\ young' = young \cup {p} /\ recent' = recent \cup {a}
  /\ AskEnsure(j, p) /\ Goto(j, "ensure")
  /\ UNCHANGED <<mode, doomed, passVars, st, link, waits, acts, raced>>

(* A failure is logged: the supervisor's sweep is to bring the pty up.     *)
Materialized(j) ==
  /\ Delivers(j, "ensure")
  /\ wire' = Tail(wire) /\ Return(j)
  /\ UNCHANGED <<dbVars, passVars, superVars, recent, link, pty, waits, histVars>>

Forgets_First == TRUE       \* mutant: the pointer is cleared before the kill
ForgetsFirst == FALSE

(* teardown, with the pane its caller has read from the app's row.         *)
Teardown(j) ==
  LET a == job[j].app
      p == job[j].pane
  IN
  /\ job[j].pc = "teardown"
  /\ IF p \in rows
     THEN /\ AskKill(j, p) /\ Goto(j, "kill")
          /\ ptr' = IF ForgetsFirst THEN [ptr EXCEPT ![a] = 0] ELSE ptr
          /\ UNCHANGED recent
     ELSE /\ GoesOn(j)
          /\ ptr' = IF p = 0 THEN ptr ELSE [ptr EXCEPT ![a] = 0]
          /\ recent' = IF p = 0 THEN recent ELSE recent \ {a}
          /\ UNCHANGED <<wire, pty, waits>>
  /\ UNCHANGED <<mode, rows, doomed, passVars, superVars, link, histVars>>

TornDown(j) ==
  /\ Delivers(j, "kill")
  /\ wire' = Tail(wire)
  /\ doomed' = IF Head(wire).ans = "fail" THEN doomed \cup {job[j].pane} ELSE doomed
  /\ rows' = rows \ {job[j].pane}
  /\ ptr' = [ptr EXCEPT ![job[j].app] = 0] /\ recent' = recent \ {job[j].app}
  /\ GoesOn(j)
  /\ UNCHANGED <<mode, passVars, superVars, link, pty, waits, histVars>>

(* The second half of a rebuild.                                           *)
StartAgain(j) ==
  /\ job[j].pc = "start"
  /\ IF mode[job[j].app] = "absent" THEN Ends(j) /\ UNCHANGED mode
     ELSE mode' = [mode EXCEPT ![job[j].app] = "on"] /\ Goto(j, "materialize")
  /\ UNCHANGED <<ptr, rows, doomed, passVars, superVars, recent, ptydVars, histVars>>

RemoveRow(j) ==
  /\ job[j].pc = "remove"
  /\ mode' = [mode EXCEPT ![job[j].app] = "absent"]
  /\ ptr' = [ptr EXCEPT ![job[j].app] = 0]
  /\ recent' = recent \ {job[j].app}
  /\ Ends(j)
  /\ UNCHANGED <<rows, doomed, passVars, superVars, ptydVars, histVars>>

-----------------------------------------------------------------------------
(* What calls the registry *)

(* A request begins: nobody else runs, and it is its slot's turn.          *)
Begins(j, a, pc, p, next) ==
  /\ Event /\ job[j] = Idle /\ acts < MaxActs
  /\ acts' = acts + 1
  /\ job' = IF pc = "idle" THEN job
            ELSE [job EXCEPT ![j] = [pc |-> pc, app |-> a, pane |-> p, next |-> next]]
  /\ Overlaps({a})

(* POST /api/apps, to be started or not: a new row, which nobody holds.     *)
PostApp(j, a) ==
  /\ mode[a] = "absent" /\ ~Mentioned(a)
  /\ \/ Begins(j, a, "materialize", 0, "idle") /\ mode' = [mode EXCEPT ![a] = "on"]
     \/ Begins(j, a, "idle", 0, "idle") /\ mode' = [mode EXCEPT ![a] = "off"]
  /\ UNCHANGED <<ptr, rows, doomed, passVars, superVars, recent, ptydVars, faults,
                 made, byHand>>

Start(j, a) ==
  /\ mode[a] # "absent"
  /\ Begins(j, a, "materialize", 0, "idle")
  /\ mode' = [mode EXCEPT ![a] = "on"]
  /\ UNCHANGED <<ptr, rows, doomed, passVars, superVars, recent, ptydVars, faults,
                 made, byHand>>

(* POST stop, and DELETE: disabled first, then torn down.                  *)
Stop(j, a) ==
  /\ mode[a] # "absent"
  /\ \E next \in {"idle", "remove"} : Begins(j, a, "teardown", ptr[a], next)
  /\ mode' = [mode EXCEPT ![a] = "off"]
  /\ UNCHANGED <<ptr, rows, doomed, passVars, superVars, recent, ptydVars, faults,
                 made, byHand>>

(* PATCH, and the heal sweep: an app seen enabled, with a pane ...         *)
SeesRunning(j, a) ==
  /\ mode[a] = "on" /\ ptr[a] \in rows /\ ~st[ptr[a]].gaveUp
  /\ Begins(j, a, "seen", 0, "start")
  /\ UNCHANGED <<dbVars, passVars, superVars, recent, ptydVars, faults, made, byHand>>

(* ... is rebuilt when the body, or the probe of its url, has come.        *)
Rebuild(j) ==
  LET a == job[j].app IN
  /\ Event /\ job[j].pc = "seen"
  /\ IF mode[a] = "absent" THEN Ends(j) /\ UNCHANGED mode
     ELSE /\ mode' = [mode EXCEPT ![a] = "off"]
          /\ job' = [job EXCEPT ![j].pc = "teardown", ![j].pane = ptr[a]]
  /\ UNCHANGED <<ptr, rows, doomed, passVars, superVars, recent, ptydVars, histVars>>

(* DELETE /api/panes/:id, which knows nothing of apps.                     *)
DeletePane(j, p) ==
  /\ p \in rows
  /\ Begins(j, made[p], "delete", p, "idle")
  /\ AskKill(j, p)
  /\ UNCHANGED <<dbVars, passVars, superVars, recent, link, faults, made, byHand>>

PaneDeleted(j) ==
  /\ Delivers(j, "delete")
  /\ wire' = Tail(wire)
  /\ doomed' = IF Head(wire).ans = "fail" THEN doomed \cup {job[j].pane} ELSE doomed
  /\ rows' = rows \ {job[j].pane} /\ byHand' = byHand \cup {job[j].pane}
  /\ Ends(j)
  /\ UNCHANGED <<mode, ptr, passVars, superVars, recent, link, pty, waits, acts, faults,
                 made, raced>>

-----------------------------------------------------------------------------
(* reconcile *)

RowsRead ==
  {[app |-> a, on |-> mode[a] = "on", pane |-> ptr[a],
    drop |-> booting /\ mode[a] = "on" /\ a \in Manual] : a \in {b \in Apps : mode[b] # "absent"}}

Reconcile ==
  /\ Calm /\ (link \/ wire = <<>>) /\ job["reconcile"] = Idle
  /\ list' = RowsRead /\ booting' = FALSE
  /\ Overlaps({a \in Apps : mode[a] # "absent"})
  /\ Goto("reconcile", "loop")
  /\ UNCHANGED <<dbVars, look, due, relist, superVars, recent, ptydVars, acts, faults,
                 made, byHand>>

Enters(pc, s) ==
  job' = [job EXCEPT !["reconcile"] = [pc |-> pc, app |-> s.app, pane |-> s.pane, next |-> "loop"]]

Keeps_Stopped(s) == TRUE     \* mutant: a stopped app's pane is none of its business
Keeps(s) == s.pane = 0
Rebuilds_Never(s) == FALSE   \* mutant: a pane whose row is gone stays gone
Rebuilds(s) == s.pane \notin rows

NextRow == CHOOSE s \in list : \A t \in list : s.app <= t.app

(* One row, as it was read: an app to leave stopped at boot, a stopped app *)
(* that still has a pane, an enabled one without.                          *)
ReconcileRow ==
  /\ job["reconcile"].pc = "loop" /\ list # {}
  /\ list' = list \ {NextRow}
  /\ LET s == NextRow IN
     \/ /\ s.drop /\ Enters("teardown", s)
        /\ mode' = [mode EXCEPT ![s.app] = IF @ = "on" THEN "off" ELSE @]
        /\ UNCHANGED ptr
     \/ ~s.drop /\ ~s.on /\ ~Keeps(s) /\ Enters("teardown", s) /\ UNCHANGED <<mode, ptr>>
     \/ ~s.drop /\ ~s.on /\ Keeps(s) /\ UNCHANGED <<job, mode, ptr>>
     \/ ~s.drop /\ s.on /\ ~Rebuilds(s) /\ UNCHANGED <<job, mode, ptr>>
     \/ /\ ~s.drop /\ s.on /\ Rebuilds(s) /\ Enters("materialize", [s EXCEPT !.pane = 0])
        /\ ptr' = IF s.pane = 0 THEN ptr ELSE [ptr EXCEPT ![s.app] = 0]
        /\ UNCHANGED mode
  /\ UNCHANGED <<rows, doomed, look, due, booting, relist, superVars, recent, ptydVars,
                 acts, faults, made, raced, byHand>>

ReconcileEnds ==
  /\ job["reconcile"].pc = "loop" /\ list = {}
  /\ Ends("reconcile")
  /\ UNCHANGED <<dbVars, passVars, superVars, recent, ptydVars, histVars>>

-----------------------------------------------------------------------------
(* serve-supervisor: the sweep over the panes that run `muxpad serve` *)

(* All of them, but for the pane of an app its user has stopped.           *)
listServePanes == {p \in rows : \A a \in Apps : ~(mode[a] = "off" /\ ptr[a] = p)}

Sweep ==
  /\ Event /\ job["sweep"] = Idle /\ listServePanes \cup {p \in Panes : st[p] # Fresh} # {}
  /\ look' = listServePanes
  /\ st' = [p \in Panes |-> IF p \in listServePanes THEN st[p] ELSE Fresh]
  /\ Goto("sweep", "look")
  /\ UNCHANGED <<dbVars, list, due, booting, relist, young, recent, ptydVars, histVars>>

(* A young pane is left alone; one that was young may have grown up.       *)
SweepSkips ==
  /\ job["sweep"].pc = "look" /\ look # {} /\ LeastOf(look) \in young
  /\ look' = look \ {LeastOf(look)}
  /\ UNCHANGED <<dbVars, job, list, due, booting, relist, superVars, recent, ptydVars, histVars>>

SweepAsks ==
  LET p == LeastOf(look) IN
  /\ job["sweep"].pc = "look" /\ look # {}
  /\ look' = look \ {p} /\ young' = young \ {p}
  /\ AskHas("sweep", p)
  /\ job' = [job EXCEPT !["sweep"].pc = "has", !["sweep"].pane = p]
  /\ UNCHANGED <<dbVars, list, due, booting, relist, st, recent, link, pty, waits, histVars>>

SweepGrown == look # {} /\ LeastOf(look) \in young /\ SweepAsks

SweepEnds ==
  /\ job["sweep"].pc = "look" /\ look = {}
  /\ Ends("sweep")
  /\ UNCHANGED <<dbVars, passVars, superVars, recent, ptydVars, histVars>>

SweepGoesOn == job' = [job EXCEPT !["sweep"] = [Idle EXCEPT !.pc = "look"]]

Sees(ans) == Delivers("sweep", "has") /\ Head(wire).ans = ans

(* ptyd cannot be reached: the pane's liveness is unknown.                 *)
SweepUnsure ==
  /\ Sees("fail")
  /\ wire' = Tail(wire) /\ SweepGoesOn
  /\ st' = [st EXCEPT ![job["sweep"].pane].alive = FALSE]
  /\ UNCHANGED <<dbVars, passVars, young, recent, link, pty, waits, histVars>>

(* Alive: forgiven once it has stayed so through its probation.            *)
SweepAlive ==
  LET p == job["sweep"].pane IN
  /\ Sees("yes")
  /\ wire' = Tail(wire) /\ SweepGoesOn
  /\ \/ st' = [st EXCEPT ![p] = IF @.attempts = 0 /\ ~@.gaveUp THEN Fresh
                                ELSE [@ EXCEPT !.alive = TRUE]]
     \/ st[p].alive /\ st' = [st EXCEPT ![p] = Fresh]
  /\ UNCHANGED <<dbVars, passVars, young, recent, link, pty, waits, histVars>>

Means_Dead(ans) == ans \in {"no", "fail"}    \* mutant: no answer means no pty
Means(ans) == ans = "no"

SweepRests ==
  LET p == job["sweep"].pane IN
  /\ Delivers("sweep", "has") /\ Means(Head(wire).ans)
  /\ st[p].gaveUp \/ st[p].cooling
  /\ wire' = Tail(wire) /\ SweepGoesOn
  /\ st' = [st EXCEPT ![p].alive = FALSE]
  /\ UNCHANGED <<dbVars, passVars, young, recent, link, pty, waits, histVars>>

WrittenOff(n) == n > MaxAttempts

Selected_Unread(p) == p \in rows    \* mutant: the app may have been stopped meanwhile
Selected(p) == p \in listServePanes

(* Dead, and not cooling or no longer: one attempt more, unless the budget *)
(* is spent.  The pane is selected again before its pty is made.           *)
SweepDead ==
  LET p    == job["sweep"].pane
      next == [st[p] EXCEPT !.attempts = @ + 1, !.cooling = TRUE, !.alive = FALSE]
      rest == Tail(wire)
  IN
  /\ Delivers("sweep", "has") /\ Means(Head(wire).ans) /\ ~st[p].gaveUp
  /\ IF WrittenOff(next.attempts)
     THEN st' = [st EXCEPT ![p] = [next EXCEPT !.gaveUp = TRUE]]
     ELSE st' = [st EXCEPT ![p] = next]
  /\ \/ /\ ~WrittenOff(next.attempts) /\ Selected(p)
        /\ Goto("sweep", "spawn")
        /\ \/ link /\ pty' = [pty EXCEPT ![p] = IF @ = "none" THEN "live" ELSE @]
              /\ wire' = Append(rest, [to |-> "sweep", ans |-> "ok"]) /\ UNCHANGED faults
           \/ /\ ~link \/ (pty[p] = "none" /\ faults < MaxFaults)
              /\ faults' = IF link THEN faults + 1 ELSE faults
              /\ wire' = Append(rest, [to |-> "sweep", ans |-> "fail"]) /\ UNCHANGED pty
     \/ /\ ~(~WrittenOff(next.attempts) /\ Selected(p))
        /\ wire' = rest /\ SweepGoesOn /\ UNCHANGED <<pty, faults>>
  /\ UNCHANGED <<dbVars, passVars, young, recent, link, waits, acts, made, raced, byHand>>

SweepSpawned ==
  /\ Delivers("sweep", "spawn")
  /\ wire' = Tail(wire) /\ SweepGoesOn
  /\ UNCHANGED <<dbVars, passVars, superVars, recent, link, pty, waits, histVars>>

-----------------------------------------------------------------------------
(* pane-reaper: the queued kills, then, once per connection, the ptys      *)
(* without a row                                                           *)

Reap ==
  /\ Event /\ job["reaper"] = Idle /\ (doomed # {} \/ relist)
  /\ due' = doomed
  /\ Goto("reaper", "queue")
  /\ UNCHANGED <<dbVars, list, look, booting, relist, superVars, recent, ptydVars, histVars>>

ReaperKills(p, pc) ==
  /\ due' = due \ {p}
  /\ job' = [job EXCEPT !["reaper"].pc = pc, !["reaper"].pane = p]
  /\ AskKill("reaper", p)

ReapQueued ==
  /\ job["reaper"].pc = "queue"
  /\ \/ due # {} /\ ReaperKills(LeastOf(due), "qkill") /\ UNCHANGED relist
     \/ /\ due = {} /\ relist
        /\ relist' = FALSE
        /\ due' = IF link THEN {p \in Panes : pty[p] # "none"} ELSE {}
        /\ Answer("reaper", IF link THEN "ok" ELSE "fail")
        /\ Goto("reaper", "list") /\ UNCHANGED <<pty, waits>>
     \/ due = {} /\ ~relist /\ Ends("reaper") /\ UNCHANGED <<due, relist, wire, pty, waits>>
  /\ UNCHANGED <<dbVars, list, look, booting, superVars, recent, link, histVars>>

ReapOrphans ==
  LET p == LeastOf(due) IN
  /\ job["reaper"].pc = "orphans"
  /\ IF due = {} THEN Ends("reaper") /\ UNCHANGED <<due, wire, pty, waits>>
     ELSE IF p \in rows THEN due' = due \ {p} /\ UNCHANGED <<job, wire, pty, waits>>
     ELSE ReaperKills(p, "okill")
  /\ UNCHANGED <<dbVars, list, look, booting, relist, superVars, recent, link, histVars>>

(* An answered kill leaves the queue; an orphan's lost one joins it.       *)
ReaperAnswered ==
  LET p  == job["reaper"].pane
      ok == Head(wire).ans = "ok"
  IN
  /\ \/ /\ Delivers("reaper", "qkill")
        /\ doomed' = IF ok THEN doomed \ {p} ELSE doomed
        /\ job' = [job EXCEPT !["reaper"].pc = "queue", !["reaper"].pane = 0]
        /\ UNCHANGED due
     \/ /\ Delivers("reaper", "okill")
        /\ doomed' = IF ok THEN doomed ELSE doomed \cup {p}
        /\ job' = [job EXCEPT !["reaper"].pc = "orphans", !["reaper"].pane = 0]
        /\ UNCHANGED due
     \/ /\ Delivers("reaper", "list")
        /\ Goto("reaper", "orphans")
        /\ due' = IF ok THEN due ELSE {}
        /\ UNCHANGED doomed
  /\ wire' = Tail(wire)
  /\ UNCHANGED <<mode, ptr, rows, list, look, booting, relist, superVars, recent, link,
                 pty, waits, histVars>>

-----------------------------------------------------------------------------
(* ptyd, the clock, and what fails *)

PtyExits(p) ==
  /\ Calm /\ pty[p] = "dying"
  /\ pty' = [pty EXCEPT ![p] = "none"]
  /\ wire' = wire \o [i \in DOMAIN waits[p] |-> [to |-> waits[p][i], ans |-> "ok"]]
  /\ waits' = [waits EXCEPT ![p] = <<>>]
  /\ UNCHANGED <<dbVars, job, passVars, superVars, recent, link, histVars>>

Connect ==
  /\ Calm /\ ~link /\ wire = <<>>
  /\ link' = TRUE /\ relist' = TRUE
  /\ UNCHANGED <<dbVars, job, list, look, due, booting, superVars, recent, pty, waits, wire,
                 histVars>>

(* failPending: every call not answered yet is rejected.                   *)
Pending == {j \in Jobs : job[j].pc \in {"kill", "ensure", "delete", "has", "spawn", "list",
                                        "qkill", "okill"}}
FailPending == LET calls == SetToSeq(Pending)
               IN  wire' = [i \in DOMAIN calls |-> [to |-> calls[i], ans |-> "fail"]]

Unlinks == link' = FALSE /\ waits' = [p \in Panes |-> <<>>]

LinkDrops ==
  /\ Calm /\ link /\ faults < MaxFaults
  /\ faults' = faults + 1 /\ Unlinks /\ FailPending
  /\ UNCHANGED <<dbVars, job, passVars, superVars, recent, pty, acts, made, raced, byHand>>

(* Somebody leaves the shell of a pane.                                    *)
ShellExits(p) ==
  /\ Event /\ pty[p] = "live" /\ faults < MaxFaults
  /\ faults' = faults + 1 /\ pty' = [pty EXCEPT ![p] = "none"]
  /\ UNCHANGED <<dbVars, job, passVars, superVars, recent, link, waits, wire, acts, made,
                 raced, byHand>>

PtydRestarts ==
  /\ Calm /\ link /\ faults < MaxFaults
  /\ faults' = faults + 1 /\ Unlinks /\ FailPending
  /\ pty' = [p \in Panes |-> "none"]
  /\ UNCHANGED <<dbVars, job, passVars, superVars, recent, acts, made, raced, byHand>>

(* The main server dies at some await and comes up again; ptyd lives on.   *)
ServerRestarts ==
  /\ Calm /\ faults < MaxFaults
  /\ faults' = faults + 1 /\ Unlinks /\ wire' = <<>>
  /\ job' = [j \in Jobs |-> Idle] /\ list' = {} /\ look' = {} /\ due' = {}
  /\ st' = [p \in Panes |-> Fresh] /\ recent' = {} /\ booting' = TRUE /\ relist' = FALSE
  /\ UNCHANGED <<dbVars, pty, young, acts, made, raced, byHand>>

-----------------------------------------------------------------------------
(* The server comes up beside a ptyd that has lived on, with any of the    *)
(* apps enabled and served, any of the others stopped.                     *)
Init ==
  \E On \in {S \in SUBSET Apps : S \subseteq Panes} : \E Off \in SUBSET (Apps \ On) :
  /\ mode = [a \in Apps |-> IF a \in On THEN "on" ELSE IF a \in Off THEN "off" ELSE "absent"]
  /\ ptr = [a \in Apps |-> IF a \in On THEN a ELSE 0]
  /\ rows = On /\ made = [p \in Panes |-> IF p \in On THEN p ELSE 0]
  /\ pty = [p \in Panes |-> IF p \in On THEN "live" ELSE "none"]
  /\ doomed = {} /\ job = [j \in Jobs |-> Idle]
  /\ list = {} /\ look = {} /\ due = {} /\ st = [p \in Panes |-> Fresh]
  /\ young = {} /\ recent = {} /\ booting = TRUE /\ relist = FALSE /\ wire = <<>>
  /\ link = FALSE /\ waits = [p \in Panes |-> <<>>]
  /\ acts = 0 /\ faults = 0 /\ raced = {} /\ byHand = {}

(* Pieces of code that are ready to run, and those that an answer resumes. *)
Registers(j) == MaterializeSkips(j) \/ Materialize(j) \/ Teardown(j)
Continues == \/ \E j \in Requests : Registers(j) \/ StartAgain(j) \/ RemoveRow(j)
             \/ Registers("reconcile") \/ ReconcileRow \/ ReconcileEnds
             \/ SweepSkips \/ SweepAsks \/ SweepEnds
             \/ ReapQueued \/ ReapOrphans
Resumes   == \/ \E j \in Requests : Materialized(j) \/ TornDown(j) \/ PaneDeleted(j)
             \/ Materialized("reconcile") \/ TornDown("reconcile")
             \/ SweepUnsure \/ SweepAlive \/ SweepRests \/ SweepDead \/ SweepSpawned
             \/ ReaperAnswered
Arrives   == \E j \in Requests : Rebuild(j)
Asks(j)   == \/ \E a \in Apps : PostApp(j, a) \/ Start(j, a) \/ Stop(j, a) \/ SeesRunning(j, a)
             \/ \E p \in Panes : DeletePane(j, p)
Exits     == \E p \in Panes : PtyExits(p)
Faults    == (\E p \in Panes : ShellExits(p)) \/ LinkDrops \/ PtydRestarts \/ ServerRestarts

Next == \/ \E j \in Requests : Asks(j)
        \/ Continues \/ Resumes \/ Arrives \/ Reconcile \/ Sweep \/ Reap
        \/ Exits \/ Connect \/ Faults

Spec == Init /\ [][Next]_vars

(* Code that is ready runs; answers and bodies arrive, killed ptys exit    *)
(* and the socket reconnects; the intervals go on for ever, and a pass     *)
(* sometimes falls after a cooldown or a startup grace.                    *)
Fairness == /\ WF_vars(Continues)
            /\ SF_vars(Resumes) /\ SF_vars(Arrives) /\ SF_vars(Exits) /\ SF_vars(Connect)
            /\ SF_vars(Reconcile) /\ SF_vars(Sweep) /\ SF_vars(Reap)
            /\ SF_vars(Materialize("reconcile")) /\ SF_vars(SweepGrown) /\ SF_vars(SweepDead)
FairSpec == Spec /\ Fairness

-----------------------------------------------------------------------------
(* Properties *)

TypeOK ==
  /\ mode \in [Apps -> {"absent", "off", "on"}] /\ ptr \in [Apps -> Panes \cup {0}]
  /\ rows \subseteq Panes /\ doomed \subseteq Panes
  /\ \A j \in Jobs : /\ job[j].app \in Apps \cup {0} /\ job[j].pane \in Panes \cup {0}
                     /\ job[j].pc = "idle" => job[j] = Idle
  /\ look \subseteq Panes /\ due \subseteq Panes
  /\ st \in [Panes -> [attempts : 0 .. MaxAttempts + 1, cooling : BOOLEAN, gaveUp : BOOLEAN,
                       alive : BOOLEAN]]
  /\ young \subseteq Panes /\ recent \subseteq Apps
  /\ booting \in BOOLEAN /\ relist \in BOOLEAN /\ link \in BOOLEAN
  /\ wire \in Seq([to : Jobs, ans : {"ok", "fail", "yes", "no"}])
  /\ pty \in [Panes -> {"none", "live", "dying"}] /\ waits \in [Panes -> Seq(Jobs)]
  /\ acts \in 0 .. MaxActs /\ faults \in 0 .. MaxFaults
  /\ made \in [Panes -> Apps \cup {0}] /\ raced \subseteq Apps /\ byHand \subseteq Panes

(* Every pane that was made for an app is the one its row points to, at    *)
(* every await, over every restart, as long as no two activities of the    *)
(* registry have overlapped on that app.                                   *)
PanesArePointedTo == \A p \in rows : made[p] \in raced \/ ptr[made[p]] = p

(* The same without the proviso.                                           *)
NoPaneIsLost == \A p \in rows : ptr[made[p]] = p

(* A stopped or removed app's pty does not come back: one that runs        *)
(* without a row is queued for the reaper, whatever sweep, restart or lost *)
(* kill came in between.  (The pane route makes no such promise.)          *)
TornDownStaysDown ==
  \A p \in Panes : pty[p] = "live" /\ p \notin rows
                    => p \in doomed \cup byHand \/ made[p] \in raced

(* What the supervisor counts against a pane is the absence of its pty and *)
(* never the absence of ptyd.                                              *)
OnlyTheDeadAreCounted ==
  [][\A p \in Panes : st'[p].attempts > st[p].attempts => pty[p] = "none"]_vars

(* An app that stays enabled has, again and again, a pane with a pty, or   *)
(* the supervisor has written it off.                                      *)
Served(a) == ptr[a] \in rows /\ (pty[ptr[a]] = "live" \/ st[ptr[a]].gaveUp)
EnabledIsServed == []<>(\A a \in Apps : mode[a] = "on" => Served(a))

(* The ptys of apps that stay stopped end, also when the server dies       *)
(* between the flag and the kill, or the kill is lost.                     *)
Lingers(p) == /\ pty[p] = "live" /\ made[p] # 0 /\ mode[made[p]] # "on"
              /\ made[p] \notin raced /\ p \notin byHand
StoppedComesDown == []<>(\A p \in Panes : ~Lingers(p))

===============================================================================
