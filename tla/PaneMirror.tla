------------------------------ MODULE PaneMirror ------------------------------
(***************************************************************************)
(* What the server shows of a pane and what the pane really does: the      *)
(* decorations (title, foreground command, bell) that ptyd announces on    *)
(* its control socket (server/src/runtime/PaneManager.ts, ptyd/index.ts),  *)
(* the copy the server keeps of them (ptyd-cache.ts) with its spinner, and *)
(* the snapshot that is to make the copy true again after a reconnect.     *)
(*                                                                         *)
(* ptyd announces changes only, against the values it announced last; the  *)
(* socket is ordered, and what is sent while it is closed is lost.  A      *)
(* request has its effect in ptyd when it is sent, except the snapshot,    *)
(* which ptyd takes later.  One read of the socket may bring several       *)
(* frames, which are handled before the code that awaited one of them goes *)
(* on; nothing else of the server comes in between.                        *)
(***************************************************************************)
EXTENDS Naturals, Sequences

CONSTANTS
  Titles,     \* the titles a program may set
  Cmds,       \* the foreground commands ps may report
  Null,       \* no title, no command, no pane
  Unset,      \* never announced
  Active,     \* does the pane have output that counts as activity?
  MaxWire,    \* bound on the frames on the socket
  MaxFaults   \* bound on lost links, restarts and kills by force

ASSUME MirrorAssumption ==
  /\ Null \notin Titles \cup Cmds \cup BOOLEAN
  /\ Unset \notin Titles \cup Cmds \cup {Null} \cup BOOLEAN
  /\ Null \notin [title : {Null} \cup Titles, fg : {Null} \cup Cmds, bell : BOOLEAN]
  /\ Active \in BOOLEAN /\ MaxWire \in Nat /\ MaxFaults \in Nat

VARIABLES
  \* ---- ptyd
  run,      \* the runtime of the pane: "none", "live", or "dying" of a kill
  own,      \* the runtime's own title and bell
  fg,       \* foregroundCmd
  ps,       \* the poll under way: "idle", or what ps has found
  said,     \* lastTitle, lastFg, lastAttention
  waits,    \* does the answer to a kill wait for the exit?
  \* ---- the socket
  link, wire,
  \* ---- the server
  mirror,   \* the entry of the cache; an absent one shows nothing
  timer,    \* the busy timer: "off", "warm" (warming up) or "on"
  snap,     \* the snapshot: "idle", "asked", "taken" or "here"
  held,     \* ... and what it says, once here
  raced,    \* what was announced since it was asked for
  job,      \* the request on the pane: "idle", "close" or "respawn"
  back,     \* has its kill been answered?
  \* ---- bounds and history
  faults,
  slipped   \* the runtime was evicted by force, or forgotten after it spoke

ptydVars   == <<run, own, fg, ps, said>>
mirrorVars == <<mirror, timer>>
snapVars   == <<snap, held, raced>>
jobVars    == <<job, back>>
histVars   == <<faults, slipped>>
vars == <<ptydVars, waits, link, wire, mirrorVars, snapVars, jobVars, histVars>>

-----------------------------------------------------------------------------
(* Values *)

Fields  == {"title", "fg", "bell"}
Blank   == [title |-> Null, fg |-> Null, bell |-> FALSE, busy |-> FALSE]
Newborn == [title |-> Null, bell |-> FALSE]
Silent  == [title |-> Unset, fg |-> Unset, bell |-> Unset]

Picture == [title |-> own.title, fg |-> fg, bell |-> own.bell]

Frame(what, v) == [what |-> what, v |-> v]

(* The server has code that is ready to go on.                             *)
Calm == snap # "here" /\ ~back

-----------------------------------------------------------------------------
(* ptyd *)

(* A frame goes to the control sockets that are open.                      *)
Send(frames) == /\ Len(wire) + Len(frames) <= MaxWire
                /\ wire' = IF link THEN wire \o frames ELSE wire

(* emitDecorations: the fields that differ from what was said last.        *)
Says(p, f)  == IF said[f] # p[f] THEN <<Frame(f, p[f])>> ELSE <<>>
Announce(p) == said' = p /\ Send(Says(p, "title") \o Says(p, "fg") \o Says(p, "bell"))

Spawned == run' = "live" /\ own' = Newborn

(* A browser attaches, or some sweep wants the pane: getOrCreate.          *)
Ensure ==
  /\ link /\ run = "none" /\ Spawned
  /\ UNCHANGED <<fg, ps, said, waits, link, wire, mirrorVars, snapVars, jobVars, histVars>>

(* The bell is announced at once, and so is its end: the user types into   *)
(* the pane, or markSeen.                                                  *)
Bell(on) ==
  /\ run # "none" /\ own.bell # on
  /\ own' = [own EXCEPT !.bell = on]
  /\ Announce([Picture EXCEPT !.bell = on])
  /\ UNCHANGED <<run, fg, ps, waits, link, mirrorVars, snapVars, jobVars, histVars>>

(* A title waits for the next poll.                                        *)
Retitle(t) ==
  /\ run # "none" /\ own.title # t
  /\ own' = [own EXCEPT !.title = t]
  /\ UNCHANGED <<run, fg, ps, said, waits, link, wire, mirrorVars, snapVars, jobVars, histVars>>

(* Output: a bare tick, a quarter of a second apart.  One that would wait   *)
(* behind other frames is as good as one that comes when they are read.    *)
Output ==
  /\ Active /\ run # "none" /\ wire = <<>> /\ Send(<<Frame("tick", Null)>>)
  /\ UNCHANGED <<ptydVars, waits, link, mirrorVars, snapVars, jobVars, histVars>>

(* pollCmds runs ps for the runtimes there are, and stores what it found   *)
(* under the id of the pane, whatever has become of the runtime.           *)
PollBegins ==
  /\ ps = "idle" /\ ps' \in {Null} \cup IF run = "none" THEN {} ELSE Cmds
  /\ UNCHANGED <<run, own, fg, said, waits, link, wire, mirrorVars, snapVars, jobVars, histVars>>

Sampled == IF ps = Null THEN fg ELSE ps
PollEnds ==
  /\ ps # "idle" /\ ps' = "idle" /\ fg' = Sampled
  /\ IF run = "none" THEN UNCHANGED <<said, wire>>
                     ELSE Announce([Picture EXCEPT !.fg = Sampled])
  /\ UNCHANGED <<run, own, waits, link, mirrorVars, snapVars, jobVars, histVars>>

(* The shell exits, by itself or of the kill.                              *)
Answered == IF waits THEN <<Frame("killed", Null)>> ELSE <<>>
Exits ==
  /\ run # "none" /\ run' = "none" /\ own' = Newborn
  /\ fg' = Null /\ said' = Silent /\ waits' = FALSE /\ slipped' = FALSE
  /\ Send(<<Frame("exit", Null)>> \o Answered)
  /\ UNCHANGED <<ps, link, mirrorVars, snapVars, jobVars, faults>>

(* kill, two seconds later: the entry is dropped, and the exit handler     *)
(* will find that it is not the runtime of record.                         *)
KillTimesOut ==
  /\ run = "dying" /\ faults < MaxFaults
  /\ run' = "none" /\ own' = Newborn /\ waits' = FALSE
  /\ faults' = faults + 1 /\ slipped' = TRUE
  /\ Send(Answered)
  /\ UNCHANGED <<fg, ps, said, link, mirrorVars, snapVars, jobVars>>

(* snapshotDecorations                                                     *)
TakeSnapshot ==
  /\ snap = "asked" /\ snap' = "taken"
  /\ Send(<<Frame("decos", IF run = "none" THEN Null ELSE Picture)>>)
  /\ UNCHANGED <<ptydVars, waits, link, mirrorVars, held, raced, jobVars, histVars>>

-----------------------------------------------------------------------------
(* The server: what it hears *)

Head1 == Head(wire)
Hear(what) == wire # <<>> /\ Head1.what = what /\ wire' = Tail(wire)

(* Noted while a snapshot is on its way, for it may be older.              *)
Note_Exits(what) == raced' = IF what = "exit" /\ snap # "idle" THEN raced \cup {what}
                             ELSE raced     \* mutant: no event vetoes the snapshot
Note(what) == raced' = IF snap = "idle" THEN raced ELSE raced \cup {what}

HearField(f) ==
  /\ Hear(f) /\ Note(f)
  /\ mirror' = [mirror EXCEPT ![f] = Head1.v]
  /\ UNCHANGED <<ptydVars, waits, link, timer, snap, held, jobVars, histVars>>

HearExit ==
  /\ Hear("exit") /\ Note("exit")
  /\ mirror' = Blank /\ timer' = "off"
  /\ UNCHANGED <<ptydVars, waits, link, snap, held, jobVars, histVars>>

(* markBusy.  The first tick of a spell starts the warm-up, a later one    *)
(* ends it; every tick starts the timer anew.  One that is taken for the   *)
(* echo of typing counts for nothing, or keeps a spell alive.              *)
HearTick ==
  /\ Hear("tick")
  /\ \/ UNCHANGED mirrorVars
     \/ /\ ~mirror.busy /\ timer = "off" /\ timer' = "warm" /\ UNCHANGED mirror
     \/ /\ ~mirror.busy /\ timer = "warm" /\ timer' = "on"
        /\ mirror' = [mirror EXCEPT !.busy = TRUE]
     \/ /\ mirror.busy /\ timer' = "on" /\ UNCHANGED mirror
  /\ UNCHANGED <<ptydVars, waits, link, snapVars, jobVars, histVars>>

HearKilled ==
  /\ Hear("killed") /\ back' = (job # "idle")
  /\ UNCHANGED <<ptydVars, waits, link, mirrorVars, snapVars, job, histVars>>

HearSnapshot ==
  /\ Hear("decos") /\ snap' = "here" /\ held' = Head1.v
  /\ UNCHANGED <<ptydVars, waits, link, mirrorVars, raced, jobVars, histVars>>

Receive == \/ \E f \in Fields : HearField(f)
           \/ HearExit \/ HearTick \/ HearKilled \/ HearSnapshot

(* The timer of a spell.                                                   *)
Quiet ==
  /\ Calm /\ timer # "off" /\ timer' = "off"
  /\ mirror' = [mirror EXCEPT !.busy = FALSE]
  /\ UNCHANGED <<ptydVars, waits, link, wire, snapVars, jobVars, histVars>>

-----------------------------------------------------------------------------
(* The server: connecting, and the snapshot *)

Kept_Pane(f, v) == IF raced \cap Fields # {} THEN mirror[f] ELSE v   \* mutant: all or nothing
Kept(f, v) == IF f \in raced THEN mirror[f] ELSE v

Vetoed == "exit" \in raced

(* A pane that ptyd has: each field that was not announced meanwhile.      *)
Refreshed == [mirror EXCEPT !.title = Kept("title", held.title), !.fg = Kept("fg", held.fg),
                            !.bell = Kept("bell", held.bell)]

(* A pane that ptyd has not.                                               *)
Washed_Fields == [title |-> Kept("title", Null), fg |-> Kept("fg", Null),
                  bell |-> Kept("bell", FALSE), busy |-> mirror.busy]   \* mutant
Washed == [title |-> Kept("title", Null), fg |-> Kept("fg", Null),
           bell |-> Kept("bell", FALSE), busy |-> FALSE]
WashTimer == \/ timer' = "off"
             \/ Washed = mirror /\ UNCHANGED timer  \* nothing defined to wash out

ApplySnapshot ==
  /\ snap = "here" /\ snap' = "idle" /\ held' = Null /\ raced' = {}
  /\ CASE Vetoed                  -> UNCHANGED mirrorVars
       [] ~Vetoed /\ held # Null -> mirror' = Refreshed /\ UNCHANGED timer
       [] ~Vetoed /\ held = Null -> mirror' = Washed /\ WashTimer
  /\ UNCHANGED <<ptydVars, waits, link, wire, jobVars, histVars>>

Connect ==
  /\ Calm /\ ~link /\ link' = TRUE
  /\ snap' = "asked" /\ raced' = {}
  /\ UNCHANGED <<ptydVars, waits, wire, mirrorVars, held, jobVars, histVars>>

(* The link goes: frames are lost, and calls fail, the snapshot's too.     *)
Unlinks == /\ link' = FALSE /\ wire' = <<>> /\ waits' = FALSE
           /\ snap' = "idle" /\ held' = Null /\ raced' = {}
           /\ faults' = faults + 1

LinkDrops ==
  /\ Calm /\ link /\ faults < MaxFaults /\ Unlinks
  /\ back' = (job # "idle")
  /\ UNCHANGED <<ptydVars, mirrorVars, job, slipped>>

(* ptyd dies with its shells: nobody is told.                              *)
PtydRestarts ==
  /\ Calm /\ faults < MaxFaults /\ Unlinks
  /\ run' = "none" /\ own' = Newborn /\ fg' = Null /\ ps' = "idle" /\ said' = Silent
  /\ slipped' = FALSE /\ back' = (job # "idle")
  /\ UNCHANGED <<mirrorVars, job>>

ServerRestarts ==
  /\ faults < MaxFaults /\ Unlinks
  /\ mirror' = Blank /\ timer' = "off" /\ job' = "idle" /\ back' = FALSE
  /\ UNCHANGED <<ptydVars, slipped>>

-----------------------------------------------------------------------------
(* The server: requests *)

(* killPane for a pane that is to be parked: nothing follows the kill.     *)
Park ==
  /\ Calm /\ link /\ run = "live" /\ run' = "dying"
  /\ UNCHANGED <<own, fg, ps, said, waits, link, wire, mirrorVars, snapVars, jobVars, histVars>>

(* killPane for a pane that is to be closed, converted or respawned.       *)
Ask(what) ==
  /\ Calm /\ job = "idle" /\ job' = what
  /\ CASE ~link                    -> back' = TRUE /\ UNCHANGED <<run, waits, wire>>
       [] link /\ run = "none"     -> /\ Send(<<Frame("killed", Null)>>)
                                      /\ UNCHANGED <<run, waits, back>>
       [] link /\ run # "none"     -> run' = "dying" /\ waits' = TRUE /\ UNCHANGED <<wire, back>>
  /\ UNCHANGED <<own, fg, ps, said, link, mirrorVars, snapVars, histVars>>

(* Answered or not, the entry is forgotten; a respawn goes on to ensure.   *)
GoesOn ==
  /\ back /\ back' = FALSE /\ job' = "idle"
  /\ mirror' = Blank /\ timer' = "off"
  /\ slipped' = (slipped \/ (link /\ run # "none" /\ [mirror EXCEPT !.busy = FALSE] # Blank))
  /\ IF job = "respawn" /\ link /\ run = "none" THEN Spawned ELSE UNCHANGED <<run, own>>
  /\ UNCHANGED <<fg, ps, said, waits, link, wire, snapVars, faults>>

-----------------------------------------------------------------------------
(* The server comes up beside a ptyd that may have lived on: its pane runs *)
(* and has been announced to a server before, up to the last poll.         *)
Init ==
  /\ \/ run = "none" /\ own = Newborn /\ fg = Null /\ said = Silent
     \/ /\ run = "live" /\ fg \in {Null} \cup Cmds
        /\ own \in [title : {Null} \cup Titles, bell : BOOLEAN]
        /\ \/ said \in [title : {Null} \cup Titles, fg : {fg}, bell : {own.bell}]
           \/ said = Silent /\ fg = Null /\ ~own.bell
  /\ ps = "idle" /\ waits = FALSE /\ link = FALSE /\ wire = <<>>
  /\ mirror = Blank /\ timer = "off"
  /\ snap = "idle" /\ held = Null /\ raced = {} /\ job = "idle" /\ back = FALSE
  /\ faults = 0 /\ slipped = FALSE

Server == Receive \/ ApplySnapshot \/ Connect \/ GoesOn \/ Quiet
Ptyd   == TakeSnapshot \/ PollBegins \/ PollEnds

Next ==
  \/ Server \/ Ptyd \/ Ensure \/ Output \/ Exits \/ KillTimesOut \/ Park
  \/ \E on \in BOOLEAN : Bell(on)
  \/ \E t \in Titles : Retitle(t)
  \/ \E what \in {"close", "respawn"} : Ask(what)
  \/ LinkDrops \/ PtydRestarts \/ ServerRestarts

Spec == Init /\ [][Next]_vars

-----------------------------------------------------------------------------
(* Properties *)

Pictures == [title : {Null} \cup Titles, fg : {Null} \cup Cmds, bell : BOOLEAN]
Frames == [what : {"title"}, v : {Null} \cup Titles] \cup [what : {"fg"}, v : {Null} \cup Cmds]
          \cup [what : {"bell"}, v : BOOLEAN] \cup [what : {"exit", "tick", "killed"}, v : {Null}]
          \cup [what : {"decos"}, v : {Null} \cup Pictures]

TypeOK ==
  /\ run \in {"none", "live", "dying"}
  /\ own \in [title : {Null} \cup Titles, bell : BOOLEAN] /\ fg \in {Null} \cup Cmds
  /\ ps \in {"idle", Null} \cup Cmds
  /\ said \in [title : {Null, Unset} \cup Titles, fg : {Null, Unset} \cup Cmds,
               bell : {Unset} \cup BOOLEAN]
  /\ waits \in BOOLEAN /\ link \in BOOLEAN
  /\ wire \in Seq(Frames) /\ Len(wire) <= MaxWire
  /\ mirror \in [title : {Null} \cup Titles, fg : {Null} \cup Cmds, bell : BOOLEAN,
                 busy : BOOLEAN]
  /\ timer \in {"off", "warm", "on"}
  /\ snap \in {"idle", "asked", "taken", "here"} /\ held \in {Null} \cup Pictures
  /\ raced \subseteq Fields \cup {"exit"}
  /\ job \in {"idle", "close", "respawn"} /\ back \in BOOLEAN
  /\ faults \in 0 .. MaxFaults /\ slipped \in BOOLEAN

(* Nothing is on its way between ptyd and the cache.                       *)
Settled == link /\ wire = <<>> /\ snap = "idle" /\ ~back

Rings == run # "none" /\ own.bell

(* The red dot is true whenever nothing is under way: over reconnects,     *)
(* restarts of either side, exits and respawns, and whatever the snapshot  *)
(* crossed on its way; except after a kill by force or a forgotten pane.   *)
BellMirrored == Settled /\ ~slipped => mirror.bell = Rings

(* The foreground command shown is the one ptyd has, once it has said so;  *)
(* nothing is shown of a pane ptyd does not have, for no event will ever   *)
(* come to correct it.                                                     *)
CommandMirrored ==
  Settled /\ ~slipped =>
    /\ run # "none" /\ said.fg = fg => mirror.fg = fg
    /\ run = "none" => mirror.title = Null /\ mirror.fg = Null

(* A spinner has the timer that ends it: what blanks an entry stops the    *)
(* timer with it, and a prune or a refresh leaves no spinner behind.       *)
SpinnerIsTimed == mirror.busy => timer = "on"
=============================================================================
