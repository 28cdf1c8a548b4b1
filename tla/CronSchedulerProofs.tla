------------------------- MODULE CronSchedulerProofs -------------------------
(***************************************************************************)
(* Theorems about CronScheduler, for any number of crons of any policy,     *)
(* any schedules, jitter, bounds and clock, and any number of acts and      *)
(* faults: slots are fired once and none is lost, fires and tabs do not     *)
(* pile up.                                                                 *)
(***************************************************************************)
EXTENDS CronScheduler, FiniteSetTheorems, NaturalsInduction, TLAPS

(* What a job is in each of its phases.  It was at work by now, and what it *)
(* fires was due, before the jitter.                                        *)
PassJob == [phase : {"rows"}, at : Nat, todo : SUBSET Crons]
FireJob == [phase : {"fire", "carry", "tab", "anchor"}, at : Nat, todo : SUBSET Crons,
            cron : Crons, jit : Nat, slots : SUBSET Nat, open : SUBSET Tabs,
            tab : Tabs \cup {0}]

At(a, c) == jobs[a].phase \in {"fire", "carry", "tab", "anchor"} /\ jobs[a].cron = c

JobOK(p) ==
  \/ p = NoJob
  \/ p \in PassJob /\ p.at <= now
  \/ /\ p \in FireJob /\ p.at <= now /\ p.jit <= p.at
     /\ p.phase = "tab" => p.tab \in Tabs
     /\ p.phase = "carry" => pol[p.cron].rotate

JobsHold == /\ jobs \in [Actors -> {NoJob} \cup PassJob \cup FireJob]
            /\ \A a \in Actors : JobOK(jobs[a])

(* A row is due at a slot of its schedule, and its jitter.                  *)
RowOf == [live : BOOLEAN, enabled : BOOLEAN, sched : Intervals, streak : Nat,
          due : Nat, open : SUBSET Tabs]

Armed(c, r) == LET x == r.due - Jitter(c, r.sched)
               IN  r \in RowOf /\ x \in Nat /\ x % r.sched = 0

RowsHold == row \in [Crons -> RowOf] /\ \A c \in Crons : Armed(c, row[c])

TypeInv == TypeOK /\ JobsHold /\ RowsHold /\ closeOn[Main] = None

(* Only the tick walks rows and anchors them.                               *)
HandsOff == jobs[ByHand].phase \notin {"rows", "anchor"}

(* Every slot of a row since its anchor is settled, or in the hands of the  *)
(* tick.                                                                    *)
Upto(r, b, m, S) == \A x \in Int : b < x /\ x <= m /\ x % r.sched = 0 => x \in S

RowSettled(c) ==
  row[c].live => Upto(row[c], base[c], row[c].due - Jitter(c, row[c].sched) - 1, seen[c])

JobSettled(a, c) ==
  At(a, c) =>
    /\ row[c].live => Upto(row[c], base[c], jobs[a].at - jobs[a].jit, seen[c] \cup jobs[a].slots)
    /\ jobs[a].phase = "anchor" => jobs[a].slots = {}

Settled ==
  /\ base \in [Crons -> Nat] /\ DOMAIN seen = Crons
  /\ \A c \in Crons : RowSettled(c) /\ \A a \in Ticks : JobSettled(a, c)

(* What was fired of an armed row lies before the slot it is due at.        *)
Before(c) ==
  row[c].live /\ row[c].enabled =>
    \A x \in fired[c] : x + Jitter(c, row[c].sched) < row[c].due

OnePass == \A a, b \in Ticks : Busy(a) /\ Busy(b) => a = b

(* A job has not fired the slots it holds, and they were due.  It defers    *)
(* its fire only before it fired anything.                                  *)
Unfired(a, c) ==
  At(a, c) =>
    /\ \A x \in jobs[a].slots \cup fired[c] : x <= jobs[a].at - jobs[a].jit
    /\ jobs[a].slots \cap fired[c] = {}
    /\ jobs[a].phase = "anchor" <=> jobs[a].slots = {}
    /\ jobs[a].phase # "anchor" /\ pol[c].catchup # "all" => Before(c)
    /\ jobs[a].phase = "fire" /\ ~pol[c].tab /\ pol[c].quiet => Before(c) \/ ~InQuiet(jobs[a].at)
    /\ jobs[a].phase \in {"carry", "tab"} => pol[c].tab \/ pol[c].rotate

Once ==
  /\ DOMAIN fired = Crons /\ \A c \in Crons : \A x \in fired[c] : x \in Nat /\ x <= now
  /\ OnePass
  /\ \A a \in Ticks, c \in Crons : Unfired(a, c)
  /\ \A c \in Crons : (\A a \in Ticks : ~At(a, c)) => Before(c)
  /\ ~again

(* No cron both catches up on all it missed, waits for quiet hours to end   *)
(* and rotates: a deferral in the middle of its catch-up would start over.  *)
NoneStartsOver ==
  \A p \in Policies : ~(p.catchup = "all" /\ p.quiet /\ p.rotate)

(* The fires of cron c in a pane, with queue q, turn t, the fire n the      *)
(* server knows of, k that it is connected, b that it lost sight of a turn: *)
(* one is queued, or the server knows of the one that runs.                 *)
In(q, c) == \E i \in 1 .. Len(q) : q[i] = c
Single(q, c) == \A i, j \in 1 .. Len(q) : q[i] = c /\ q[j] = c => i = j
OneFire(q, t, n, k, b, c) ==
  /\ Single(q, c)
  /\ ~b /\ t = c => n = c /\ k /\ ~In(q, c)

Skips(c) == pol[c].skip /\ ~pol[c].tab
SkipsHold ==
  /\ blind \in BOOLEAN
  /\ \A c \in Crons : Skips(c) =>
       OneFire(queue[Main], turn[Main], inflight, conn[Main], blind, c)

(* Tabs are on the list of their cron, but for one a fire is opening and    *)
(* those that are excused; the list a fire read, with the tab it opens, is  *)
(* short of none but those.                                                 *)
Within(own, open, x, n) ==
  IsFiniteSet(own) /\ IsFiniteSet(open) /\ Cardinality(own \ open) <= x + n

Owned(c) == {t \in Tabs : owner[t] = c}
Pending(c) == IF OpeningFor(c) = {} THEN 0 ELSE 1

Listed(c) ==
  row[c].live =>
    /\ Within(Owned(c), row[c].open, extra[c], Pending(c))
    /\ \A a \in OpeningFor(c) :
         Within(Owned(c), jobs[a].open \cup {jobs[a].tab}, extra[c], 0)
    /\ Within(Owned(c), {}, MaxOpen + extra[c], 0)

TabsHold == extra \in [Crons -> Nat] /\ \A c \in Crons : Listed(c)

-----------------------------------------------------------------------------
(* The schedule                                                             *)

LEMMA AfterIs ==
  ASSUME NEW s \in Nat \ {0}, NEW t \in Nat
  PROVE  /\ After(s, t) \in Nat /\ t < After(s, t) /\ After(s, t) % s = 0
         /\ \A x \in Int : x % s = 0 /\ t < x => After(s, t) <= x
<1> DEFINE q == t \div s
<1>1. q \in Nat /\ q * s <= t /\ t < (q + 1) * s
  OBVIOUS
<1>2. \A k \in Int : (k * s) % s = 0
  OBVIOUS
<1>3. ASSUME NEW x \in Int, x % s = 0, t < x
      PROVE  (q + 1) * s <= x
  <2>1. PICK m \in Int : x = m * s
    BY <1>3
  <2>2. m > q
    <3> HIDE DEF q
    <3>1. CASE m <= q
      <4>1. q \in Nat /\ s \in Nat /\ m * s <= q * s
        BY <3>1, <1>1
      <4> QED  BY <4>1, <2>1, <1>3, <1>1
    <3> QED  BY <3>1, <1>1
  <2>3. m >= q + 1
    BY <2>2, <1>1
  <2> HIDE DEF q
  <2> QED  BY <2>3, <2>1, <1>1
<1>4. (q + 1) \in Nat /\ (q + 1) * s \in Nat
  <2> HIDE DEF q
  <2> QED  BY <1>1
<1>5. After(s, t) = (q + 1) * s
  BY DEF After
<1> HIDE DEF q
<1> QED  BY <1>1, <1>2, <1>3, <1>4, <1>5

LEMMA JitterIs ==
  ASSUME NEW c \in Crons, NEW s \in Intervals
  PROVE  s \in Nat \ {0} /\ Jitter(c, s) \in Nat
<1>1. s \in Nat \ {0} /\ Hash[c] \in Nat
  BY CronAssumption
<1>2. CASE s < 2
  BY <1>1, <1>2 DEF Jitter
<1>3. CASE ~ (s < 2)
  <2>1. s \div 2 \in Nat \ {0}
    BY <1>1, <1>3
  <2>2. Hash[c] % (s \div 2) \in Nat
    BY <1>1, <2>1
  <2> QED  BY <1>1, <1>3, <2>2 DEF Jitter
<1> QED  BY <1>2, <1>3

LEMMA NextIs ==
  ASSUME NEW c \in Crons, NEW s \in Intervals, NEW t \in Nat
  PROVE  /\ NextFire(c, s, t) \in Nat
         /\ NextFire(c, s, t) - Jitter(c, s) = After(s, t)
BY JitterIs, AfterIs DEF NextFire

(* A set of integers with a bound has its least and its greatest.           *)
LEMMA LeastNatural ==
  ASSUME NEW T \in SUBSET Nat, T # {}
  PROVE  \E x \in T : \A y \in T : x <= y
<1>1. PICK x \in T : \A y \in T : <<y, x>> \notin OpToRel(<, Nat)
  BY NatLessThanWellFounded, WFMin
<1>2. \A y \in T : ~ (y < x)
  BY <1>1 DEF OpToRel
<1> QED  BY <1>2

LEMMA MinIs ==
  ASSUME NEW b \in Int, NEW S \in SUBSET Int, S # {}, \A x \in S : b <= x
  PROVE  Min(S) \in S /\ \A y \in S : Min(S) <= y
<1> DEFINE T == {x - b : x \in S}
<1>1. T \in SUBSET Nat /\ T # {}
  <2>1. \A x \in S : x - b \in Nat
    OBVIOUS
  <2>2. T \in SUBSET Nat
    BY <2>1
  <2>3. T # {}
    OBVIOUS
  <2> QED  BY <2>2, <2>3
<1>2. PICK m \in T : \A y \in T : m <= y
  <2> HIDE DEF T
  <2> QED  BY <1>1, LeastNatural
<1>3. PICK x \in S : m = x - b
  BY <1>2
<1>4. \A y \in S : x <= y
  <2>1. \A y \in S : y - b \in T
    OBVIOUS
  <2> HIDE DEF T
  <2> QED  BY <2>1, <1>2, <1>3
<1> QED  BY <1>4 DEF Min

LEMMA MaxIs ==
  ASSUME NEW b \in Int, NEW S \in SUBSET Int, S # {}, \A x \in S : x <= b
  PROVE  Max(S) \in S /\ \A y \in S : y <= Max(S)
<1> DEFINE T == {b - x : x \in S}
<1>1. T \in SUBSET Nat /\ T # {}
  <2>1. \A x \in S : b - x \in Nat
    OBVIOUS
  <2>2. T \in SUBSET Nat
    BY <2>1
  <2>3. T # {}
    OBVIOUS
  <2> QED  BY <2>2, <2>3
<1>2. PICK m \in T : \A y \in T : m <= y
  <2> HIDE DEF T
  <2> QED  BY <1>1, LeastNatural
<1>3. PICK x \in S : m = b - x
  BY <1>2
<1>4. \A y \in S : y <= x
  <2>1. \A y \in S : b - y \in T
    OBVIOUS
  <2> HIDE DEF T
  <2> QED  BY <2>1, <1>2, <1>3
<1> QED  BY <1>4 DEF Max

-----------------------------------------------------------------------------
(* Rows                                                                     *)
(* A row keeps when it is due, on which schedule, and whether it is there.  *)
Like(q, r) == q.live = r.live /\ q.sched = r.sched /\ q.due = r.due

LEMMA RecordedIs ==
  ASSUME NEW c \in Crons, NEW r, Armed(c, r), NEW res, NEW h \in BOOLEAN
  PROVE  LET q == Recorded(r, res, h)
         IN  Armed(c, q) /\ Like(q, r) /\ q.open = r.open /\ (q.enabled => r.enabled)
<1> DEFINE n == IF Failed(res) THEN r.streak + 1 ELSE 0
           e == r.enabled /\ res # "gone" /\ (h \/ ~Failed(res) \/ n < FailLimit)
           q == Recorded(r, res, h)
<1>1. r \in RowOf
  BY DEF Armed
<1>2. n \in Nat /\ e \in BOOLEAN
  BY <1>1 DEF RowOf
<1>3. q = [r EXCEPT !.streak = n, !.enabled = e]
  BY <1>1 DEF Recorded, RowOf
<1>4. e => r.enabled
  OBVIOUS
<1> HIDE DEF n, e, q
<1>5. q \in RowOf
  BY <1>1, <1>2, <1>3 DEF RowOf
<1>6. q.due = r.due /\ q.sched = r.sched /\ q.open = r.open
  BY <1>1, <1>2, <1>3 DEF RowOf
<1>7. q.live = r.live
  BY <1>1, <1>2, <1>3 DEF RowOf
<1>8. q.enabled = e
  BY <1>1, <1>2, <1>3 DEF RowOf
<1> QED  BY <1>4, <1>5, <1>6, <1>7, <1>8 DEF Armed, Like, q

LEMMA OpenSet ==
  ASSUME NEW c \in Crons, NEW r, Armed(c, r), NEW O \in SUBSET Tabs
  PROVE  LET q == [r EXCEPT !.open = O]
         IN  Armed(c, q) /\ Like(q, r) /\ q.enabled = r.enabled /\ q.open = O
<1> DEFINE q == [r EXCEPT !.open = O]
<1>1. r \in RowOf
  BY DEF Armed
<1>2. q \in RowOf
  BY <1>1 DEF RowOf
<1>3. q.due = r.due /\ q.sched = r.sched /\ q.open = O
  BY <1>1 DEF RowOf
<1>4. q.live = r.live
  BY <1>1 DEF RowOf
<1>5. q.enabled = r.enabled
  BY <1>1 DEF RowOf
<1> HIDE DEF q
<1> QED  BY <1>2, <1>3, <1>4, <1>5 DEF Armed, Like, q

LEMMA RowDeleted ==
  ASSUME NEW c \in Crons, NEW r, Armed(c, r)
  PROVE  LET q == [r EXCEPT !.live = FALSE, !.open = {}]
         IN  Armed(c, q) /\ ~q.live /\ q.due = r.due /\ q.sched = r.sched /\ q.open = {}
<1> DEFINE q == [r EXCEPT !.live = FALSE, !.open = {}]
<1>1. r \in RowOf
  BY DEF Armed
<1>2. q \in RowOf
  BY <1>1 DEF RowOf
<1>3. q.due = r.due /\ q.sched = r.sched /\ q.open = {}
  BY <1>1 DEF RowOf
<1>4. ~q.live
  BY <1>1 DEF RowOf
<1> HIDE DEF q
<1> QED  BY <1>2, <1>3, <1>4 DEF Armed, q

LEMMA RowOff ==
  ASSUME NEW c \in Crons, NEW r, Armed(c, r), NEW q \in {RetireOnce(r), Enabled(c, r, FALSE)}
  PROVE  Armed(c, q) /\ Like(q, r) /\ ~q.enabled /\ q.open = r.open
<1>1. r \in RowOf /\ q = [r EXCEPT !.enabled = FALSE]
  BY DEF Armed, RetireOnce, Enabled
<1>2. q \in RowOf
  BY <1>1 DEF RowOf
<1>3. q.due = r.due /\ q.sched = r.sched /\ q.open = r.open
  BY <1>1 DEF RowOf
<1>4. ~q.enabled
  BY <1>1 DEF RowOf
<1>5. q.live = r.live
  BY <1>1 DEF RowOf
<1> QED  BY <1>2, <1>3, <1>4, <1>5 DEF Armed, Like

(* A new anchor is the first slot after the time it is taken at.            *)
Moved(c, q, r, t) == /\ Armed(c, q) /\ q.live = r.live /\ q.open = r.open
                     /\ q.due - Jitter(c, q.sched) = After(q.sched, t)

LEMMA RowMoved ==
  ASSUME NEW c \in Crons, NEW r, Armed(c, r), NEW t \in Nat
  PROVE  LET q == [r EXCEPT !.due = NextFire(c, r.sched, t)]
         IN  Moved(c, q, r, t) /\ q.sched = r.sched /\ q.enabled = r.enabled
<1> DEFINE q == [r EXCEPT !.due = NextFire(c, r.sched, t)]
<1>1. r \in RowOf /\ r.sched \in Intervals
  BY DEF Armed, RowOf
<1>2. NextFire(c, r.sched, t) \in Nat
      /\ NextFire(c, r.sched, t) - Jitter(c, r.sched) = After(r.sched, t)
      /\ After(r.sched, t) \in Nat /\ After(r.sched, t) % r.sched = 0
  BY <1>1, NextIs, AfterIs, JitterIs
<1>3. q \in RowOf
  BY <1>1, <1>2 DEF RowOf
<1>4. q.due = NextFire(c, r.sched, t) /\ q.sched = r.sched /\ q.open = r.open
  BY <1>1 DEF RowOf
<1>5. q.live = r.live
  BY <1>1 DEF RowOf
<1>6. q.enabled = r.enabled
  BY <1>1 DEF RowOf
<1> HIDE DEF q
<1> QED  BY <1>2, <1>3, <1>4, <1>5, <1>6 DEF Armed, Moved, q

LEMMA EnabledIs ==
  ASSUME NEW c \in Crons, NEW r, Armed(c, r), now \in Nat
  PROVE  Moved(c, Enabled(c, r, TRUE), r, now) /\ Enabled(c, r, TRUE).sched = r.sched
<1> DEFINE q == Enabled(c, r, TRUE)
<1>1. /\ r \in RowOf /\ r.sched \in Intervals
      /\ q = [r EXCEPT !.enabled = TRUE, !.streak = 0, !.due = NextFire(c, r.sched, now)]
  BY DEF Armed, RowOf, Enabled
<1>2. NextFire(c, r.sched, now) \in Nat
      /\ NextFire(c, r.sched, now) - Jitter(c, r.sched) = After(r.sched, now)
      /\ After(r.sched, now) \in Nat /\ After(r.sched, now) % r.sched = 0
  BY <1>1, NextIs, AfterIs, JitterIs
<1> HIDE DEF q
<1>3. q \in RowOf
  BY <1>1, <1>2 DEF RowOf
<1>4. q.due = NextFire(c, r.sched, now) /\ q.sched = r.sched /\ q.open = r.open
  BY <1>1, <1>2 DEF RowOf
<1>5. q.live = r.live
  BY <1>1 DEF RowOf
<1> QED  BY <1>2, <1>3, <1>4, <1>5 DEF Armed, Moved, q

LEMMA RescheduleIs ==
  ASSUME NEW c \in Crons, NEW r, Armed(c, r), now \in Nat, NEW s \in Intervals
  PROVE  Moved(c, Reschedule(c, r, s), r, now)
<1> DEFINE q == Reschedule(c, r, s)
<1>1. r \in RowOf /\ q = [r EXCEPT !.sched = s, !.due = NextFire(c, s, now)]
  BY DEF Armed, Reschedule
<1>2. NextFire(c, s, now) \in Nat
      /\ NextFire(c, s, now) - Jitter(c, s) = After(s, now)
      /\ After(s, now) \in Nat /\ After(s, now) % s = 0
  BY NextIs, AfterIs, JitterIs
<1> HIDE DEF q
<1>3. q \in RowOf
  BY <1>1, <1>2 DEF RowOf
<1>4. q.due = NextFire(c, s, now) /\ q.sched = s /\ q.open = r.open
  BY <1>1, <1>2 DEF RowOf
<1>5. q.live = r.live
  BY <1>1 DEF RowOf
<1> QED  BY <1>2, <1>3, <1>4, <1>5 DEF Armed, Moved, q

(* The anchor after a fire.                                                 *)
LEMMA AnchoredIs ==
  ASSUME NEW c \in Crons, NEW r, Armed(c, r), NEW p, p.at - p.jit \in Nat
  PROVE  LET q == Anchored(c, r, p)
         IN  /\ Armed(c, q) /\ q.live = r.live /\ q.open = r.open /\ q.sched = r.sched
             /\ \/ q.due = r.due /\ ~q.enabled
                \/ q.due - Jitter(c, q.sched) = After(q.sched, p.at - p.jit)
<1>1. CASE pol[c].once
  <2>1. Anchored(c, r, p) = RetireOnce(r)
    BY <1>1 DEF Anchored
  <2> QED  BY <2>1, RowOff DEF Like
<1>2. CASE ~pol[c].once
  <2>1. Anchored(c, r, p) = [r EXCEPT !.due = NextFire(c, r.sched, p.at - p.jit)]
    BY <1>2 DEF Anchored
  <2> QED  BY <2>1, RowMoved DEF Moved
<1> QED  BY <1>1, <1>2

-----------------------------------------------------------------------------
(* Types                                                                    *)
PanesOK ==
  /\ owner \in [Panes -> Crons \cup {Human, None}]
  /\ queue \in [Panes -> Seq(Crons \cup {Human})]
  /\ inflight \in Crons \cup {None}
  /\ closeOn \in [Panes -> Crons \cup {None}] /\ closeOn[Main] = None
  /\ closing \subseteq Tabs
  /\ dead \in BOOLEAN /\ conn \in [Panes -> BOOLEAN]
  /\ turn \in [Panes -> Crons \cup {Human, None}]
  /\ human \in Nat \cup {None}

Types == /\ pol \in [Crons -> Policies] /\ now \in Times \cup {0}
         /\ PanesOK /\ JobsHold /\ RowsHold

LEMMA TypesAre == TypeInv <=> Types
<1>1. JobsHold => DOMAIN jobs = Actors
  BY DEF JobsHold
<1> QED  BY <1>1 DEF TypeInv, TypeOK, Types, PanesOK, RowsHold, RowOf

LEMMA NowIs == Types => now \in Nat
BY CronAssumption DEF Types

LEMMA InitTypes == Init => Types
<1> SUFFICES ASSUME Init
             PROVE  Types
  OBVIOUS
<1>1. PanesOK
  <2>1. /\ owner = [p \in Panes |-> IF p = Main THEN Human ELSE None] /\ queue = [p \in Panes |-> <<>>]
        /\ inflight = None /\ closeOn = [p \in Panes |-> None] /\ closing = {}
        /\ dead = FALSE /\ conn = [p \in Panes |-> p = Main] /\ turn = [p \in Panes |-> None]
        /\ human = None
    BY DEF Init
  <2>2. owner \in [Panes -> Crons \cup {Human, None}]
    BY <2>1
  <2>3. queue \in [Panes -> Seq(Crons \cup {Human})]
    BY <2>1
  <2>4. closeOn \in [Panes -> Crons \cup {None}] /\ turn \in [Panes -> Crons \cup {Human, None}]
    BY <2>1
  <2>5. conn \in [Panes -> BOOLEAN]
    BY <2>1
  <2>6. closeOn[Main] = None
    BY <2>1 DEF Panes
  <2> QED  BY <2>1, <2>2, <2>3, <2>4, <2>5, <2>6 DEF PanesOK
<1>2. JobsHold
  <2>1. \A a \in Actors : jobs[a] = NoJob
    BY DEF Init
  <2>2. JobOK(NoJob)
    BY DEF JobOK
  <2>3. jobs \in [Actors -> {NoJob} \cup PassJob \cup FireJob]
    BY DEF Init
  <2> HIDE DEF NoJob
  <2> QED  BY <2>1, <2>2, <2>3 DEF JobsHold
<1>3. RowsHold
  <2>1. PICK s \in Intervals, on \in BOOLEAN :
               row = [c \in Crons |-> [live |-> TRUE, enabled |-> on, sched |-> s, streak |-> 0,
                                       due |-> NextFire(c, s, 0), open |-> {}]]
    BY DEF Init
  <2>2. ASSUME NEW c \in Crons
        PROVE  Armed(c, row[c])
    <3>1. NextFire(c, s, 0) \in Nat /\ NextFire(c, s, 0) - Jitter(c, s) = After(s, 0)
          /\ After(s, 0) \in Nat /\ After(s, 0) % s = 0
      <4>1. 0 \in Nat /\ s \in Intervals /\ c \in Crons /\ s \in Nat \ {0}
        BY JitterIs
      <4>2. NextFire(c, s, 0) \in Nat /\ NextFire(c, s, 0) - Jitter(c, s) = After(s, 0)
        BY <4>1, NextIs
      <4>3. After(s, 0) \in Nat /\ After(s, 0) % s = 0
        BY <4>1, AfterIs
      <4> QED  BY <4>2, <4>3
    <3>2. row[c] = [live |-> TRUE, enabled |-> on, sched |-> s, streak |-> 0,
                    due |-> NextFire(c, s, 0), open |-> {}]
      BY <2>1
    <3>3. row[c] \in RowOf
      BY <3>1, <3>2 DEF RowOf
    <3>4. row[c].due = NextFire(c, s, 0) /\ row[c].sched = s
      BY <3>2
    <3> QED  BY <3>1, <3>3, <3>4 DEF Armed
  <2>3. \A c \in Crons : row[c] \in RowOf
    BY <2>2 DEF Armed
  <2>4. row \in [Crons -> RowOf]
    BY <2>1, <2>3
  <2> QED  BY <2>2, <2>4 DEF RowsHold
<1> QED  BY <1>1, <1>2, <1>3 DEF Init, Types

-----------------------------------------------------------------------------
(* Jobs                                                                     *)

LEMMA PhaseIs ==
  ASSUME NEW p, JobOK(p)
  PROVE  /\ p.phase = "none" => p = NoJob
         /\ p.phase = "rows" => p \in PassJob /\ p.at <= now
         /\ p.phase \in {"fire", "carry", "tab", "anchor"} =>
              /\ p \in FireJob /\ p.at <= now /\ p.jit <= p.at
              /\ p.cron \in Crons /\ p.at \in Nat /\ p.jit \in Nat /\ p.at - p.jit \in Nat
              /\ p.slots \in SUBSET Nat /\ p.todo \in SUBSET Crons
BY DEF JobOK, NoJob, PassJob, FireJob

LEMMA NoJobOK == JobOK(NoJob) /\ NoJob \in {NoJob} \cup PassJob \cup FireJob
BY DEF JobOK

LEMMA JobIn ==
  ASSUME NEW p, JobOK(p)
  PROVE  p \in {NoJob} \cup PassJob \cup FireJob
BY DEF JobOK

LEMMA PassOK ==
  ASSUME NEW t \in Nat, t <= now, NEW T \in SUBSET Crons
  PROVE  JobOK(Pass(t, T)) /\ Pass(t, T).phase = "rows" /\ Pass(t, T).at = t
BY DEF JobOK, Pass, PassJob

LEMMA RowsOK ==
  ASSUME NEW p, JobOK(p), p.phase \in {"fire", "carry", "tab", "anchor"}
  PROVE  JobOK(Rows(p)) /\ Rows(p).phase = "rows" /\ Rows(p).at = p.at
BY PhaseIs, PassOK DEF Rows

LEMMA FireIs ==
  ASSUME NEW p, NEW c, NEW j, NEW S
  PROVE  [Fire(p, c, j, S) EXCEPT !.phase = "fire"] = Fire(p, c, j, S)
BY DEF Fire

LEMMA JobSet ==
  ASSUME JobsHold, NEW a \in Actors, NEW p, JobOK(p), jobs' = Set(jobs, a, p),
         UNCHANGED <<now, pol>>
  PROVE  JobsHold' /\ jobs'[a] = p /\ \A b \in Actors \ {a} : jobs'[b] = jobs[b]
<1>1. jobs' = [jobs EXCEPT ![a] = p] /\ p \in {NoJob} \cup PassJob \cup FireJob
  BY JobIn DEF Set
<1>2. jobs \in [Actors -> {NoJob} \cup PassJob \cup FireJob] /\ \A b \in Actors : JobOK(jobs[b])
  BY DEF JobsHold
<1> DEFINE J == {NoJob} \cup PassJob \cup FireJob
<1> HIDE DEF J
<1>3. jobs' \in [Actors -> J] /\ jobs'[a] = p /\ \A b \in Actors \ {a} : jobs'[b] = jobs[b]
  BY <1>1, <1>2 DEF J
<1>4. \A b \in Actors : JobOK(jobs'[b])
  BY <1>2, <1>3
<1>5. \A q : JobOK(q) <=> \/ q = NoJob
                          \/ q \in PassJob /\ q.at <= now'
                          \/ /\ q \in FireJob /\ q.at <= now' /\ q.jit <= q.at
                             /\ q.phase = "tab" => q.tab \in Tabs
                             /\ q.phase = "carry" => pol'[q.cron].rotate
  BY DEF JobOK
<1>6. \A b \in Actors : JobOK(jobs[b])'
  BY <1>4, <1>5 DEF JobOK
<1> QED  BY <1>3, <1>6 DEF JobsHold, J

LEMMA JobsSame ==
  ASSUME JobsHold, UNCHANGED jobs, now' \in Nat, now \in Nat, now <= now', UNCHANGED pol
  PROVE  JobsHold'
<1>1. ASSUME NEW a \in Actors
      PROVE  JobOK(jobs[a])'
  <2>1. JobOK(jobs[a])
    BY DEF JobsHold
  <2>2. CASE jobs[a] = NoJob
    BY <2>2 DEF JobOK
  <2>3. CASE jobs[a] \in PassJob /\ jobs[a].at <= now
    <3>1. jobs[a].at <= now'
      BY <2>3 DEF PassJob
    <3> QED  BY <2>3, <3>1 DEF JobOK
  <2>4. CASE /\ jobs[a] \in FireJob /\ jobs[a].at <= now /\ jobs[a].jit <= jobs[a].at
             /\ jobs[a].phase = "tab" => jobs[a].tab \in Tabs
             /\ jobs[a].phase = "carry" => pol[jobs[a].cron].rotate
    <3>1. jobs[a].at <= now'
      BY <2>4 DEF FireJob
    <3> QED  BY <2>4, <3>1 DEF JobOK
  <2> QED  BY <2>1, <2>2, <2>3, <2>4 DEF JobOK
<1> QED  BY <1>1 DEF JobsHold

(* Rows                                                                     *)
LEMMA PutIs ==
  ASSUME RowsHold, NEW c \in Crons, NEW r, Armed(c, r), row' = Put(c, r)
  PROVE  /\ RowsHold' /\ \A d \in Crons \ {c} : row'[d] = row[d]
         /\ row'[c] = IF row[c].live THEN r ELSE row[c]
<1>1. row \in [Crons -> RowOf] /\ \A d \in Crons : Armed(d, row[d])
  BY DEF RowsHold
<1>2. r \in RowOf
  BY DEF Armed
<1>3. /\ row' \in [Crons -> RowOf] /\ \A d \in Crons \ {c} : row'[d] = row[d]
      /\ row'[c] = IF row[c].live THEN r ELSE row[c]
  <2>1. CASE row[c].live
    BY <2>1, <1>1, <1>2 DEF Put, Set
  <2>2. CASE ~row[c].live
    BY <2>2, <1>1, <1>2 DEF Put, Set
  <2> QED  BY <2>1, <2>2
<1>4. \A d \in Crons : Armed(d, row'[d])
  BY <1>1, <1>3
<1>5. \A d \in Crons : Armed(d, row[d])'
  BY <1>4 DEF Armed
<1> QED  BY <1>3, <1>5 DEF RowsHold

-----------------------------------------------------------------------------
(* A fire is recorded                                                       *)

\* The job after a verdict, and what the tick has settled.
JobAfter(a, res) ==
  LET p == jobs[a]
      rest == IF a = ByHand THEN {} ELSE p.slots \ Served(p.cron, p.slots)
  IN  IF a = ByHand THEN NoJob
      ELSE IF res = "deferred" THEN Rows(p)
      ELSE [Fire(p, p.cron, p.jit, rest) EXCEPT !.phase = IF rest = {} THEN "anchor" ELSE @]

LEMMA ActorIs == /\ ByHand \notin Ticks /\ Actors = Ticks \cup {ByHand}
                 /\ \A a \in Actors : a # ByHand <=> a \in Ticks
BY DEF Actors, Ticks, ByHand

LEMMA AfterFire ==
  ASSUME JobsHold, NEW a \in Actors, jobs[a].phase \in {"fire", "carry", "tab"}, NEW res
  PROVE  LET p == jobs[a]
             q == JobAfter(a, res)
             rest == p.slots \ Served(p.cron, p.slots)
         IN  /\ JobOK(q)
             /\ a = ByHand => q = NoJob
             /\ a # ByHand /\ res = "deferred" => q.phase = "rows"
             /\ a # ByHand /\ res # "deferred" =>
                  /\ q.phase = (IF rest = {} THEN "anchor" ELSE "fire")
                  /\ q.cron = p.cron /\ q.at = p.at /\ q.jit = p.jit /\ q.slots = rest
<1> DEFINE p == jobs[a]
           q == JobAfter(a, res)
           rest == p.slots \ Served(p.cron, p.slots)
           f == IF rest = {} THEN "anchor" ELSE "fire"
<1>1. /\ JobOK(p) /\ p \in FireJob /\ p.at <= now /\ p.jit <= p.at /\ p.jit \in Nat
      /\ p.cron \in Crons /\ p.at \in Nat /\ p.slots \in SUBSET Nat /\ p.todo \in SUBSET Crons
  BY PhaseIs DEF JobsHold
<1>2. CASE a = ByHand
  BY <1>2, NoJobOK DEF JobAfter
<1>3. CASE a # ByHand /\ res = "deferred"
  <2>1. q = Rows(p)
    BY <1>3 DEF JobAfter
  <2>2. JobOK(Rows(p)) /\ Rows(p).phase = "rows"
    BY <1>1, RowsOK
  <2> QED  BY <2>1, <2>2, <1>3
<1>4. CASE a # ByHand /\ res # "deferred"
  <2>1. q = [Fire(p, p.cron, p.jit, rest) EXCEPT !.phase = f]
    BY <1>4 DEF JobAfter, Fire
  <2>2. rest \in SUBSET Nat /\ f \in {"fire", "anchor"}
    BY <1>1
  <2> HIDE DEF rest, f, q, p
  <2>3. /\ JobOK(q) /\ q.phase = f /\ q.at = p.at /\ q.cron = p.cron /\ q.jit = p.jit
        /\ q.slots = rest
    BY <2>1, <2>2, <1>1 DEF JobOK, Fire, FireJob
  <2> QED  BY <2>3, <1>4 DEF rest, f, q, p
<1> QED  BY <1>2, <1>3, <1>4

LEMMA RecordStep ==
  ASSUME JobsHold, RowsHold, NEW a \in Actors, jobs[a].phase \in {"fire", "carry", "tab"},
         NEW r, NEW res, Armed(jobs[a].cron, r), Record(a, r, res), UNCHANGED <<now, pol>>
  PROVE  LET c == jobs[a].cron
             q == Recorded(r, res, a = ByHand)
         IN  /\ JobsHold' /\ RowsHold'
             /\ jobs'[a] = JobAfter(a, res) /\ \A b \in Actors \ {a} : jobs'[b] = jobs[b]
             /\ \A d \in Crons \ {c} : row'[d] = row[d]
             /\ row'[c] = IF row[c].live THEN q ELSE row[c]
             /\ Armed(c, q) /\ Like(q, r) /\ q.open = r.open /\ (q.enabled => r.enabled)
<1> DEFINE c == jobs[a].cron
           h == a = ByHand
           q == Recorded(r, res, h)
<1>1. c \in Crons
  BY PhaseIs DEF JobsHold
<1>2. Armed(c, q) /\ Like(q, r) /\ q.open = r.open /\ (q.enabled => r.enabled)
  <2>1. h \in BOOLEAN
    OBVIOUS
  <2> HIDE DEF h
  <2> QED  BY <1>1, <2>1, RecordedIs
<1>3. row' = Put(c, q)
  BY DEF Record
<1>4. jobs' = Set(jobs, a, JobAfter(a, res))
  BY DEF Record, JobAfter
<1>5. JobOK(JobAfter(a, res))
  BY AfterFire
<1>6. /\ JobsHold' /\ jobs'[a] = JobAfter(a, res)
      /\ \A b \in Actors \ {a} : jobs'[b] = jobs[b]
  BY <1>4, <1>5, JobSet
<1> HIDE DEF c, q
<1>7. /\ RowsHold' /\ \A d \in Crons \ {c} : row'[d] = row[d]
      /\ row'[c] = IF row[c].live THEN q ELSE row[c]
  BY <1>1, <1>2, <1>3, PutIs
<1> QED  BY <1>2, <1>6, <1>7 DEF c, q

-----------------------------------------------------------------------------
(* What each action does to jobs and rows                                   *)

LEMMA TypesGive ==
  ASSUME Types
  PROVE  /\ now \in Nat /\ JobsHold /\ RowsHold
         /\ \A c \in Crons : Armed(c, row[c]) /\ row[c] \in RowOf
BY NowIs DEF Types, RowsHold

LEMMA DueIs ==
  ASSUME NEW c \in Crons, NEW r, Armed(c, r), NEW t \in Nat, r.due <= t
  PROVE  LET j == Jitter(c, r.sched)
             S == FiresDue(r, j, t)
         IN  /\ S \in SUBSET Nat /\ S # {} /\ j \in Nat /\ j <= t
             /\ \A x \in Int : x \in S <=> r.due - j <= x /\ x <= t - j /\ x % r.sched = 0
<1> DEFINE j == Jitter(c, r.sched)
<1>1. /\ r.sched \in Nat \ {0} /\ r.due \in Nat /\ j \in Nat /\ r.due - j \in Nat
      /\ (r.due - j) % r.sched = 0
  BY JitterIs DEF Armed, RowOf
<1> HIDE DEF j
<1>2. r.due - j \in (r.due - j) .. (t - j)
  BY <1>1
<1>3. \A x \in Int : x \in FiresDue(r, j, t) <=> r.due - j <= x /\ x <= t - j /\ x % r.sched = 0
  BY <1>1 DEF FiresDue
<1>4. FiresDue(r, j, t) \in SUBSET Nat
  BY <1>1 DEF FiresDue
<1>5. FiresDue(r, j, t) # {}
  BY <1>1, <1>2 DEF FiresDue
<1> QED  BY <1>1, <1>3, <1>4, <1>5 DEF j

LEMMA RunDueStep ==
  ASSUME Types, NEW a \in Actors, NEW c \in Crons, RunDue(a, c)
  PROVE  LET p == [jobs[a] EXCEPT !.todo = @ \ {c}]
             r == row[c]
             t == jobs[a].at
             j == Jitter(c, r.sched)
             S == FiresDue(r, j, t)
         IN  /\ t \in Nat /\ t <= now /\ jobs[a].phase = "rows"
             /\ JobsHold' /\ RowsHold'
             /\ \A b \in Actors \ {a} : jobs'[b] = jobs[b]
             /\ \/ /\ jobs'[a].phase = "rows" /\ jobs'[a].at = t /\ UNCHANGED <<row, seen>>
                \/ /\ r.live /\ r.enabled /\ r.due <= t
                   /\ jobs'[a].at = t /\ jobs'[a].cron = c /\ jobs'[a].jit = j
                   /\ \/ /\ jobs'[a].phase = "fire" /\ jobs'[a].slots = S /\ UNCHANGED <<row, seen>>
                      \/ /\ jobs'[a].phase = "anchor" /\ jobs'[a].slots = {}
                         /\ seen' = [seen EXCEPT ![c] = @ \cup S]
                         /\ row' = Set(row, c, Recorded(r, "missed", FALSE))
<1> DEFINE p == [jobs[a] EXCEPT !.todo = @ \ {c}]
           r == row[c]
           t == jobs[a].at
           j == Jitter(c, r.sched)
           S == FiresDue(r, j, t)
<1>1. JobsHold /\ RowsHold /\ JobOK(jobs[a]) /\ jobs[a].phase = "rows" /\ Armed(c, r)
  BY TypesGive DEF RunDue, JobsHold
<1>2. jobs[a] \in PassJob /\ t \in Nat /\ t <= now
  BY <1>1, PhaseIs DEF PassJob
<1>3. p \in PassJob /\ p.at = t /\ p.phase = "rows" /\ p.todo \in SUBSET Crons
  BY <1>2 DEF PassJob
<1>4. UNCHANGED <<now, pol>>
  BY DEF RunDue, time
<1>5. JobOK(p)
  BY <1>2, <1>3 DEF JobOK
<1>6. CASE ~r.live \/ ~r.enabled \/ r.due > t
  <2>1. jobs' = Set(jobs, a, p) /\ UNCHANGED <<row, seen>>
    BY <1>3, <1>6 DEF RunDue
  <2>2. JobsHold' /\ jobs'[a] = p /\ \A b \in Actors \ {a} : jobs'[b] = jobs[b]
    BY <1>1, <1>4, <1>5, <2>1, JobSet
  <2>3. RowsHold'
    BY <1>1, <2>1 DEF RowsHold
  <2> HIDE DEF p
  <2> QED  BY <1>1, <1>2, <1>3, <2>1, <2>2, <2>3
<1>7. CASE r.live /\ r.enabled /\ ~(r.due > t)
  <2>1. r.due <= t
    BY <1>1, <1>2, <1>7 DEF Armed, RowOf
  <2>2. S \in SUBSET Nat /\ S # {} /\ j \in Nat /\ j <= t
    BY <2>1, <1>1, <1>2, DueIs
  <2> DEFINE Q(X, f) == [Fire(p, c, j, X) EXCEPT !.phase = f]
  <2>3. ASSUME NEW X \in SUBSET Nat, NEW f \in {"fire", "anchor"}, jobs' = Set(jobs, a, Q(X, f))
        PROVE  /\ JobsHold' /\ \A b \in Actors \ {a} : jobs'[b] = jobs[b]
               /\ jobs'[a].at = t /\ jobs'[a].cron = c /\ jobs'[a].jit = j
               /\ jobs'[a].phase = f /\ jobs'[a].slots = X
    <3>1. p.at \in Nat /\ p.at <= now /\ j <= p.at
      BY <1>2, <1>3, <2>2
    <3> HIDE DEF p, j
    <3>2. JobOK(Q(X, f)) /\ Q(X, f).phase = f /\ Q(X, f).at = p.at /\ Q(X, f).cron = c
          /\ Q(X, f).jit = j /\ Q(X, f).slots = X
      BY <1>3, <2>2, <2>3, <3>1 DEF JobOK, Fire, FireJob
    <3>3. JobsHold' /\ jobs'[a] = Q(X, f) /\ \A b \in Actors \ {a} : jobs'[b] = jobs[b]
      <4> HIDE DEF Q
      <4> QED  BY <3>2, <2>3, <1>1, <1>4, JobSet
    <3> QED  BY <3>2, <3>3, <1>3
  <2>4. \/ jobs' = Set(jobs, a, Q(S, "fire")) /\ UNCHANGED <<row, seen>>
        \/ /\ row' = Set(row, c, Recorded(r, "missed", FALSE))
           /\ seen' = [seen EXCEPT ![c] = @ \cup S]
           /\ jobs' = Set(jobs, a, Q({}, "anchor"))
    <3>1. Q(S, "fire") = Fire(p, c, j, S)
      <4> HIDE DEF p, j, S
      <4> QED  BY FireIs
    <3>2. \/ jobs' = Set(jobs, a, Fire(p, c, j, S)) /\ UNCHANGED <<row, seen>>
          \/ /\ row' = Set(row, c, Recorded(r, "missed", FALSE))
             /\ seen' = [seen EXCEPT ![c] = @ \cup S]
             /\ jobs' = Set(jobs, a, [Fire(p, c, j, {}) EXCEPT !.phase = "anchor"])
      <4>1. p.at = t
        BY <1>3
      <4> QED  BY <1>7, <2>2, <4>1 DEF RunDue
    <3> HIDE DEF p, j, S
    <3> QED  BY <3>1, <3>2
  <2> HIDE DEF Q, S, p, j
  <2>5. CASE jobs' = Set(jobs, a, Q(S, "fire")) /\ UNCHANGED <<row, seen>>
    <3>1. RowsHold'
      BY <1>1, <2>5 DEF RowsHold
    <3> QED  BY <2>5, <2>3, <2>2, <3>1, <1>1, <1>2, <1>7, <2>1 DEF S, p, j
  <2>6. CASE /\ row' = Set(row, c, Recorded(r, "missed", FALSE))
             /\ seen' = [seen EXCEPT ![c] = @ \cup S]
             /\ jobs' = Set(jobs, a, Q({}, "anchor"))
    <3>1. Armed(c, Recorded(r, "missed", FALSE))
      BY <1>1, RecordedIs
    <3>2. row' = Put(c, Recorded(r, "missed", FALSE))
      BY <2>6, <1>7 DEF Put
    <3>3. RowsHold'
      <4> HIDE DEF r
      <4> QED  BY <3>1, <3>2, <1>1, PutIs
    <3> QED  BY <2>6, <2>3, <3>3, <1>1, <1>2, <1>7, <2>1 DEF S, p, j
  <2> QED  BY <2>4, <2>5, <2>6
<1> QED  BY <1>6, <1>7

LEMMA FreshIs ==
  ASSUME Fresh # {}
  PROVE  Min(Fresh) \in Fresh /\ Min(Fresh) \in Tabs
<1>1. Fresh \in SUBSET Tabs
  BY DEF Fresh
<1> HIDE DEF Fresh
<1>2. Fresh \in SUBSET Int /\ \A x \in Fresh : 0 <= x
  BY <1>1, CronAssumption
<1>3. 0 \in Int
  OBVIOUS
<1>4. Min(Fresh) \in Fresh
  BY <1>2, <1>3, MinIs
<1> QED  BY <1>1, <1>4

(* The steps of a fire: it is recorded, or it waits.                        *)
Acting(a) == FirePane(a) \/ FireNewTab(a) \/ Carried(a) \/ TabUp(a)

LEMMA TabOpensStep ==
  ASSUME Types, NEW a \in Actors, jobs[a].phase \in {"fire", "carry"}, TabOpens(a)
  PROVE  /\ jobs'[a].phase = "tab" /\ jobs'[a].cron = jobs[a].cron /\ jobs'[a].at = jobs[a].at
         /\ jobs'[a].jit = jobs[a].jit /\ jobs'[a].slots = jobs[a].slots
         /\ jobs'[a].open = Open(jobs[a].cron) /\ jobs'[a].tab = Min(Fresh)
         /\ \A b \in Actors \ {a} : jobs'[b] = jobs[b]
         /\ JobsHold' /\ RowsHold' /\ UNCHANGED <<row, slots, base, now, pol>>
<1> DEFINE c == jobs[a].cron
           q == [jobs[a] EXCEPT !.phase = "tab", !.open = Open(c), !.tab = Min(Fresh)]
<1>1. JobsHold /\ RowsHold /\ JobOK(jobs[a])
  BY TypesGive DEF JobsHold
<1>2. jobs[a] \in FireJob /\ jobs[a].at <= now /\ jobs[a].jit <= jobs[a].at /\ c \in Crons
  BY <1>1, PhaseIs
<1>3. jobs' = Set(jobs, a, q) /\ UNCHANGED <<row, slots, base, now, pol>>
  <2>1. jobs' = [jobs EXCEPT ![a].phase = "tab", ![a].open = Open(c), ![a].tab = Min(Fresh)]
    BY DEF TabOpens
  <2>2. jobs \in [Actors -> {NoJob} \cup PassJob \cup FireJob]
    BY <1>1 DEF JobsHold
  <2>3. UNCHANGED <<row, slots, base, now, pol>>
    BY DEF TabOpens, time, slots
  <2> QED  BY <2>1, <2>2, <2>3 DEF Set
<1>4. Min(Fresh) \in Tabs
  BY FreshIs DEF TabOpens
<1>5. Open(c) \in SUBSET Tabs
  BY <1>1, <1>2 DEF Open, RowsHold, RowOf
<1>6. /\ q \in FireJob /\ q.phase = "tab" /\ q.cron = c /\ q.at = jobs[a].at /\ q.jit = jobs[a].jit
      /\ q.slots = jobs[a].slots /\ q.open = Open(c) /\ q.tab = Min(Fresh)
  BY <1>2, <1>4, <1>5 DEF FireJob
<1> HIDE DEF q
<1>7. JobOK(q)
  BY <1>2, <1>4, <1>6 DEF JobOK
<1>8. JobsHold' /\ jobs'[a] = q /\ \A b \in Actors \ {a} : jobs'[b] = jobs[b]
  BY <1>1, <1>3, <1>7, JobSet
<1>9. RowsHold'
  BY <1>1, <1>3 DEF RowsHold
<1> QED  BY <1>3, <1>6, <1>8, <1>9

LEMMA CarriesStep ==
  ASSUME Types, NEW a \in Actors, jobs[a].phase = "fire", pol[jobs[a].cron].rotate,
         jobs' = [jobs EXCEPT ![a].phase = "carry"], UNCHANGED <<row, now, pol>>
  PROVE  /\ jobs'[a].phase = "carry" /\ jobs'[a].cron = jobs[a].cron /\ jobs'[a].at = jobs[a].at
         /\ jobs'[a].jit = jobs[a].jit /\ jobs'[a].slots = jobs[a].slots
         /\ \A b \in Actors \ {a} : jobs'[b] = jobs[b]
         /\ JobsHold' /\ RowsHold'
<1> DEFINE c == jobs[a].cron
           q == [jobs[a] EXCEPT !.phase = "carry"]
<1>1. JobsHold /\ RowsHold /\ JobOK(jobs[a])
  BY TypesGive DEF JobsHold
<1>2. jobs[a] \in FireJob /\ jobs[a].at <= now /\ jobs[a].jit <= jobs[a].at /\ c \in Crons
  BY <1>1, PhaseIs
<1>3. jobs' = Set(jobs, a, q)
  <2>1. jobs \in [Actors -> {NoJob} \cup PassJob \cup FireJob]
    BY <1>1 DEF JobsHold
  <2> QED  BY <2>1 DEF Set
<1>4. /\ q \in FireJob /\ q.phase = "carry" /\ q.cron = c /\ q.at = jobs[a].at /\ q.jit = jobs[a].jit
      /\ q.slots = jobs[a].slots
  BY <1>2 DEF FireJob
<1> HIDE DEF q
<1>5. JobOK(q)
  BY <1>2, <1>4 DEF JobOK
<1>6. JobsHold' /\ jobs'[a] = q /\ \A b \in Actors \ {a} : jobs'[b] = jobs[b]
  BY <1>1, <1>3, <1>5, JobSet
<1>7. RowsHold'
  BY <1>1 DEF RowsHold
<1> QED  BY <1>4, <1>6, <1>7

(* What a fire that is recorded says of its row.                            *)
Verdict(a, r, res) ==
  /\ Armed(jobs[a].cron, r) /\ Like(r, row[jobs[a].cron])
  /\ r.enabled = row[jobs[a].cron].enabled
  /\ Record(a, r, res)
  /\ res = "deferred" => /\ jobs[a].phase = "fire" /\ ~pol[jobs[a].cron].tab
                         /\ pol[jobs[a].cron].quiet /\ InQuiet(jobs[a].at)
  /\ jobs[a].phase = "fire" /\ ~pol[jobs[a].cron].tab /\ pol[jobs[a].cron].quiet
       /\ InQuiet(jobs[a].at) => res \notin {"sent", "queued"}

Waiting(a) ==
  /\ jobs'[a].phase \in {"carry", "tab"} /\ jobs'[a].cron = jobs[a].cron
  /\ jobs[a].phase \in {"fire", "carry"}
  /\ jobs'[a].at = jobs[a].at
  /\ jobs'[a].jit = jobs[a].jit /\ jobs'[a].slots = jobs[a].slots
  /\ \A b \in Actors \ {a} : jobs'[b] = jobs[b]
  /\ JobsHold' /\ RowsHold' /\ UNCHANGED <<row, slots>>
  /\ pol[jobs[a].cron].tab \/ pol[jobs[a].cron].rotate

LEMMA ActingStep ==
  ASSUME Types, NEW a \in Actors, Acting(a)
  PROVE  /\ jobs[a].phase \in {"fire", "carry", "tab"} /\ jobs[a].cron \in Crons
         /\ UNCHANGED <<now, pol, base, human>>
         /\ Waiting(a) \/ \E r, res : Verdict(a, r, res)
<1> DEFINE c == jobs[a].cron
<1>1. jobs[a].phase \in {"fire", "carry", "tab"}
  BY DEF Acting, FirePane, FireNewTab, Carried, TabUp
<1>2. JobsHold /\ RowsHold /\ c \in Crons /\ Armed(c, row[c]) /\ jobs[a] \in FireJob
  <2>1. JobsHold /\ RowsHold /\ JobOK(jobs[a])
    BY TypesGive DEF JobsHold
  <2> QED  BY <1>1, <2>1, PhaseIs DEF RowsHold
<1>3. UNCHANGED <<now, pol, base, human>>
  <2>1. ASSUME NewTab(a)
        PROVE  UNCHANGED <<now, pol, base, human>>
    BY <2>1 DEF NewTab, TabsFull, TabOpens, time
  <2> QED  BY <2>1 DEF Acting, FirePane, FireNewTab, Carried, TabUp, time
<1> SUFFICES Waiting(a) \/ \E r, res : Verdict(a, r, res)
  BY <1>1, <1>2, <1>3
<1>4. Like(row[c], row[c])
  BY DEF Like
<1>5. ASSUME NewTab(a), jobs[a].phase \in {"fire", "carry"}, pol[c].tab \/ pol[c].rotate
      PROVE  Waiting(a) \/ \E r, res : Verdict(a, r, res)
  <2>1. CASE TabsFull(a)
    <3>1. Open(c) \in SUBSET Tabs
      BY <1>2 DEF Open, Armed, RowOf
    <3>2. Record(a, [row[c] EXCEPT !.open = Open(c)], "skipped")
      BY <2>1 DEF TabsFull
    <3>3. Verdict(a, [row[c] EXCEPT !.open = Open(c)], "skipped")
      BY <3>1, <3>2, <1>2, OpenSet DEF Verdict
    <3> QED  BY <3>3
  <2>2. CASE TabOpens(a)
    BY <2>2, <1>5, TabOpensStep DEF Waiting
  <2> QED  BY <2>1, <2>2, <1>5 DEF NewTab
<1>6. CASE FirePane(a)
  <2>1. PICK high \in BOOLEAN :
          LET res == PaneVerdict(c, jobs[a].at, high)
          IN  IF res = "rotate"
              THEN /\ jobs' = [jobs EXCEPT ![a].phase = "carry"]
                   /\ UNCHANGED <<row, inflight, turn, queue, slots>>
              ELSE Record(a, row[c], res)
    BY <1>6 DEF FirePane
  <2> DEFINE res == PaneVerdict(c, jobs[a].at, high)
  <2>2. CASE res = "rotate"
    <3>1. pol[c].rotate
      BY <2>2 DEF PaneVerdict, SubmitSend
    <3>2. jobs[a].phase = "fire"
      BY <1>6 DEF FirePane
    <3> QED  BY <3>1, <3>2, <2>1, <2>2, <1>3, CarriesStep DEF Waiting
  <2>3. CASE res # "rotate"
    <3>1. /\ res = "deferred" => pol[c].quiet /\ InQuiet(jobs[a].at)
          /\ pol[c].quiet /\ InQuiet(jobs[a].at) => res \notin {"sent", "queued"}
      BY DEF PaneVerdict, SubmitSend
    <3>2. jobs[a].phase = "fire" /\ ~pol[c].tab
      BY <1>6 DEF FirePane
    <3>3. Verdict(a, row[c], res)
      <4> HIDE DEF res
      <4>1. Record(a, row[c], res)
        BY <2>1, <2>3 DEF res
      <4> QED  BY <3>1, <3>2, <4>1, <1>2, <1>4 DEF Verdict
    <3> QED  BY <3>3
  <2> QED  BY <2>2, <2>3
<1>7. CASE FireNewTab(a)
  BY <1>5, <1>7 DEF FireNewTab
<1>8. CASE Carried(a)
  <2>1. jobs[a].phase = "carry" /\ pol[c].rotate
    <3>1. JobOK(jobs[a])
      BY <1>2 DEF JobsHold
    <3> QED  BY <1>8, <3>1 DEF Carried, JobOK, NoJob, PassJob
  <2>2. CASE NewTab(a)
    BY <2>1, <2>2, <1>5
  <2>3. CASE Record(a, row[c], "skipped")
    <3>1. Verdict(a, row[c], "skipped")
      BY <2>3, <1>2, <1>4 DEF Verdict
    <3> QED  BY <3>1
  <2> QED  BY <2>2, <2>3, <1>8 DEF Carried
<1>9. CASE TabUp(a)
  <2> DEFINE O == jobs[a].open \cup {jobs[a].tab}
             res == SubmitSend(jobs[a].tab)
  <2>1. O \in SUBSET Tabs
    <3>1. JobOK(jobs[a]) /\ jobs[a].phase = "tab"
      BY <1>2, <1>9 DEF JobsHold, TabUp
    <3>2. jobs[a].tab \in Tabs
      BY <3>1 DEF JobOK, NoJob, PassJob
    <3> QED  BY <3>2, <1>2 DEF FireJob
  <2>2. Record(a, [row[c] EXCEPT !.open = O], res)
    BY <1>9 DEF TabUp
  <2>3. res # "deferred" /\ jobs[a].phase = "tab"
    BY <1>9 DEF SubmitSend, TabUp
  <2> HIDE DEF O, res
  <2>4. Verdict(a, [row[c] EXCEPT !.open = O], res)
    BY <2>1, <2>2, <2>3, <1>2, OpenSet DEF Verdict
  <2> QED  BY <2>4
<1> QED  BY <1>6, <1>7, <1>8, <1>9 DEF Acting

LEMMA TickStartStep ==
  ASSUME Types, NEW a \in Ticks, TickStart(a)
  PROVE  /\ JobsHold' /\ RowsHold' /\ UNCHANGED <<row, history, now, pol, human>>
         /\ jobs'[a].phase = "rows" /\ jobs'[a].at = now
         /\ \A b \in Actors \ {a} : jobs'[b] = jobs[b]
         /\ \A b \in Ticks : ~Busy(b)
<1>1. JobsHold /\ RowsHold /\ now \in Nat /\ a \in Actors
  BY TypesGive, ActorIs
<1>2. jobs' = Set(jobs, a, Pass(now, Due)) /\ UNCHANGED <<row, history, now, pol, human>>
  BY DEF TickStart, time
<1>3. JobOK(Pass(now, Due)) /\ Pass(now, Due).phase = "rows" /\ Pass(now, Due).at = now
  <2>1. Due \in SUBSET Crons
    BY DEF Due
  <2> HIDE DEF Due
  <2> QED  BY <1>1, <2>1, PassOK
<1>4. /\ JobsHold' /\ jobs'[a] = Pass(now, Due)
      /\ \A b \in Actors \ {a} : jobs'[b] = jobs[b]
  BY <1>1, <1>2, <1>3, JobSet
<1>5. RowsHold'
  BY <1>1, <1>2 DEF RowsHold
<1>6. \A b \in Ticks : ~Busy(b)
  BY DEF TickStart, Ticking
<1> QED  BY <1>2, <1>3, <1>4, <1>5, <1>6

LEMMA TickEndStep ==
  ASSUME Types, NEW a \in Actors, TickEnd(a)
  PROVE  /\ JobsHold' /\ RowsHold' /\ UNCHANGED <<row, history, now, pol, human>>
         /\ jobs[a].phase = "rows" /\ jobs'[a].phase = "none"
         /\ \A b \in Actors \ {a} : jobs'[b] = jobs[b]
<1>1. JobsHold /\ RowsHold
  BY TypesGive
<1>2. jobs' = Set(jobs, a, NoJob) /\ UNCHANGED <<row, history, now, pol, human>>
      /\ jobs[a].phase = "rows"
  BY DEF TickEnd, time
<1>3. /\ JobsHold' /\ jobs'[a] = NoJob
      /\ \A b \in Actors \ {a} : jobs'[b] = jobs[b]
  BY <1>1, <1>2, NoJobOK, JobSet
<1>4. RowsHold'
  BY <1>1, <1>2 DEF RowsHold
<1> QED  BY <1>2, <1>3, <1>4 DEF NoJob

LEMMA AnchorStep ==
  ASSUME Types, NEW a \in Actors, Anchor(a)
  PROVE  LET c == jobs[a].cron
             q == Anchored(c, row[c], jobs[a])
         IN  /\ JobsHold' /\ RowsHold' /\ UNCHANGED <<history, now, pol, human>>
             /\ jobs[a].phase = "anchor" /\ jobs'[a].phase = "rows"
             /\ c \in Crons /\ jobs[a].at - jobs[a].jit \in Nat
             /\ \A b \in Actors \ {a} : jobs'[b] = jobs[b]
             /\ row'[c] = IF row[c].live THEN q ELSE row[c]
             /\ \A d \in Crons \ {c} : row'[d] = row[d]
             /\ Armed(c, q) /\ q.live = row[c].live /\ q.open = row[c].open
             /\ q.sched = row[c].sched
             /\ \/ q.due = row[c].due /\ ~q.enabled
                \/ q.due - Jitter(c, q.sched) = After(q.sched, jobs[a].at - jobs[a].jit)
<1> DEFINE c == jobs[a].cron
           q == Anchored(c, row[c], jobs[a])
<1>1. /\ JobsHold /\ RowsHold /\ jobs[a].phase = "anchor" /\ c \in Crons /\ Armed(c, row[c])
      /\ jobs[a].at - jobs[a].jit \in Nat /\ JobOK(jobs[a])
  <2>1. JobsHold /\ RowsHold /\ JobOK(jobs[a])
    BY TypesGive DEF JobsHold
  <2>2. jobs[a].phase = "anchor"
    BY DEF Anchor
  <2> QED  BY <2>1, <2>2, PhaseIs DEF RowsHold
<1>2. /\ jobs' = Set(jobs, a, Rows(jobs[a])) /\ UNCHANGED <<history, now, pol, human>>
      /\ row' = Put(c, q)
  BY DEF Anchor, time
<1>3. JobOK(Rows(jobs[a])) /\ Rows(jobs[a]).phase = "rows"
  BY <1>1, RowsOK
<1>4. /\ JobsHold' /\ jobs'[a] = Rows(jobs[a])
      /\ \A b \in Actors \ {a} : jobs'[b] = jobs[b]
  BY <1>1, <1>2, <1>3, JobSet
<1>5. /\ Armed(c, q) /\ q.live = row[c].live /\ q.open = row[c].open
      /\ q.sched = row[c].sched
      /\ \/ q.due = row[c].due /\ ~q.enabled
         \/ q.due - Jitter(c, q.sched) = After(q.sched, jobs[a].at - jobs[a].jit)
  BY <1>1, AnchoredIs
<1> HIDE DEF c, q
<1>6. /\ RowsHold' /\ \A d \in Crons \ {c} : row'[d] = row[d]
      /\ row'[c] = IF row[c].live THEN q ELSE row[c]
  BY <1>1, <1>2, <1>5, PutIs
<1> QED  BY <1>1, <1>2, <1>3, <1>4, <1>5, <1>6 DEF c, q

LEMMA RunNowStep ==
  ASSUME Types, NEW c \in Crons, RunNow(c)
  PROVE  /\ JobsHold' /\ RowsHold' /\ UNCHANGED <<row, history, now, pol, human>>
         /\ jobs'[ByHand].phase = "fire" /\ jobs'[ByHand].cron = c /\ ~Busy(ByHand)
         /\ \A b \in Ticks : jobs'[b] = jobs[b]
<1>1. JobsHold /\ RowsHold /\ now \in Nat /\ ByHand \in Actors
  BY TypesGive, ActorIs
<1>2. jobs' = Set(jobs, ByHand, Manual(c)) /\ UNCHANGED <<row, history, now, pol, human>>
      /\ ~Busy(ByHand)
  BY DEF RunNow, time
<1>3. JobOK(Manual(c)) /\ Manual(c).phase = "fire" /\ Manual(c).cron = c
  BY <1>1 DEF Manual, JobOK, Fire, FireJob, Pass
<1>4. /\ JobsHold' /\ jobs'[ByHand] = Manual(c)
      /\ \A b \in Actors \ {ByHand} : jobs'[b] = jobs[b]
  BY <1>1, <1>2, <1>3, JobSet
<1>5. RowsHold'
  BY <1>1, <1>2 DEF RowsHold
<1> QED  BY <1>2, <1>3, <1>4, <1>5, ActorIs

(* A route that changes the row of a cron.                                  *)
Patches(c, r) ==
  /\ Armed(c, r) /\ Patch(c, r)
  /\ \/ ~r.live
     \/ /\ Like(r, row[c]) /\ ~r.enabled /\ r.open = row[c].open
     \/ Moved(c, r, row[c], now)

LEMMA PatchStep ==
  ASSUME Types, NEW c \in Crons,
         Pause(c) \/ Resume(c) \/ DeleteRow(c) \/ \E s \in Intervals : Edit(c, s)
  PROVE  \E r : Patches(c, r)
<1>1. now \in Nat /\ Armed(c, row[c])
  BY TypesGive
<1>2. CASE Pause(c)
  <2>1. Patches(c, Enabled(c, row[c], FALSE))
    BY <1>1, <1>2, RowOff DEF Pause, Patches
  <2> QED  BY <2>1
<1>3. CASE Resume(c)
  <2>1. Patches(c, Enabled(c, row[c], TRUE))
    BY <1>1, <1>3, EnabledIs DEF Resume, Patches, Moved
  <2> QED  BY <2>1
<1>4. CASE DeleteRow(c)
  <2>1. Patches(c, [row[c] EXCEPT !.live = FALSE, !.open = {}])
    BY <1>1, <1>4, RowDeleted DEF DeleteRow, Patches
  <2> QED  BY <2>1
<1>5. ASSUME NEW s \in Intervals, Edit(c, s)
      PROVE  \E r : Patches(c, r)
  <2>1. Patches(c, Reschedule(c, row[c], s))
    BY <1>1, <1>5, RescheduleIs DEF Edit, Patches, Moved
  <2> QED  BY <2>1
<1> QED  BY <1>2, <1>3, <1>4, <1>5

LEMMA PatchedIs ==
  ASSUME Types, NEW c \in Crons, NEW r, Patches(c, r)
  PROVE  /\ RowsHold' /\ JobsHold' /\ row'[c] = r /\ \A d \in Crons \ {c} : row'[d] = row[d]
         /\ row[c].live
         /\ UNCHANGED <<pol, owner, memory, runners, time, slots, extra, blind>>
<1>1. RowsHold /\ JobsHold /\ Armed(c, r)
  BY TypesGive DEF Patches
<1>2. /\ row[c].live /\ row' = Set(row, c, r)
      /\ UNCHANGED <<pol, owner, memory, runners, time, slots, extra, blind>>
  BY DEF Patches, Patch
<1>3. row' = Put(c, r)
  BY <1>2 DEF Put
<1>4. RowsHold' /\ row'[c] = r /\ \A d \in Crons \ {c} : row'[d] = row[d]
  BY <1>1, <1>2, <1>3, PutIs
<1>5. JobsHold'
  <2>1. UNCHANGED <<jobs, now, pol>> /\ now \in Nat
    BY <1>2, TypesGive DEF memory, time
  <2> QED  BY <2>1, <1>1, JobsSame
<1> QED  BY <1>2, <1>4, <1>5

LEMMA CloseTabStep ==
  ASSUME Types, NEW t \in Tabs, CloseTab(t)
  PROVE  /\ RowsHold' /\ JobsHold' /\ UNCHANGED <<jobs, pol, time, slots, base, extra>>
         /\ \A c \in Crons : Like(row'[c], row[c]) /\ row'[c].enabled = row[c].enabled
                             /\ row'[c].open = row[c].open \ {t}
<1>1. RowsHold /\ JobsHold /\ now \in Nat
  BY TypesGive
<1>2. /\ row' = [c \in Crons |-> [row[c] EXCEPT !.open = @ \ {t}]]
      /\ UNCHANGED <<jobs, pol, time, slots, base, extra>>
  BY DEF CloseTab, Gone
<1>3. ASSUME NEW c \in Crons
      PROVE  /\ Armed(c, row'[c]) /\ Like(row'[c], row[c])
             /\ row'[c].enabled = row[c].enabled /\ row'[c].open = row[c].open \ {t}
             /\ row'[c] \in RowOf
  <2>1. Armed(c, row[c]) /\ row[c] \in RowOf
    BY <1>1 DEF RowsHold
  <2>2. row[c].open \ {t} \in SUBSET Tabs
    BY <2>1 DEF RowOf
  <2>3. row'[c] = [row[c] EXCEPT !.open = row[c].open \ {t}]
    BY <1>2, <2>1 DEF RowOf
  <2>4. row'[c] \in RowOf
    BY <2>1, <2>2, <2>3 DEF RowOf
  <2> QED  BY <2>1, <2>2, <2>3, <2>4, OpenSet
<1>4. row' \in [Crons -> RowOf]
  BY <1>2, <1>3
<1>5. \A c \in Crons : Armed(c, row[c])'
  BY <1>3 DEF Armed
<1>6. RowsHold'
  BY <1>4, <1>5 DEF RowsHold
<1>7. JobsHold'
  BY <1>1, <1>2, JobsSame DEF time
<1> QED  BY <1>2, <1>3, <1>6, <1>7

LEMMA RestartStep ==
  ASSUME Types, Restart
  PROVE  /\ RowsHold' /\ JobsHold' /\ UNCHANGED <<row, pol, time, seen, again, base>>
         /\ \A a \in Actors : jobs'[a] = NoJob
         /\ fired' = [c \in Crons |-> Excused(c)]
<1>1. RowsHold
  BY TypesGive
<1>2. /\ jobs' = [a \in Actors |-> NoJob] /\ UNCHANGED <<row, pol, time, seen, again, base>>
      /\ fired' = [c \in Crons |-> Excused(c)]
  BY DEF Restart
<1>3. \A a \in Actors : jobs'[a] = NoJob
  BY <1>2
<1>4. jobs' \in [Actors -> {NoJob} \cup PassJob \cup FireJob]
  BY <1>2
<1>5. \A a \in Actors : JobOK(jobs[a])'
  BY <1>3 DEF JobOK
<1>6. JobsHold'
  <2> HIDE DEF NoJob
  <2> QED  BY <1>4, <1>5 DEF JobsHold
<1>7. RowsHold'
  BY <1>1, <1>2 DEF RowsHold
<1> QED  BY <1>2, <1>3, <1>6, <1>7

(* The clock, and everything that happens in the panes.                     *)
PaneEvent ==
  \/ Respawn
  \/ GiveUp
  \/ \E p \in Panes : \/ SendByHuman(p) \/ Delete(p) \/ TurnEndsUnseen(p) \/ Hello(p)
                      \/ Blip(p) \/ Die(p) \/ Fatal(p)
                      \/ \E keep \in BOOLEAN : TurnDone(p, keep)

LEMMA PaneEventIs ==
  ASSUME PaneEvent
  PROVE  UNCHANGED <<pol, row, jobs, now, slots, base, extra>>
<1>1. CASE Respawn
  BY <1>1 DEF Respawn, memory, time, history
<1>2. CASE GiveUp
  BY <1>2 DEF GiveUp, time
<1>3. ASSUME NEW p \in Panes
      PROVE  /\ SendByHuman(p) => UNCHANGED <<pol, row, jobs, now, slots, base, extra>>
             /\ Delete(p) => UNCHANGED <<pol, row, jobs, now, slots, base, extra>>
             /\ TurnEndsUnseen(p) => UNCHANGED <<pol, row, jobs, now, slots, base, extra>>
             /\ Hello(p) => UNCHANGED <<pol, row, jobs, now, slots, base, extra>>
             /\ Blip(p) => UNCHANGED <<pol, row, jobs, now, slots, base, extra>>
             /\ Die(p) => UNCHANGED <<pol, row, jobs, now, slots, base, extra>>
             /\ Fatal(p) => UNCHANGED <<pol, row, jobs, now, slots, base, extra>>
             /\ \A keep \in BOOLEAN :
                  TurnDone(p, keep) => UNCHANGED <<pol, row, jobs, now, slots, base, extra>>
  <2>1. SendByHuman(p) => UNCHANGED <<pol, row, jobs, now, slots, base, extra>>
    BY DEF SendByHuman, memory, history
  <2>2. Delete(p) => UNCHANGED <<pol, row, jobs, now, slots, base, extra>>
    BY DEF Delete, Gone, time
  <2>3. TurnEndsUnseen(p) => UNCHANGED <<pol, row, jobs, now, slots, base, extra>>
    BY DEF TurnEndsUnseen, memory, time
  <2>4. Hello(p) => UNCHANGED <<pol, row, jobs, now, slots, base, extra>>
    BY DEF Hello, history
  <2>5. /\ Blip(p) => UNCHANGED <<pol, row, jobs, now, slots, base, extra>>
        /\ Die(p) => UNCHANGED <<pol, row, jobs, now, slots, base, extra>>
    BY DEF Blip, Die, Teardown, time
  <2>6. Fatal(p) => UNCHANGED <<pol, row, jobs, now, slots, base, extra>>
    BY DEF Fatal, time
  <2>7. \A keep \in BOOLEAN :
          TurnDone(p, keep) => UNCHANGED <<pol, row, jobs, now, slots, base, extra>>
    BY DEF TurnDone
  <2> QED  BY <2>1, <2>2, <2>3, <2>4, <2>5, <2>6, <2>7
<1> QED  BY <1>1, <1>2, <1>3 DEF PaneEvent

(* A step of the scheduler is one of these.                                 *)
LEMMA NextCases ==
  ASSUME Next
  PROVE  \/ Idle /\ Clock
         \/ \E a \in Ticks : Idle /\ TickStart(a)
         \/ \E c \in Crons : Idle /\ RunNow(c)
         \/ \E c \in Crons : /\ Idle
                             /\ Pause(c) \/ Resume(c) \/ DeleteRow(c)
                                  \/ \E s \in Intervals : Edit(c, s)
         \/ Idle /\ PaneEvent
         \/ \E t \in Tabs : Idle /\ CloseTab(t)
         \/ \E a \in Actors : TickEnd(a) \/ Anchor(a) \/ \E c \in Crons : RunDue(a, c)
         \/ \E a \in Actors : Acting(a) /\ (Waits(a) => Idle)
         \/ Restart
<1>1. ASSUME Idle, Event
      PROVE  \/ Idle /\ Clock
             \/ \E a \in Ticks : Idle /\ TickStart(a)
             \/ \E c \in Crons : Idle /\ RunNow(c)
             \/ \E c \in Crons : /\ Idle
                                 /\ Pause(c) \/ Resume(c) \/ DeleteRow(c)
                                      \/ \E s \in Intervals : Edit(c, s)
             \/ Idle /\ PaneEvent
             \/ \E t \in Tabs : Idle /\ CloseTab(t)
  <2>1. CASE User
    BY <2>1, <1>1 DEF User, PaneEvent
  <2>2. CASE Runner
    BY <2>2, <1>1 DEF Runner, PaneEvent
  <2>3. CASE GiveUp
    BY <2>3, <1>1 DEF PaneEvent
  <2> QED  BY <1>1, <2>1, <2>2, <2>3 DEF Event
<1>2. ASSUME NEW a \in Actors, Job(a) \/ Returns(a)
      PROVE  \/ TickEnd(a) \/ Anchor(a) \/ \E c \in Crons : RunDue(a, c)
             \/ Acting(a) /\ (Waits(a) => Idle)
  <2>1. FirePane(a) \/ FireNewTab(a) => ~Waits(a)
    BY DEF FirePane, FireNewTab, Waits
  <2> QED  BY <1>2, <2>1 DEF Job, Returns, Acting
<1> QED  BY <1>1, <1>2 DEF Next

-----------------------------------------------------------------------------
(* Types of the panes                                                       *)

LEMMA SetIn ==
  ASSUME NEW T, NEW f \in [Panes -> T], NEW x, NEW v \in T
  PROVE  /\ Set(f, x, v) \in [Panes -> T] /\ \A y \in Panes \ {x} : Set(f, x, v)[y] = f[y]
         /\ x \in Panes => Set(f, x, v)[x] = v
BY DEF Set

LEMMA CloseOnSet ==
  ASSUME PanesOK, NEW p \in Panes, closeOn' = Set(closeOn, p, None)
  PROVE  closeOn' \in [Panes -> Crons \cup {None}] /\ closeOn'[Main] = None
<1>1. closeOn \in [Panes -> Crons \cup {None}] /\ closeOn[Main] = None /\ Main \in Panes
  BY DEF PanesOK, Panes
<1>2. closeOn' = [closeOn EXCEPT ![p] = None]
  BY DEF Set
<1> QED  BY <1>1, <1>2

LEMMA DrainTypes ==
  ASSUME PanesOK, now \in Nat, NEW p \in Panes, NEW known \in Crons \cup {None}, Drain(p, known)
  PROVE  /\ turn' \in [Panes -> Crons \cup {Human, None}]
         /\ queue' \in [Panes -> Seq(Crons \cup {Human})]
         /\ inflight' \in Crons \cup {None} /\ human' \in Nat \cup {None}
<1>1. /\ turn \in [Panes -> Crons \cup {Human, None}] /\ queue \in [Panes -> Seq(Crons \cup {Human})]
      /\ inflight \in Crons \cup {None} /\ human \in Nat \cup {None}
      /\ queue[p] \in Seq(Crons \cup {Human})
  BY DEF PanesOK
<1>2. CASE queue[p] = <<>>
  <2>1. turn' = Set(turn, p, None) /\ Note(p, known) /\ UNCHANGED <<queue, human>>
    BY <1>2 DEF Drain
  <2>2. inflight' \in Crons \cup {None}
    BY <1>1, <2>1 DEF Note
  <2> QED  BY <1>1, <2>1, <2>2, SetIn
<1>3. CASE queue[p] # <<>>
  <2> DEFINE who == Head(queue[p])
  <2>1. who \in Crons \cup {Human} /\ Tail(queue[p]) \in Seq(Crons \cup {Human})
    BY <1>1, <1>3
  <2>2. /\ turn' = Set(turn, p, who) /\ queue' = Set(queue, p, Tail(queue[p]))
        /\ Note(p, IF who \in Crons THEN who ELSE None)
        /\ human' = IF p = Main /\ who = Human THEN now ELSE human
    BY <1>3 DEF Drain
  <2> HIDE DEF who
  <2>3. turn' \in [Panes -> Crons \cup {Human, None}]
    BY <1>1, <2>1, <2>2, SetIn
  <2>4. queue' \in [Panes -> Seq(Crons \cup {Human})]
    BY <1>1, <2>1, <2>2, SetIn
  <2>5. inflight' \in Crons \cup {None}
    BY <1>1, <2>2 DEF Note
  <2>6. human' \in Nat \cup {None}
    BY <1>1, <2>2
  <2> QED  BY <2>3, <2>4, <2>5, <2>6
<1> QED  BY <1>2, <1>3

LEMMA SendsTypes ==
  ASSUME PanesOK, NEW p, NEW who \in Crons \cup {Human}, NEW res, Sends(p, who, res), p \in Panes
  PROVE  /\ turn' \in [Panes -> Crons \cup {Human, None}]
         /\ queue' \in [Panes -> Seq(Crons \cup {Human})]
<1>1. /\ turn \in [Panes -> Crons \cup {Human, None}] /\ queue \in [Panes -> Seq(Crons \cup {Human})]
      /\ queue[p] \in Seq(Crons \cup {Human})
  BY DEF PanesOK
<1>2. Append(queue[p], who) \in Seq(Crons \cup {Human}) /\ who \in Crons \cup {Human, None}
  BY <1>1
<1>3. /\ turn' = IF res = "sent" THEN Set(turn, p, who) ELSE turn
      /\ queue' = IF res = "queued" THEN Set(queue, p, Append(queue[p], who)) ELSE queue
  BY DEF Sends
<1>4. turn' \in [Panes -> Crons \cup {Human, None}]
  BY <1>1, <1>2, <1>3, SetIn
<1>5. queue' \in [Panes -> Seq(Crons \cup {Human})]
  BY <1>1, <1>2, <1>3, SetIn
<1> QED  BY <1>4, <1>5

LEMMA TurnEndedTypes ==
  ASSUME PanesOK, NEW p \in Panes, NEW keep \in BOOLEAN, TurnEnded(p, keep)
  PROVE  /\ closeOn' \in [Panes -> Crons \cup {None}] /\ closeOn'[Main] = None
         /\ closing' \subseteq Tabs
<1>1. /\ closeOn \in [Panes -> Crons \cup {None}] /\ closing \subseteq Tabs
      /\ closeOn[Main] = None
  BY DEF PanesOK
<1>2. CASE UNCHANGED <<closeOn, closing>>
  BY <1>1, <1>2
<1>3. CASE /\ closeOn' = Set(closeOn, p, None) /\ closeOn[p] # None
           /\ closing' = IF keep THEN closing ELSE closing \cup {p}
  <2>1. closeOn' \in [Panes -> Crons \cup {None}]
    BY <1>1, <1>3, SetIn
  <2>2. p \in Tabs
    BY <1>1, <1>3 DEF Panes
  <2>3. closeOn'[Main] = None
    BY <1>3, CloseOnSet
  <2> QED  BY <1>1, <1>3, <2>1, <2>2, <2>3
<1> QED  BY <1>2, <1>3 DEF TurnEnded

LEMMA GoneTypes ==
  ASSUME PanesOK, NEW p \in Panes, Gone(p)
  PROVE  /\ owner' \in [Panes -> Crons \cup {Human, None}] /\ conn' \in [Panes -> BOOLEAN]
         /\ turn' \in [Panes -> Crons \cup {Human, None}]
         /\ queue' \in [Panes -> Seq(Crons \cup {Human})]
         /\ inflight' \in Crons \cup {None}
         /\ closeOn' \in [Panes -> Crons \cup {None}] /\ closeOn'[Main] = None
         /\ UNCHANGED <<dead, human>>
<1>1. /\ owner \in [Panes -> Crons \cup {Human, None}] /\ conn \in [Panes -> BOOLEAN]
      /\ turn \in [Panes -> Crons \cup {Human, None}] /\ queue \in [Panes -> Seq(Crons \cup {Human})]
      /\ inflight \in Crons \cup {None} /\ closeOn \in [Panes -> Crons \cup {None}]
      /\ closeOn[Main] = None
  BY DEF PanesOK
<1>2. /\ owner' = Set(owner, p, None) /\ conn' = Set(conn, p, FALSE) /\ turn' = Set(turn, p, None)
      /\ queue' = Set(queue, p, <<>>) /\ Note(p, None) /\ closeOn' = Set(closeOn, p, None)
      /\ UNCHANGED <<dead, human>>
  BY DEF Gone, time
<1>3. owner' \in [Panes -> Crons \cup {Human, None}] /\ turn' \in [Panes -> Crons \cup {Human, None}]
  BY <1>1, <1>2, SetIn
<1>4. conn' \in [Panes -> BOOLEAN]
  BY <1>1, <1>2, SetIn
<1>5. queue' \in [Panes -> Seq(Crons \cup {Human})]
  <2>1. <<>> \in Seq(Crons \cup {Human})
    OBVIOUS
  <2> QED  BY <1>1, <1>2, <2>1, SetIn
<1>6. inflight' \in Crons \cup {None}
  BY <1>1, <1>2 DEF Note
<1>7. closeOn' \in [Panes -> Crons \cup {None}] /\ closeOn'[Main] = None
  BY <1>2, CloseOnSet
<1> QED  BY <1>2, <1>3, <1>4, <1>5, <1>6, <1>7

LEMMA TeardownTypes ==
  ASSUME PanesOK, NEW p \in Panes, NEW t \in Crons \cup {Human, None}, Teardown(p, t)
  PROVE  PanesOK'
<1>1. /\ conn \in [Panes -> BOOLEAN] /\ turn \in [Panes -> Crons \cup {Human, None}]
      /\ inflight \in Crons \cup {None}
  BY DEF PanesOK
<1>2. /\ conn' = Set(conn, p, FALSE) /\ turn' = Set(turn, p, t)
      /\ UNCHANGED <<owner, queue, dead, human>>
  BY DEF Teardown, time
<1>3. conn' \in [Panes -> BOOLEAN] /\ turn' \in [Panes -> Crons \cup {Human, None}]
  BY <1>1, <1>2, SetIn
<1>4. CASE UNCHANGED <<inflight, closeOn, closing>>
  BY <1>2, <1>3, <1>4 DEF PanesOK
<1>5. CASE TurnEnded(p, FALSE) /\ Note(p, None)
  <2>1. /\ closeOn' \in [Panes -> Crons \cup {None}] /\ closeOn'[Main] = None
        /\ closing' \subseteq Tabs
    BY <1>5, TurnEndedTypes
  <2>2. inflight' \in Crons \cup {None}
    BY <1>1, <1>5 DEF Note
  <2> QED  BY <1>2, <1>3, <2>1, <2>2 DEF PanesOK
<1> QED  BY <1>4, <1>5 DEF Teardown

LEMMA PaneEventTypes ==
  ASSUME PanesOK, now \in Nat, PaneEvent
  PROVE  PanesOK'
<1>0. /\ owner \in [Panes -> Crons \cup {Human, None}] /\ conn \in [Panes -> BOOLEAN]
      /\ turn \in [Panes -> Crons \cup {Human, None}] /\ queue \in [Panes -> Seq(Crons \cup {Human})]
      /\ inflight \in Crons \cup {None} /\ closeOn \in [Panes -> Crons \cup {None}]
      /\ closeOn[Main] = None /\ closing \subseteq Tabs /\ dead \in BOOLEAN
      /\ human \in Nat \cup {None}
  BY DEF PanesOK
<1>1. CASE Respawn
  <2>1. UNCHANGED <<owner, queue, inflight, closeOn, closing, conn, turn, human>> /\ dead' = FALSE
    BY <1>1 DEF Respawn, memory, time
  <2> QED  BY <2>1 DEF PanesOK
<1>2. CASE GiveUp
  <2>1. /\ conn' = Set(conn, Main, FALSE) /\ turn' = Set(turn, Main, None) /\ dead' = TRUE
        /\ queue' = Set(queue, Main, <<>>) /\ inflight' = None
        /\ UNCHANGED <<owner, closeOn, closing, human>>
    BY <1>2 DEF GiveUp, time
  <2>2. conn' \in [Panes -> BOOLEAN]
    BY <1>0, <2>1, SetIn
  <2>3. turn' \in [Panes -> Crons \cup {Human, None}]
    BY <1>0, <2>1, SetIn
  <2>4. queue' \in [Panes -> Seq(Crons \cup {Human})]
    <3>1. <<>> \in Seq(Crons \cup {Human})
      OBVIOUS
    <3> QED  BY <1>0, <2>1, <3>1, SetIn
  <2> QED  BY <2>1, <2>2, <2>3, <2>4 DEF PanesOK
<1>3. ASSUME NEW p \in Panes, SendByHuman(p)
      PROVE  PanesOK'
  <2>1. /\ Sends(p, Human, SubmitSend(p))
        /\ human' = IF p = Main /\ SubmitSend(p) = "sent" THEN now ELSE human
        /\ UNCHANGED <<owner, inflight, closeOn, closing, dead, conn>>
    BY <1>3 DEF SendByHuman, memory
  <2>2. /\ turn' \in [Panes -> Crons \cup {Human, None}]
        /\ queue' \in [Panes -> Seq(Crons \cup {Human})]
    BY <2>1, SendsTypes
  <2>3. human' \in Nat \cup {None}
    BY <1>0, <2>1
  <2> QED  BY <2>1, <2>2, <2>3 DEF PanesOK
<1>4. ASSUME NEW p \in Panes, Delete(p)
      PROVE  PanesOK'
  <2>1. Gone(p) /\ UNCHANGED closing
    BY <1>4 DEF Delete
  <2> QED  BY <2>1, GoneTypes DEF PanesOK
<1>5. ASSUME NEW p \in Panes, TurnEndsUnseen(p)
      PROVE  PanesOK'
  <2>1. turn' = Set(turn, p, None)
        /\ UNCHANGED <<owner, queue, inflight, closeOn, closing, dead, conn, human>>
    BY <1>5 DEF TurnEndsUnseen, memory, time
  <2>2. turn' \in [Panes -> Crons \cup {Human, None}]
    BY <1>0, <2>1, SetIn
  <2> QED  BY <2>1, <2>2 DEF PanesOK
<1>6. ASSUME NEW p \in Panes, Hello(p)
      PROVE  PanesOK'
  <2>1. conn' = Set(conn, p, TRUE) /\ UNCHANGED <<owner, closeOn, closing, dead>>
        /\ (UNCHANGED <<turn, queue, inflight, human>> \/ Drain(p, inflight))
    BY <1>6 DEF Hello
  <2>2. conn' \in [Panes -> BOOLEAN]
    BY <1>0, <2>1, SetIn
  <2>3. CASE UNCHANGED <<turn, queue, inflight, human>>
    BY <2>1, <2>2, <2>3 DEF PanesOK
  <2>4. CASE Drain(p, inflight)
    <3>1. /\ turn' \in [Panes -> Crons \cup {Human, None}]
          /\ queue' \in [Panes -> Seq(Crons \cup {Human})]
          /\ inflight' \in Crons \cup {None} /\ human' \in Nat \cup {None}
      BY <1>0, <2>4, DrainTypes
    <3> QED  BY <2>1, <2>2, <3>1 DEF PanesOK
  <2> QED  BY <2>1, <2>3, <2>4
<1>7. ASSUME NEW p \in Panes, Blip(p) \/ Die(p)
      PROVE  PanesOK'
  <2>1. turn[p] \in Crons \cup {Human, None} /\ None \in Crons \cup {Human, None}
    BY <1>0
  <2>2. Teardown(p, turn[p]) \/ Teardown(p, None)
    BY <1>7 DEF Blip, Die
  <2> QED  BY <2>1, <2>2, TeardownTypes
<1>8. ASSUME NEW p \in Panes, Fatal(p)
      PROVE  PanesOK'
  <2>1. /\ conn' = Set(conn, p, FALSE) /\ turn' = Set(turn, p, None)
        /\ Note(p, None) /\ closeOn' = Set(closeOn, p, None)
        /\ UNCHANGED <<owner, queue, closing, dead, human>>
    BY <1>8 DEF Fatal, time
  <2>2. conn' \in [Panes -> BOOLEAN]
    BY <1>0, <2>1, SetIn
  <2>3. turn' \in [Panes -> Crons \cup {Human, None}]
    BY <1>0, <2>1, SetIn
  <2>4. closeOn' \in [Panes -> Crons \cup {None}] /\ closeOn'[Main] = None
    BY <2>1, CloseOnSet
  <2>5. inflight' \in Crons \cup {None}
    BY <1>0, <2>1 DEF Note
  <2> QED  BY <2>1, <2>2, <2>3, <2>4, <2>5 DEF PanesOK
<1>9. ASSUME NEW p \in Panes, NEW keep \in BOOLEAN, TurnDone(p, keep)
      PROVE  PanesOK'
  <2>1. TurnEnded(p, keep) /\ Drain(p, None) /\ UNCHANGED <<owner, dead, conn>>
    BY <1>9 DEF TurnDone
  <2>2. /\ closeOn' \in [Panes -> Crons \cup {None}] /\ closeOn'[Main] = None
        /\ closing' \subseteq Tabs
    BY <2>1, TurnEndedTypes
  <2>3. /\ turn' \in [Panes -> Crons \cup {Human, None}]
        /\ queue' \in [Panes -> Seq(Crons \cup {Human})]
        /\ inflight' \in Crons \cup {None} /\ human' \in Nat \cup {None}
    BY <2>1, DrainTypes
  <2> QED  BY <2>1, <2>2, <2>3 DEF PanesOK
<1> QED  BY <1>1, <1>2, <1>3, <1>4, <1>5, <1>6, <1>7, <1>8, <1>9 DEF PaneEvent

LEMMA ActingTypes ==
  ASSUME Types, NEW a \in Actors, Acting(a)
  PROVE  PanesOK'
<1> DEFINE c == jobs[a].cron
           pane == <<owner, queue, inflight, closeOn, closing, dead, conn, turn, human>>
<1>1. /\ PanesOK /\ c \in Crons /\ JobsHold
  BY ActingStep DEF Types
<1>2. /\ owner \in [Panes -> Crons \cup {Human, None}] /\ turn \in [Panes -> Crons \cup {Human, None}]
      /\ queue \in [Panes -> Seq(Crons \cup {Human})]
      /\ inflight \in Crons \cup {None} /\ closeOn \in [Panes -> Crons \cup {None}]
      /\ closeOn[Main] = None
  BY <1>1 DEF PanesOK
<1>3. ASSUME UNCHANGED pane
      PROVE  PanesOK'
  BY <1>1, <1>3 DEF PanesOK
<1>4. ASSUME NewTab(a)
      PROVE  PanesOK'
  <2>1. CASE TabsFull(a)
    BY <2>1, <1>3 DEF TabsFull, runners, time
  <2>2. CASE TabOpens(a)
    <3>1. owner' = Set(owner, Min(Fresh), c)
          /\ UNCHANGED <<queue, inflight, closeOn, closing, dead, conn, turn, human>>
      BY <2>2 DEF TabOpens, runners, time
    <3>2. owner' \in [Panes -> Crons \cup {Human, None}]
      BY <1>1, <1>2, <3>1, SetIn
    <3> QED  BY <1>1, <3>1, <3>2 DEF PanesOK
  <2> QED  BY <1>4, <2>1, <2>2 DEF NewTab
<1>5. CASE FirePane(a)
  <2>1. /\ UNCHANGED <<owner, closeOn, closing, dead, conn, human>>
        /\ \/ UNCHANGED <<inflight, turn, queue>>
           \/ \E res : Sends(Main, c, res) /\ inflight' = IF res = "sent" THEN c ELSE inflight
    BY <1>5 DEF FirePane, time
  <2>2. CASE UNCHANGED <<inflight, turn, queue>>
    BY <2>1, <2>2, <1>3
  <2>3. ASSUME NEW res, Sends(Main, c, res), inflight' = IF res = "sent" THEN c ELSE inflight
        PROVE  PanesOK'
    <3>1. Main \in Panes /\ c \in Crons \cup {Human}
      BY <1>1 DEF Panes
    <3>2. /\ turn' \in [Panes -> Crons \cup {Human, None}]
          /\ queue' \in [Panes -> Seq(Crons \cup {Human})]
      BY <1>1, <2>3, <3>1, SendsTypes
    <3>3. inflight' \in Crons \cup {None}
      BY <1>1, <1>2, <2>3
    <3> QED  BY <1>1, <2>1, <3>2, <3>3 DEF PanesOK
  <2> QED  BY <2>1, <2>2, <2>3
<1>6. CASE FireNewTab(a)
  BY <1>4, <1>6 DEF FireNewTab
<1>7. CASE Carried(a)
  <2>1. CASE UNCHANGED <<pol, owner, inflight, closeOn, closing, runners, time>>
    BY <2>1, <1>3 DEF runners, time
  <2> QED  BY <1>4, <1>7, <2>1 DEF Carried
<1>8. CASE TabUp(a)
  <2> DEFINE t == jobs[a].tab
  <2>1. /\ Sends(t, c, SubmitSend(t))
        /\ closeOn' = IF pol[c].close THEN Set(closeOn, t, c) ELSE closeOn
        /\ UNCHANGED <<owner, inflight, closing, dead, conn, human>>
        /\ jobs[a].phase = "tab"
    BY <1>8 DEF TabUp, time
  <2>2. t \in Tabs /\ t \in Panes /\ t # Main
    <3>1. JobOK(jobs[a])
      BY <1>1 DEF JobsHold
    <3>2. t \in Tabs
      BY <2>1, <3>1 DEF JobOK, NoJob, PassJob
    <3> QED  BY <3>2, CronAssumption DEF Panes
  <2> HIDE DEF t
  <2>3. /\ turn' \in [Panes -> Crons \cup {Human, None}]
        /\ queue' \in [Panes -> Seq(Crons \cup {Human})]
    BY <1>1, <2>1, <2>2, SendsTypes
  <2>4. closeOn' \in [Panes -> Crons \cup {None}] /\ closeOn'[Main] = None
    <3>1. Main \in Panes /\ Main # t
      BY <2>2 DEF Panes
    <3>2. Set(closeOn, t, c) \in [Panes -> Crons \cup {None}] /\ Set(closeOn, t, c)[Main] = None
      BY <1>1, <1>2, <3>1 DEF Set
    <3> QED  BY <1>2, <2>1, <3>2
  <2> QED  BY <1>1, <2>1, <2>3, <2>4 DEF PanesOK
<1> QED  BY <1>5, <1>6, <1>7, <1>8 DEF Acting

LEMMA ClockStep ==
  ASSUME Types, Clock
  PROVE  /\ now' \in Times /\ now' \in Nat /\ now < now'
         /\ UNCHANGED <<pol, row, owner, memory, runners, human, history>>
<1> DEFINE T == {t \in Times : t > now} \cup {Max(Times)}
<1>1. /\ now' = Min(T) /\ now' # now /\ now \in Nat /\ now \in Times \cup {0}
      /\ UNCHANGED <<pol, row, owner, memory, runners, human, history>>
  BY TypesGive DEF Clock, Types
<1>2. Max(Times) \in Times /\ \A t \in Times : t <= Max(Times)
  <2>1. PICK last \in Times : \A t \in Times : t <= last
    BY CronAssumption
  <2>2. Times \in SUBSET Int /\ Times # {} /\ last \in Int
    BY <2>1, CronAssumption
  <2> QED  BY <2>1, <2>2, MaxIs
<1>3. T \in SUBSET Times /\ T # {}
  BY <1>2
<1>4. \A x \in T : x \in Nat
  BY <1>3, CronAssumption
<1>5. Min(T) \in T /\ \A y \in T : Min(T) <= y
  <2> HIDE DEF T
  <2>1. 0 \in Int /\ T \in SUBSET Int /\ \A x \in T : 0 <= x
    BY <1>4
  <2> QED  BY <1>3, <2>1, MinIs
<1>6. now < now'
  <2>0. now' \in T /\ now' \in Nat /\ now \in Nat
    BY <1>1, <1>4, <1>5
  <2>1. CASE now' > now
    BY <2>0, <2>1
  <2>2. CASE ~ (now' > now)
    <3>1. now' = Max(Times)
      BY <1>1, <1>5, <2>2
    <3>2. now' < now
      BY <2>0, <1>1, <2>2
    <3>3. now \in Times
      BY <2>0, <1>1, <3>2
    <3>4. now <= Max(Times)
      BY <1>2, <3>3
    <3> QED  BY <2>0, <3>1, <3>2, <3>4
  <2> QED  BY <2>1, <2>2
<1> QED  BY <1>1, <1>3, <1>4, <1>5, <1>6

LEMMA NextTypes ==
  ASSUME Types, [Next]_vars
  PROVE  Types'
<1> DEFINE pane == <<owner, queue, inflight, closeOn, closing, dead, conn, turn, human>>
<1>0. /\ PanesOK /\ JobsHold /\ RowsHold /\ now \in Nat /\ now \in Times \cup {0}
      /\ pol \in [Crons -> Policies]
  BY TypesGive DEF Types
<1>1. ASSUME UNCHANGED pane
      PROVE  PanesOK'
  BY <1>0, <1>1 DEF PanesOK
<1>2. ASSUME UNCHANGED <<now, pol>>, PanesOK', JobsHold', RowsHold'
      PROVE  Types'
  BY <1>0, <1>2 DEF Types
<1>3. CASE UNCHANGED vars
  <2>1. UNCHANGED pane /\ UNCHANGED <<row, jobs, now, pol>>
    BY <1>3 DEF vars, memory, runners, time
  <2>2. JobsHold' /\ RowsHold'
    BY <1>0, <2>1, JobsSame DEF RowsHold
  <2> QED  BY <1>1, <1>2, <2>1, <2>2
<1>4. CASE Clock
  <2>1. /\ now' \in Times /\ now' \in Nat /\ now < now'
        /\ UNCHANGED <<pol, row, owner, memory, runners, human, history>>
    BY <1>4, ClockStep
  <2>2. JobsHold'
    <3>1. UNCHANGED jobs /\ now <= now'
      BY <2>1, <1>0 DEF memory
    <3> QED  BY <1>0, <2>1, <3>1, JobsSame
  <2>3. RowsHold'
    BY <1>0, <2>1 DEF RowsHold
  <2>4. UNCHANGED pane
    BY <2>1 DEF memory, runners
  <2> QED  BY <1>0, <1>1, <2>1, <2>2, <2>3, <2>4 DEF Types
<1>5. ASSUME NEW a \in Ticks, TickStart(a)
      PROVE  Types'
  <2>1. UNCHANGED pane
    BY <1>5 DEF TickStart, runners, time
  <2> QED  BY <1>1, <1>2, <1>5, <2>1, TickStartStep
<1>6. ASSUME NEW c \in Crons, RunNow(c)
      PROVE  Types'
  <2>1. UNCHANGED pane
    BY <1>6 DEF RunNow, runners, time
  <2> QED  BY <1>1, <1>2, <1>6, <2>1, RunNowStep
<1>7. ASSUME NEW c \in Crons,
             Pause(c) \/ Resume(c) \/ DeleteRow(c) \/ \E s \in Intervals : Edit(c, s)
      PROVE  Types'
  <2>1. PICK r : Patches(c, r)
    BY <1>7, PatchStep
  <2>2. /\ RowsHold' /\ JobsHold'
        /\ UNCHANGED <<pol, owner, memory, runners, time, slots, extra, blind>>
    BY <2>1, PatchedIs
  <2>3. UNCHANGED pane /\ UNCHANGED <<now, pol>>
    BY <2>2 DEF memory, runners, time
  <2> QED  BY <1>1, <1>2, <2>2, <2>3
<1>8. CASE PaneEvent
  <2>1. UNCHANGED <<pol, row, jobs, now>>
    BY <1>8, PaneEventIs
  <2>2. JobsHold' /\ RowsHold'
    BY <1>0, <2>1, JobsSame DEF RowsHold
  <2>3. PanesOK'
    BY <1>0, <1>8, PaneEventTypes
  <2> QED  BY <1>2, <2>1, <2>2, <2>3
<1>9. ASSUME NEW t \in Tabs, CloseTab(t)
      PROVE  Types'
  <2>1. RowsHold' /\ JobsHold' /\ UNCHANGED <<pol, now>>
    BY <1>9, CloseTabStep DEF time
  <2>2. Gone(t) /\ closing' = closing \ {t} /\ t \in Panes
    BY <1>9 DEF CloseTab, Panes
  <2>3. PanesOK'
    BY <1>0, <2>2, GoneTypes DEF PanesOK
  <2> QED  BY <1>2, <2>1, <2>3
<1>10. ASSUME NEW a \in Actors, TickEnd(a)
       PROVE  Types'
  <2>1. UNCHANGED pane
    BY <1>10 DEF TickEnd, runners, time
  <2> QED  BY <1>1, <1>2, <1>10, <2>1, TickEndStep
<1>11. ASSUME NEW a \in Actors, Anchor(a)
       PROVE  Types'
  <2>1. UNCHANGED pane
    BY <1>11 DEF Anchor, runners, time
  <2> QED  BY <1>1, <1>2, <1>11, <2>1, AnchorStep
<1>12. ASSUME NEW a \in Actors, NEW c \in Crons, RunDue(a, c)
       PROVE  Types'
  <2>1. UNCHANGED pane /\ UNCHANGED <<now, pol>>
    BY <1>12 DEF RunDue, runners, time
  <2> QED  BY <1>1, <1>2, <1>12, <2>1, RunDueStep
<1>13. ASSUME NEW a \in Actors, Acting(a)
       PROVE  Types'
  <2>1. PanesOK'
    BY <1>13, ActingTypes
  <2>2. /\ jobs[a].phase \in {"fire", "carry", "tab"} /\ jobs[a].cron \in Crons
        /\ UNCHANGED <<now, pol, base>>
        /\ Waiting(a) \/ \E r, res : Verdict(a, r, res)
    BY <1>13, ActingStep
  <2>3. ASSUME NEW r, NEW res, Verdict(a, r, res)
        PROVE  JobsHold' /\ RowsHold'
    <3>1. Armed(jobs[a].cron, r) /\ Record(a, r, res)
      BY <2>3 DEF Verdict
    <3> QED  BY <1>0, <2>2, <3>1, RecordStep
  <2>4. JobsHold' /\ RowsHold'
    BY <2>2, <2>3 DEF Waiting
  <2> QED  BY <1>2, <2>1, <2>2, <2>4
<1>14. CASE Restart
  <2>1. RowsHold' /\ JobsHold' /\ UNCHANGED <<pol, time>>
    BY <1>14, RestartStep
  <2>2. /\ UNCHANGED <<owner, dead, turn, queue, human>> /\ closing' = {} /\ inflight' = None
        /\ closeOn' = [p \in Panes |-> None] /\ conn' = [p \in Panes |-> FALSE]
    BY <1>14 DEF Restart, time
  <2>3. closeOn' \in [Panes -> Crons \cup {None}] /\ closeOn'[Main] = None
    BY <2>2 DEF Panes
  <2>4. conn' \in [Panes -> BOOLEAN]
    BY <2>2
  <2>5. PanesOK'
    BY <1>0, <2>2, <2>3, <2>4 DEF PanesOK
  <2> QED  BY <1>2, <2>1, <2>5 DEF time
<1> QED  BY <1>3, <1>4, <1>5, <1>6, <1>7, <1>8, <1>9, <1>10, <1>11, <1>12, <1>13, <1>14, NextCases

(* The database, the panes and the jobs have their types: a cron is always  *)
(* due at a slot of its schedule plus its jitter, and a job was at work     *)
(* not later than now, with what its phase needs.                           *)
THEOREM CronTypes == Spec => []TypeOK
<1>1. Init => TypeInv
  BY InitTypes, TypesAre
<1>2. TypeInv /\ [Next]_vars => TypeInv'
  <2>1. Types' <=> TypeInv'
    BY TypesAre, PTL
  <2> QED  BY <2>1, NextTypes, TypesAre
<1>3. TypeInv => TypeOK
  BY DEF TypeInv
<1> QED  BY <1>1, <1>2, <1>3, PTL DEF Spec

-----------------------------------------------------------------------------
(* No slot is lost                                                          *)

LEMMA InitHands == Init => HandsOff
BY ActorIs DEF Init, HandsOff, NoJob

LEMMA NextHands ==
  ASSUME Types, HandsOff, [Next]_vars
  PROVE  HandsOff'
<1>0. ByHand \in Actors /\ ByHand \notin Ticks
  BY ActorIs
<1>1. ASSUME jobs'[ByHand] = jobs[ByHand]
      PROVE  HandsOff'
  BY <1>1 DEF HandsOff
<1>2. CASE UNCHANGED vars
  BY <1>1, <1>2 DEF vars, memory
<1>3. CASE Clock
  BY <1>1, <1>3, ClockStep DEF memory
<1>4. ASSUME NEW a \in Ticks, TickStart(a)
      PROVE  HandsOff'
  BY <1>0, <1>1, <1>4, TickStartStep
<1>5. ASSUME NEW c \in Crons, RunNow(c)
      PROVE  HandsOff'
  BY <1>5, RunNowStep DEF HandsOff
<1>6. ASSUME NEW c \in Crons,
             Pause(c) \/ Resume(c) \/ DeleteRow(c) \/ \E s \in Intervals : Edit(c, s)
      PROVE  HandsOff'
  BY <1>1, <1>6, PatchStep, PatchedIs DEF memory
<1>7. CASE PaneEvent
  BY <1>1, <1>7, PaneEventIs
<1>8. ASSUME NEW t \in Tabs, CloseTab(t)
      PROVE  HandsOff'
  BY <1>1, <1>8, CloseTabStep
<1>9. ASSUME NEW a \in Actors, TickEnd(a)
      PROVE  HandsOff'
  BY <1>0, <1>1, <1>9, TickEndStep DEF HandsOff
<1>10. ASSUME NEW a \in Actors, Anchor(a)
       PROVE  HandsOff'
  BY <1>0, <1>1, <1>10, AnchorStep DEF HandsOff
<1>11. ASSUME NEW a \in Actors, NEW c \in Crons, RunDue(a, c)
       PROVE  HandsOff'
  <2>1. jobs[a].phase = "rows" /\ \A b \in Actors \ {a} : jobs'[b] = jobs[b]
    BY <1>11, RunDueStep
  <2> QED  BY <1>0, <1>1, <2>1 DEF HandsOff
<1>12. ASSUME NEW a \in Actors, Acting(a)
       PROVE  HandsOff'
  <2>1. /\ jobs[a].phase \in {"fire", "carry", "tab"} /\ jobs[a].cron \in Crons
        /\ UNCHANGED <<now, pol, base>>
        /\ Waiting(a) \/ \E r, res : Verdict(a, r, res)
    BY <1>12, ActingStep
  <2>2. CASE Waiting(a)
    BY <1>0, <1>1, <2>2 DEF Waiting, HandsOff
  <2>3. ASSUME NEW r, NEW res, Verdict(a, r, res)
        PROVE  HandsOff'
    <3>1. /\ jobs'[a] = JobAfter(a, res) /\ \A b \in Actors \ {a} : jobs'[b] = jobs[b]
      BY <2>1, <2>3, TypesGive, RecordStep DEF Verdict
    <3>2. a = ByHand => jobs'[a] = NoJob
      BY <3>1 DEF JobAfter
    <3> QED  BY <1>0, <1>1, <3>1, <3>2 DEF HandsOff, NoJob
  <2> QED  BY <2>1, <2>2, <2>3
<1>13. CASE Restart
  BY <1>0, <1>13, RestartStep DEF HandsOff, NoJob
<1> QED  BY <1>2, <1>3, <1>4, <1>5, <1>6, <1>7, <1>8, <1>9, <1>10, <1>11, <1>12, <1>13, NextCases

LEMMA RowKeeps ==
  ASSUME NEW c \in Crons, RowSettled(c), base'[c] = base[c], seen[c] \subseteq seen'[c],
         row'[c].live => row[c].live /\ row'[c].sched = row[c].sched /\ row'[c].due = row[c].due
  PROVE  RowSettled(c)'
BY DEF RowSettled, Upto

LEMMA JobKeeps ==
  ASSUME NEW c \in Crons, NEW a \in Ticks, JobSettled(a, c), jobs'[a] = jobs[a],
         base'[c] = base[c], seen[c] \subseteq seen'[c],
         row'[c].live => row[c].live /\ row'[c].sched = row[c].sched
  PROVE  JobSettled(a, c)'
BY DEF JobSettled, Upto, At

LEMMA JobFree ==
  ASSUME NEW c \in Crons, NEW a \in Ticks, jobs'[a].phase \in {"none", "rows"}
  PROVE  JobSettled(a, c)'
BY DEF JobSettled, At

LEMMA InitSettled == Init => Settled
<1> SUFFICES ASSUME Init
             PROVE  Settled
  OBVIOUS
<1>1. base = [c \in Crons |-> 0] /\ seen = [c \in Crons |-> {}] /\ \A a \in Actors : jobs[a] = NoJob
  BY DEF Init
<1>2. base \in [Crons -> Nat] /\ DOMAIN seen = Crons
  BY <1>1
<1>3. ASSUME NEW c \in Crons
      PROVE  RowSettled(c)
  <2>1. PICK s \in Intervals, on \in BOOLEAN :
               row = [d \in Crons |-> [live |-> TRUE, enabled |-> on, sched |-> s, streak |-> 0,
                                       due |-> NextFire(d, s, 0), open |-> {}]]
    BY DEF Init
  <2>2. row[c].due = NextFire(c, s, 0) /\ row[c].sched = s
    BY <2>1
  <2>3. row[c].due - Jitter(c, row[c].sched) = After(s, 0)
    BY <2>2, NextIs
  <2>4. /\ After(s, 0) \in Nat
        /\ \A x \in Int : x % s = 0 /\ 0 < x => After(s, 0) <= x
    BY AfterIs, JitterIs
  <2> QED  BY <1>1, <2>2, <2>3, <2>4 DEF RowSettled, Upto
<1>4. ASSUME NEW c \in Crons, NEW a \in Ticks
      PROVE  JobSettled(a, c)
  BY <1>1, ActorIs DEF JobSettled, At, NoJob
<1> QED  BY <1>2, <1>3, <1>4 DEF Settled

(* The tick takes a due row: the slots up to now are settled, or its own.   *)
LEMMA TakenSettles ==
  ASSUME NEW c \in Crons, NEW r, Armed(c, r), NEW t \in Nat, r.due <= t, NEW b \in Nat, NEW S,
         Upto(r, b, r.due - Jitter(c, r.sched) - 1, S)
  PROVE  Upto(r, b, t - Jitter(c, r.sched), S \cup FiresDue(r, Jitter(c, r.sched), t))
<1> DEFINE j == Jitter(c, r.sched)
           D == FiresDue(r, j, t)
<1>1. \A x \in Int : x \in D <=> r.due - j <= x /\ x <= t - j /\ x % r.sched = 0
  BY DueIs
<1>2. r.due - j \in Nat
  BY DEF Armed
<1> HIDE DEF j, D
<1>3. \A x \in Int : b < x /\ x <= r.due - j - 1 /\ x % r.sched = 0 => x \in S
  BY DEF Upto, j
<1>4. \A x \in Int : b < x /\ x <= t - j /\ x % r.sched = 0 => x \in S \cup D
  <2> SUFFICES ASSUME NEW x \in Int, b < x, x <= t - j, x % r.sched = 0, ~ (r.due - j <= x)
               PROVE  x \in S
    BY <1>1
  <2>1. x <= r.due - j - 1
    BY <1>2
  <2> QED  BY <2>1, <1>3
<1> QED  BY <1>4 DEF Upto, j, D

LEMMA MovedSettles ==
  ASSUME NEW r, r.sched \in Nat \ {0}, NEW t \in Nat, NEW b \in Nat, NEW S, Upto(r, b, t, S)
  PROVE  Upto(r, b, After(r.sched, t) - 1, S)
<1>1. /\ After(r.sched, t) \in Nat
      /\ \A x \in Int : x % r.sched = 0 /\ t < x => After(r.sched, t) <= x
  BY AfterIs
<1> SUFFICES ASSUME NEW x \in Int, b < x, x <= After(r.sched, t) - 1, x % r.sched = 0
             PROVE  x \in S
  BY DEF Upto
<1>2. ~ (t < x)
  BY <1>1
<1>3. x <= t
  BY <1>2
<1> QED  BY <1>3 DEF Upto

(* Nothing about the slots changes in a step that leaves the schedules, the *)
(* anchors and the jobs of the tick, but for one that ends or has no cron.  *)
LEMMA SettledSame ==
  ASSUME Settled, UNCHANGED <<base, seen>>,
         \A c \in Crons : row'[c].live => Like(row'[c], row[c]),
         \A a \in Ticks : jobs'[a] = jobs[a] \/ jobs'[a].phase \in {"none", "rows"}
  PROVE  Settled'
<1>1. ASSUME NEW c \in Crons
      PROVE  RowSettled(c)'
  BY <1>1, RowKeeps DEF Settled, Like
<1>2. ASSUME NEW c \in Crons, NEW a \in Ticks
      PROVE  JobSettled(a, c)'
  <2>1. CASE jobs'[a] = jobs[a]
    BY <2>1, JobKeeps DEF Settled, Like
  <2>2. CASE jobs'[a].phase \in {"none", "rows"}
    BY <2>2, JobFree
  <2> QED  BY <2>1, <2>2
<1> QED  BY <1>1, <1>2 DEF Settled

LEMMA RunDueSettles ==
  ASSUME Types, HandsOff, Settled, NEW a \in Actors, NEW c \in Crons, RunDue(a, c)
  PROVE  Settled'
<1> DEFINE r == row[c]
           t == jobs[a].at
           j == Jitter(c, r.sched)
           S == FiresDue(r, j, t)
<1>1. /\ t \in Nat /\ jobs[a].phase = "rows" /\ Armed(c, r) /\ a \in Ticks
      /\ \A b \in Actors \ {a} : jobs'[b] = jobs[b]
      /\ base \in [Crons -> Nat] /\ DOMAIN seen = Crons
      /\ base' = base
  BY RunDueStep, TypesGive, ActorIs DEF HandsOff, Settled, RunDue
<1>2. \/ /\ jobs'[a].phase = "rows" /\ jobs'[a].at = t /\ UNCHANGED <<row, seen>>
      \/ /\ r.live /\ r.enabled /\ r.due <= t
         /\ jobs'[a].at = t /\ jobs'[a].cron = c /\ jobs'[a].jit = j
         /\ \/ /\ jobs'[a].phase = "fire" /\ jobs'[a].slots = S /\ UNCHANGED <<row, seen>>
            \/ /\ jobs'[a].phase = "anchor" /\ jobs'[a].slots = {}
               /\ seen' = [seen EXCEPT ![c] = @ \cup S]
               /\ row' = Set(row, c, Recorded(r, "missed", FALSE))
  BY RunDueStep
<1>3. \A b \in Ticks \ {a} : jobs'[b] = jobs[b]
  BY <1>1, ActorIs
<1>4. CASE jobs'[a].phase = "rows" /\ UNCHANGED <<row, seen>>
  BY <1>1, <1>3, <1>4, SettledSame DEF Like
<1>5. ASSUME /\ r.live /\ r.due <= t
             /\ jobs'[a].at = t /\ jobs'[a].cron = c /\ jobs'[a].jit = j
             /\ \/ /\ jobs'[a].phase = "fire" /\ jobs'[a].slots = S /\ UNCHANGED <<row, seen>>
                \/ /\ jobs'[a].phase = "anchor" /\ jobs'[a].slots = {}
                   /\ seen' = [seen EXCEPT ![c] = @ \cup S]
                   /\ row' = Set(row, c, Recorded(r, "missed", FALSE))
      PROVE  Settled'
  <2>1. Upto(r, base[c], t - j, seen[c] \cup S)
    <3>1. Upto(r, base[c], r.due - j - 1, seen[c])
      BY <1>5 DEF Settled, RowSettled
    <3>2. base[c] \in Nat
      BY <1>1
    <3> QED  BY <3>1, <3>2, <1>1, <1>5, TakenSettles
  <2> HIDE DEF S, j, t
  <2>3. /\ DOMAIN seen' = Crons /\ \A d \in Crons : seen[d] \subseteq seen'[d]
        /\ seen'[c] \cup jobs'[a].slots = seen[c] \cup S
    <3>1. CASE jobs'[a].slots = S /\ UNCHANGED <<row, seen>>
      BY <1>1, <3>1
    <3>2. CASE seen' = [seen EXCEPT ![c] = @ \cup S] /\ jobs'[a].slots = {}
      BY <1>1, <3>2
    <3> QED  BY <1>5, <3>1, <3>2
  <2>4. \A d \in Crons : Like(row'[d], row[d])
    <3>1. CASE UNCHANGED row
      BY <3>1 DEF Like
    <3>2. CASE row' = Set(row, c, Recorded(r, "missed", FALSE))
      <4>1. Like(Recorded(r, "missed", FALSE), r)
        BY <1>1, RecordedIs
      <4>2. row \in [Crons -> RowOf]
        BY TypesGive DEF RowsHold
      <4> QED  BY <4>1, <4>2, <3>2 DEF Set, Like
    <3> QED  BY <1>5, <3>1, <3>2
  <2>5. ASSUME NEW d \in Crons
        PROVE  RowSettled(d)'
    BY <2>3, <2>4, <1>1, RowKeeps DEF Settled, Like
  <2>6. ASSUME NEW d \in Crons, NEW b \in Ticks
        PROVE  JobSettled(b, d)'
    <3>1. CASE b # a
      BY <2>3, <2>4, <1>1, <1>3, <3>1, JobKeeps DEF Settled, Like
    <3>2. CASE b = a /\ d # c
      BY <1>5, <3>2 DEF JobSettled, At
    <3>3. CASE b = a /\ d = c
      <4>1. row'[c].sched = r.sched
        BY <2>4 DEF Like
      <4>2. Upto(row'[c], base'[c], jobs'[a].at - jobs'[a].jit, seen'[c] \cup jobs'[a].slots)
        BY <4>1, <2>1, <2>3, <1>1, <1>5 DEF Upto
      <4>3. jobs'[a].phase = "anchor" => jobs'[a].slots = {}
        BY <1>5
      <4> QED  BY <3>3, <4>2, <4>3 DEF JobSettled
    <3> QED  BY <3>1, <3>2, <3>3
  <2> QED  BY <2>3, <2>5, <2>6, <1>1 DEF Settled
<1> QED  BY <1>2, <1>4, <1>5

LEMMA AnchorSettles ==
  ASSUME Types, HandsOff, Settled, NEW a \in Actors, Anchor(a)
  PROVE  Settled'
<1>0. PICK c \in Crons : c = jobs[a].cron
  BY AnchorStep
<1> DEFINE q == Anchored(c, row[c], jobs[a])
           t == jobs[a].at - jobs[a].jit
<1>1. /\ UNCHANGED <<seen, base>>
      /\ jobs[a].phase = "anchor" /\ jobs'[a].phase = "rows"
      /\ c \in Crons /\ t \in Nat /\ Armed(c, row[c])
      /\ \A b \in Actors \ {a} : jobs'[b] = jobs[b]
      /\ row'[c] = IF row[c].live THEN q ELSE row[c]
      /\ \A d \in Crons \ {c} : row'[d] = row[d]
      /\ Armed(c, q) /\ q.live = row[c].live /\ q.sched = row[c].sched
      /\ \/ q.due = row[c].due
         \/ q.due - Jitter(c, q.sched) = After(q.sched, t)
  BY <1>0, AnchorStep, TypesGive DEF history, slots
<1>2. a \in Ticks /\ \A b \in Ticks \ {a} : jobs'[b] = jobs[b]
  BY <1>1, ActorIs DEF HandsOff
<1>3. /\ base \in [Crons -> Nat] /\ row[c].sched \in Nat \ {0}
      /\ row[c].live => Upto(row[c], base[c], t, seen[c])
  <2>1. JobSettled(a, c) /\ At(a, c)
    BY <1>0, <1>1, <1>2 DEF Settled, At
  <2>2. row[c].sched \in Nat \ {0}
    BY <1>1, JitterIs DEF Armed, RowOf
  <2>3. jobs[a].slots = {} /\ seen[c] \cup {} = seen[c]
    BY <1>1, <2>1 DEF JobSettled
  <2> QED  BY <2>1, <2>2, <2>3 DEF JobSettled, Settled
<1> HIDE DEF q, t
<1>4. ASSUME NEW d \in Crons, d # c \/ ~row[c].live \/ q.due = row[c].due
      PROVE  RowSettled(d)'
  BY <1>1, <1>4, RowKeeps DEF Settled
<1>5. ASSUME row[c].live, q.due - Jitter(c, q.sched) = After(q.sched, t)
      PROVE  RowSettled(c)'
  <2>1. row'[c] = q /\ base[c] \in Nat /\ q.sched \in Nat \ {0}
    BY <1>1, <1>3, <1>5
  <2>2. Upto(q, base[c], t, seen[c])
    BY <1>1, <1>3, <1>5 DEF Upto
  <2>3. Upto(q, base[c], After(q.sched, t) - 1, seen[c])
    BY <2>1, <2>2, <1>1, MovedSettles
  <2>4. row'[c].due - Jitter(c, row'[c].sched) - 1 = After(q.sched, t) - 1
    BY <2>1, <1>5
  <2>5. Upto(row'[c], base'[c], row'[c].due - Jitter(c, row'[c].sched) - 1, seen'[c])
    BY <2>1, <2>3, <2>4, <1>1
  <2> QED  BY <2>5 DEF RowSettled
<1>6. ASSUME NEW d \in Crons, NEW b \in Ticks
      PROVE  JobSettled(b, d)'
  <2>1. CASE b = a
    BY <1>1, <2>1, JobFree
  <2>2. CASE b # a
    <3>1. row'[d].live => row[d].live /\ row'[d].sched = row[d].sched
      BY <1>1
    <3> QED  BY <1>1, <1>2, <2>2, <3>1, JobKeeps DEF Settled
  <2> QED  BY <2>1, <2>2
<1>7. RowSettled(c)'
  <2>1. CASE ~row[c].live \/ q.due = row[c].due
    BY <2>1, <1>1, <1>4
  <2> QED  BY <2>1, <1>1, <1>5
<1>8. \A d \in Crons \ {c} : RowSettled(d)'
  BY <1>4
<1> QED  BY <1>1, <1>6, <1>7, <1>8 DEF Settled

LEMMA ActingSettles ==
  ASSUME Types, Settled, NEW a \in Actors, Acting(a)
  PROVE  Settled'
<1> DEFINE c == jobs[a].cron
<1>1. /\ jobs[a].phase \in {"fire", "carry", "tab"} /\ c \in Crons
      /\ base' = base /\ (Waiting(a) \/ \E r, res : Verdict(a, r, res))
  BY ActingStep
<1>2. /\ base \in [Crons -> Nat] /\ DOMAIN seen = Crons
      /\ \A d \in Crons : RowSettled(d) /\ \A b \in Ticks : JobSettled(b, d)
      /\ \A b \in Actors : b \in Ticks <=> b # ByHand
  BY ActorIs DEF Settled
<1>3. CASE Waiting(a)
  <2>1. /\ jobs'[a].phase \in {"carry", "tab"} /\ jobs'[a].cron = c /\ jobs'[a].at = jobs[a].at
        /\ jobs'[a].jit = jobs[a].jit /\ jobs'[a].slots = jobs[a].slots
        /\ \A b \in Actors \ {a} : jobs'[b] = jobs[b]
        /\ UNCHANGED <<row, seen>>
    BY <1>3 DEF Waiting, slots
  <2>2. ASSUME NEW d \in Crons
        PROVE  RowSettled(d)'
    BY <1>1, <2>1, RowKeeps DEF Settled
  <2>3. ASSUME NEW d \in Crons, NEW b \in Ticks
        PROVE  JobSettled(b, d)'
    <3>1. CASE b # a
      <4>1. jobs'[b] = jobs[b]
        BY <2>1, <3>1, ActorIs
      <4> QED  BY <4>1, <1>1, <2>1, JobKeeps DEF Settled
    <3>2. CASE b = a
      <4>1. At(a, d)' => At(a, d)
        BY <1>1, <2>1 DEF At
      <4>2. JobSettled(a, d)
        BY <1>2, <3>2
      <4>3. row' = row /\ base' = base /\ seen' = seen
        BY <1>1, <2>1
      <4>4. jobs'[a].phase # "anchor"
        BY <2>1
      <4> QED  BY <4>1, <4>2, <4>3, <4>4, <2>1, <3>2 DEF JobSettled
    <3> QED  BY <3>1, <3>2
  <2> QED  BY <1>1, <1>2, <2>1, <2>2, <2>3 DEF Settled
<1>4. ASSUME NEW r, NEW res, Verdict(a, r, res)
      PROVE  Settled'
  <2> DEFINE q == Recorded(r, res, a = ByHand)
             rest == jobs[a].slots \ Served(c, jobs[a].slots)
  <2>1. /\ jobs'[a] = JobAfter(a, res) /\ \A b \in Actors \ {a} : jobs'[b] = jobs[b]
        /\ \A d \in Crons \ {c} : row'[d] = row[d]
        /\ row'[c] = IF row[c].live THEN q ELSE row[c]
        /\ Like(q, r) /\ Like(r, row[c])
        /\ jobs[a].slots \in SUBSET Int
    <3>1. JobsHold /\ RowsHold /\ UNCHANGED <<now, pol>> /\ JobOK(jobs[a])
      BY TypesGive, ActingStep DEF JobsHold
    <3>2. Armed(c, r) /\ Record(a, r, res) /\ Like(r, row[c])
      BY <1>4 DEF Verdict
    <3>3. jobs[a].slots \in SUBSET Int
      BY <1>1, <3>1, PhaseIs
    <3> QED  BY <1>1, <3>1, <3>2, <3>3, RecordStep
  <2>2. \A d \in Crons : Like(row'[d], row[d])
    BY <2>1 DEF Like
  <2>3. seen' = IF a = ByHand \/ res = "deferred" THEN seen
                ELSE [seen EXCEPT ![c] = @ \cup Served(c, jobs[a].slots)]
    BY <1>4 DEF Verdict, Record
  <2>4. /\ a = ByHand => jobs'[a] = NoJob
        /\ a # ByHand /\ res = "deferred" => jobs'[a].phase = "rows"
        /\ a # ByHand /\ res # "deferred" =>
             /\ jobs'[a].phase = (IF rest = {} THEN "anchor" ELSE "fire")
             /\ jobs'[a].cron = c /\ jobs'[a].at = jobs[a].at /\ jobs'[a].jit = jobs[a].jit
             /\ jobs'[a].slots = rest
    BY <1>1, <2>1, TypesGive, AfterFire
  <2>5. CASE a = ByHand \/ res = "deferred"
    <3>1. jobs'[a].phase \in {"none", "rows"}
      BY <2>4, <2>5 DEF NoJob
    <3>2. \A b \in Ticks : jobs'[b] = jobs[b] \/ jobs'[b].phase \in {"none", "rows"}
      BY <2>1, <3>1, ActorIs
    <3>3. UNCHANGED <<base, seen>>
      BY <1>1, <2>3, <2>5
    <3> HIDE DEF c, q, rest
    <3> QED  BY <2>2, <3>2, <3>3, SettledSame
  <2>6. CASE a # ByHand /\ res # "deferred"
    <3> DEFINE V == Served(c, jobs[a].slots)
    <3>1. seen' = [seen EXCEPT ![c] = @ \cup V]
      BY <2>3, <2>6
    <3>2. /\ jobs'[a].phase = (IF rest = {} THEN "anchor" ELSE "fire")
          /\ jobs'[a].cron = c /\ jobs'[a].at = jobs[a].at /\ jobs'[a].jit = jobs[a].jit
          /\ jobs'[a].slots = rest
      BY <2>4, <2>6
    <3> HIDE DEF q, V
    <3>3. /\ DOMAIN seen' = Crons /\ \A d \in Crons : seen[d] \subseteq seen'[d]
          /\ seen[c] \cup jobs[a].slots \subseteq seen'[c] \cup rest
      BY <1>1, <1>2, <3>1 DEF V
    <3> HIDE DEF rest
    <3>4. ASSUME NEW d \in Crons
          PROVE  RowSettled(d)'
      BY <1>1, <2>2, <3>3, RowKeeps DEF Like, Settled
    <3>5. ASSUME NEW d \in Crons, NEW b \in Ticks
          PROVE  JobSettled(b, d)'
      <4>1. CASE b # a
        <5>1. jobs'[b] = jobs[b]
          BY <2>1, <4>1, ActorIs
        <5> QED  BY <5>1, <1>1, <2>2, <3>3, JobKeeps DEF Like, Settled
      <4>2. CASE b = a /\ d # c
        BY <3>2, <4>2 DEF JobSettled, At
      <4>3. CASE b = a /\ d = c
        <5>1. JobSettled(a, c) /\ At(a, c)
          BY <1>1, <1>2, <4>3 DEF At
        <5>2. row'[c].live => row[c].live /\ row'[c].sched = row[c].sched
          BY <1>1, <2>2 DEF Like
        <5>3. row'[c].live =>
                Upto(row'[c], base'[c], jobs'[a].at - jobs'[a].jit, seen'[c] \cup jobs'[a].slots)
          BY <5>1, <5>2, <3>2, <3>3, <1>1 DEF JobSettled, Upto
        <5>4. jobs'[a].phase = "anchor" => jobs'[a].slots = {}
          BY <3>2
        <5> QED  BY <4>3, <5>3, <5>4 DEF JobSettled
      <4> QED  BY <4>1, <4>2, <4>3
    <3> QED  BY <1>1, <1>2, <3>3, <3>4, <3>5 DEF Settled
  <2> QED  BY <2>5, <2>6
<1> QED  BY <1>1, <1>3, <1>4

LEMMA PatchSettles ==
  ASSUME Types, Settled, NEW c \in Crons, NEW r, Patches(c, r)
  PROVE  Settled'
<1>1. /\ row'[c] = r /\ row[c].live /\ \A d \in Crons \ {c} : row'[d] = row[d]
      /\ UNCHANGED <<jobs, seen>> /\ now \in Nat
      /\ base \in [Crons -> Nat] /\ DOMAIN seen = Crons
      /\ Armed(c, r) /\ r.sched \in Nat \ {0}
  BY PatchedIs, TypesGive, JitterIs DEF Patches, memory, slots, Settled, Armed, RowOf
<1>2. base' = IF r.due = row[c].due /\ r.sched = row[c].sched THEN base ELSE Set(base, c, now)
  BY DEF Patches, Patch
<1>3. CASE base' = base /\ (r.live => Like(r, row[c]))
  BY <1>1, <1>3, SettledSame DEF Like
<1>4. CASE r.live => ~Like(r, row[c])
  <2>1. base' \in [Crons -> Nat] /\ \A d \in Crons \ {c} : base'[d] = base[d]
    BY <1>1, <1>2 DEF Set
  <2>2. r.live => base'[c] = now /\ r.due - Jitter(c, r.sched) = After(r.sched, now)
    <3>1. r.live => Moved(c, r, row[c], now)
      BY <1>4 DEF Patches
    <3> QED  BY <3>1, <1>1, <1>2, <1>4 DEF Moved, Like, Set
  <2>3. RowSettled(c)'
    <3>1. Upto(r, now, now, seen[c])
      BY <1>1 DEF Upto
    <3>2. Upto(r, now, After(r.sched, now) - 1, seen[c])
      BY <3>1, <1>1, MovedSettles
    <3> QED  BY <3>2, <1>1, <2>2 DEF RowSettled, Upto
  <2>4. ASSUME NEW a \in Ticks
        PROVE  JobSettled(a, c)'
    <3>1. JobSettled(a, c) /\ JobOK(jobs[a]) /\ a \in Actors
      BY TypesGive, ActorIs DEF Settled, JobsHold
    <3>2. At(a, c) => /\ jobs[a].at - jobs[a].jit <= now /\ jobs[a].at - jobs[a].jit \in Nat
      BY <3>1, <1>1, PhaseIs DEF At
    <3>3. At(a, c) /\ r.live => Upto(r, now, jobs[a].at - jobs[a].jit, seen[c] \cup jobs[a].slots)
      BY <3>2, <1>1 DEF Upto
    <3> QED  BY <1>1, <2>2, <3>1, <3>3 DEF JobSettled, At
  <2>5. \A d \in Crons \ {c} : RowSettled(d)'
    BY <1>1, <2>1, RowKeeps DEF Settled
  <2>6. \A d \in Crons \ {c}, a \in Ticks : JobSettled(a, d)'
    BY <1>1, <2>1, JobKeeps DEF Settled
  <2> QED  BY <1>1, <2>1, <2>3, <2>4, <2>5, <2>6 DEF Settled
<1>5. r.live /\ Like(r, row[c]) => base' = base
  BY <1>2 DEF Like
<1>6. CASE ~r.live
  BY <1>4, <1>6
<1> QED  BY <1>3, <1>4, <1>5, <1>6

LEMMA NextSettled ==
  ASSUME Types, HandsOff, Settled, [Next]_vars
  PROVE  Settled'
<1>1. ASSUME UNCHANGED <<row, jobs, base, seen>>
      PROVE  Settled'
  BY <1>1, SettledSame DEF Like
<1>2. CASE UNCHANGED vars
  BY <1>1, <1>2 DEF vars, memory, history, slots
<1>3. CASE Clock
  BY <1>1, <1>3, ClockStep DEF memory, history, slots
<1>4. ASSUME NEW a \in Ticks, TickStart(a)
      PROVE  Settled'
  <2>1. \A b \in Ticks : jobs'[b] = jobs[b] \/ jobs'[b].phase = "rows"
    BY <1>4, TickStartStep, ActorIs
  <2>2. UNCHANGED <<row, base, seen>>
    BY <1>4, TickStartStep DEF history, slots
  <2> QED  BY <2>1, <2>2, SettledSame DEF Like
<1>5. ASSUME NEW c \in Crons, RunNow(c)
      PROVE  Settled'
  <2>1. (\A b \in Ticks : jobs'[b] = jobs[b]) /\ UNCHANGED <<row, base, seen>>
    BY <1>5, RunNowStep DEF history, slots
  <2> QED  BY <2>1, SettledSame DEF Like
<1>6. ASSUME NEW c \in Crons,
             Pause(c) \/ Resume(c) \/ DeleteRow(c) \/ \E s \in Intervals : Edit(c, s)
      PROVE  Settled'
  BY <1>6, PatchStep, PatchSettles
<1>7. CASE PaneEvent
  BY <1>1, <1>7, PaneEventIs DEF slots
<1>8. ASSUME NEW t \in Tabs, CloseTab(t)
      PROVE  Settled'
  BY <1>8, CloseTabStep, SettledSame DEF slots
<1>9. ASSUME NEW a \in Actors, TickEnd(a)
      PROVE  Settled'
  <2>1. \A b \in Ticks : jobs'[b] = jobs[b] \/ jobs'[b].phase = "none"
    BY <1>9, TickEndStep, ActorIs
  <2>2. UNCHANGED <<row, base, seen>>
    BY <1>9, TickEndStep DEF history, slots
  <2> QED  BY <2>1, <2>2, SettledSame DEF Like
<1>10. CASE Restart
  <2>1. \A b \in Ticks : jobs'[b].phase = "none"
    BY <1>10, RestartStep, ActorIs DEF NoJob
  <2>2. UNCHANGED <<row, base, seen>>
    BY <1>10, RestartStep
  <2> QED  BY <2>1, <2>2, SettledSame DEF Like
<1> QED  BY <1>2, <1>3, <1>4, <1>5, <1>6, <1>7, <1>8, <1>9, <1>10, NextCases,
            AnchorSettles, RunDueSettles, ActingSettles

LEMMA SettledLosesNone ==
  ASSUME Types, Settled
  PROVE  NoSlotLost
<1> SUFFICES ASSUME NEW c \in Crons, row[c].live,
                    NEW x \in (base[c] + 1) .. (row[c].due - Jitter(c, row[c].sched) - 1),
                    x % row[c].sched = 0
             PROVE  x \in seen[c]
  BY DEF NoSlotLost
<1>1. base[c] \in Nat /\ row[c].due - Jitter(c, row[c].sched) \in Nat
  BY TypesGive DEF Armed, Settled
<1>2. Upto(row[c], base[c], row[c].due - Jitter(c, row[c].sched) - 1, seen[c])
  BY DEF Settled, RowSettled
<1> DEFINE m == row[c].due - Jitter(c, row[c].sched) - 1
<1>3. m \in Int
  BY <1>1
<1> HIDE DEF m
<1>4. x \in Int /\ base[c] < x /\ x <= m
  BY <1>1, <1>3 DEF m
<1> QED  BY <1>2, <1>4 DEF Upto, m

(* No slot is lost: whatever the jitter, an outage, a catch-up, a deferral  *)
(* or a crash between a fire and the new anchor, each slot before the one   *)
(* a row is due at was fired or dropped by a rule, since the row was        *)
(* anchored.                                                                *)
THEOREM SlotsAreKept == Spec => []NoSlotLost
<1> DEFINE IInv == TypeInv /\ HandsOff /\ Settled
<1>1. Init => IInv
  BY InitTypes, InitHands, InitSettled, TypesAre
<1>2. IInv /\ [Next]_vars => IInv'
  <2>1. Types' <=> TypeInv'
    BY TypesAre, PTL
  <2> QED  BY <2>1, TypesAre, NextTypes, NextHands, NextSettled
<1>3. IInv => NoSlotLost
  BY TypesAre, SettledLosesNone
<1> QED  BY <1>1, <1>2, <1>3, PTL DEF Spec

-----------------------------------------------------------------------------
(* A slot is fired once                                                     *)

LEMMA InitOnce == Init => Once
<1> SUFFICES ASSUME Init
             PROVE  Once
  OBVIOUS
<1>1. /\ fired = [c \in Crons |-> {}] /\ ~again /\ \A a \in Ticks : jobs[a] = NoJob
  BY ActorIs DEF Init
<1>2. \A c \in Crons : Before(c)
  BY <1>1 DEF Before
<1>3. OnePass /\ \A a \in Ticks, c \in Crons : Unfired(a, c)
  BY <1>1 DEF OnePass, Busy, Unfired, At, NoJob
<1> QED  BY <1>1, <1>2, <1>3 DEF Once

LEMMA BeforeKeeps ==
  ASSUME NEW c \in Crons, Before(c), fired'[c] \subseteq fired[c],
         row'[c].live /\ row'[c].enabled => row[c].enabled /\ Like(row'[c], row[c])
  PROVE  Before(c)'
BY DEF Before, Like

LEMMA UnfiredKeeps ==
  ASSUME NEW a \in Ticks, NEW c \in Crons, Unfired(a, c), jobs'[a] = jobs[a], pol' = pol,
         fired'[c] = fired[c], Before(c) => Before(c)', human' = human \/ Waits(a)
  PROVE  Unfired(a, c)'
<1>1. At(a, c)' => At(a, c)
  BY DEF At
<1>2. jobs[a].phase = "fire" => (InQuiet(jobs[a].at)' => InQuiet(jobs[a].at))
  BY DEF InQuiet, Waits
<1> DEFINE B == Before(c)
           Q == InQuiet(jobs[a].at)
<1>3. B => B'
  OBVIOUS
<1>4. jobs[a].phase = "fire" => (Q' => Q)
  BY <1>2
<1> SUFFICES ASSUME At(a, c)'
             PROVE  /\ \A x \in jobs[a].slots \cup fired[c] : x <= jobs[a].at - jobs[a].jit
                    /\ jobs[a].slots \cap fired[c] = {}
                    /\ jobs[a].phase = "anchor" <=> jobs[a].slots = {}
                    /\ jobs[a].phase # "anchor" /\ pol[c].catchup # "all" => B'
                    /\ jobs[a].phase = "fire" /\ ~pol[c].tab /\ pol[c].quiet => B' \/ ~Q'
                    /\ jobs[a].phase \in {"carry", "tab"} => pol[c].tab \/ pol[c].rotate
  BY DEF Unfired
<1>5. At(a, c) /\ Unfired(a, c)
  BY <1>1
<1>6. /\ \A x \in jobs[a].slots \cup fired[c] : x <= jobs[a].at - jobs[a].jit
      /\ jobs[a].slots \cap fired[c] = {}
      /\ jobs[a].phase = "anchor" <=> jobs[a].slots = {}
      /\ jobs[a].phase # "anchor" /\ pol[c].catchup # "all" => B
      /\ jobs[a].phase = "fire" /\ ~pol[c].tab /\ pol[c].quiet => B \/ ~Q
      /\ jobs[a].phase \in {"carry", "tab"} => pol[c].tab \/ pol[c].rotate
  BY <1>5 DEF Unfired
<1> HIDE DEF B, Q
<1> QED  BY <1>3, <1>4, <1>6

LEMMA UnfiredFree ==
  ASSUME NEW a \in Ticks, NEW c \in Crons, ~At(a, c)'
  PROVE  Unfired(a, c)'
BY DEF Unfired

(* A step that fires nothing and moves no slot keeps what is said of fires; *)
(* a job that ends leaves its cron before the slot it is due at.            *)
LEMMA OnceSame ==
  ASSUME Once, UNCHANGED <<fired, pol>>, ~again', now' >= now, now \in Nat, now' \in Nat,
         \A c \in Crons : row'[c].live /\ row'[c].enabled =>
                            row[c].enabled /\ Like(row'[c], row[c]),
         \A a \in Ticks : \/ jobs'[a] = jobs[a] /\ (human' = human \/ Waits(a))
                          \/ jobs[a].phase \in {"none", "rows"} /\ jobs'[a].phase \in {"none", "rows"},
         OnePass'
  PROVE  Once'
<1>1. \A c \in Crons : Before(c) => Before(c)'
  BY BeforeKeeps
<1>2. ASSUME NEW a \in Ticks, NEW c \in Crons
      PROVE  Unfired(a, c)'
  <2>1. CASE jobs'[a] = jobs[a] /\ (human' = human \/ Waits(a))
    BY <1>1, <2>1, UnfiredKeeps DEF Once
  <2>2. CASE jobs'[a].phase \in {"none", "rows"}
    BY <2>2, UnfiredFree DEF At
  <2> QED  BY <2>1, <2>2
<1>3. \A a \in Ticks, c \in Crons : At(a, c)' <=> At(a, c)
  BY DEF At
<1>4. \A c \in Crons : (\A a \in Ticks : ~At(a, c)') => Before(c)'
  BY <1>1, <1>3 DEF Once
<1>5. \A c \in Crons : \A x \in fired'[c] : x \in Nat /\ x <= now'
  BY DEF Once
<1> QED  BY <1>2, <1>4, <1>5 DEF Once

\* A tick at work is alone.
LEMMA Alone ==
  ASSUME Once, NEW a \in Ticks, Busy(a)
  PROVE  \A b \in Ticks \ {a}, c \in Crons : ~Busy(b) /\ ~At(b, c)
BY DEF Once, OnePass, Busy, At

LEMMA FreeIsBefore ==
  ASSUME Once, NEW a \in Ticks, Busy(a), NEW c \in Crons, ~At(a, c)
  PROVE  Before(c)
<1>1. \A b \in Ticks : ~At(b, c)
  BY Alone
<1> QED  BY <1>1 DEF Once

LEMMA RunDueOnce ==
  ASSUME Types, HandsOff, Once, NEW a \in Actors, NEW c \in Crons, RunDue(a, c)
  PROVE  Once'
<1> DEFINE r == row[c]
           t == jobs[a].at
           j == Jitter(c, r.sched)
           S == FiresDue(r, j, t)
<1>1. /\ t \in Nat /\ jobs[a].phase = "rows" /\ Armed(c, r) /\ a \in Ticks /\ Busy(a)
      /\ \A b \in Ticks \ {a} : jobs'[b] = jobs[b]
      /\ UNCHANGED <<fired, again, now, human, pol>>
  <2>1. /\ t \in Nat /\ jobs[a].phase = "rows"
        /\ \A b \in Actors \ {a} : jobs'[b] = jobs[b]
    BY RunDueStep
  <2>2. a \in Ticks /\ Busy(a)
    BY <2>1, ActorIs DEF HandsOff, Busy
  <2>3. \A b \in Ticks \ {a} : jobs'[b] = jobs[b]
    BY <2>1, ActorIs
  <2>4. Armed(c, r)
    BY TypesGive
  <2>5. UNCHANGED <<fired, again, now, human, pol>>
    BY DEF RunDue, time
  <2> HIDE DEF t, r
  <2> QED  BY <2>1, <2>2, <2>3, <2>4, <2>5
<1>2. \/ /\ jobs'[a].phase = "rows" /\ UNCHANGED row
      \/ /\ r.live /\ r.enabled /\ r.due <= t
         /\ jobs'[a].at = t /\ jobs'[a].cron = c /\ jobs'[a].jit = j
         /\ \/ /\ jobs'[a].phase = "fire" /\ jobs'[a].slots = S /\ UNCHANGED row
            \/ /\ jobs'[a].phase = "anchor" /\ jobs'[a].slots = {}
               /\ row' = Set(row, c, Recorded(r, "missed", FALSE))
  BY RunDueStep
<1>3. \A d \in Crons : Before(d)
  BY <1>1, FreeIsBefore DEF At
<1>4. \A d \in Crons : Like(row'[d], row[d]) /\ (row'[d].enabled => row[d].enabled)
  <2>1. CASE UNCHANGED row
    BY <2>1 DEF Like
  <2>2. CASE row' = Set(row, c, Recorded(r, "missed", FALSE))
    <3>1. /\ Like(Recorded(r, "missed", FALSE), r)
          /\ Recorded(r, "missed", FALSE).enabled => r.enabled
      BY <1>1, RecordedIs
    <3>2. row \in [Crons -> RowOf]
      BY TypesGive DEF RowsHold
    <3> HIDE DEF r
    <3> QED  BY <3>1, <3>2, <2>2 DEF Set, Like, r
  <2> QED  BY <1>2, <2>1, <2>2
<1>5. \A d \in Crons : Before(d)'
  BY <1>1, <1>3, <1>4, BeforeKeeps
<1>6. OnePass'
  BY <1>1 DEF Once, OnePass, Busy
<1>7. ASSUME NEW d \in Crons, NEW b \in Ticks
      PROVE  Unfired(b, d)'
  <2>1. CASE b # a
    <3>1. ~At(b, d)'
      BY <2>1, <1>1, Alone DEF At
    <3> QED  BY <3>1, UnfiredFree
  <2>2. CASE b = a /\ ~At(a, d)'
    BY <2>2, UnfiredFree
  <2>3. CASE b = a /\ At(a, d)'
    <3>1. /\ d = c /\ r.live /\ r.enabled /\ r.due <= t
          /\ jobs'[a].at = t /\ jobs'[a].jit = j
          /\ \/ jobs'[a].phase = "fire" /\ jobs'[a].slots = S
             \/ jobs'[a].phase = "anchor" /\ jobs'[a].slots = {}
      BY <2>3, <1>2 DEF At
    <3>2. /\ S # {} /\ j \in Nat /\ \A x \in S : r.due - j <= x /\ x <= t - j
          /\ S \in SUBSET Nat
      <4>1. /\ S \in SUBSET Nat /\ S # {} /\ j \in Nat
            /\ \A x \in Int : x \in S <=> r.due - j <= x /\ x <= t - j /\ x % r.sched = 0
        BY <3>1, <1>1, DueIs
      <4> HIDE DEF S, j
      <4>2. S \in SUBSET Nat
        BY <4>1
      <4>3. ASSUME NEW x \in S
            PROVE  r.due - j <= x /\ x <= t - j
        <5>1. x \in Int
          BY <4>2
        <5> QED  BY <4>1, <5>1
      <4> QED  BY <4>1, <4>3
    <3>3. \A x \in fired[c] : x + j < r.due /\ x \in Nat
      BY <3>1, <1>3 DEF Before, Once
    <3>4. r.due \in Nat
      BY <1>1 DEF Armed, RowOf
    <3> HIDE DEF S, j, r, t
    <3>5. \A x \in jobs'[a].slots \cup fired[c] : x <= t - j
      <4>1. \A x \in fired[c] : x <= t - j
        <5>1. r.due - j <= t - j
          BY <3>1, <3>2, <3>4, <1>1
        <5>2. \A x \in fired[c] : x <= r.due - j
          BY <3>2, <3>3, <3>4
        <5> QED  BY <5>1, <5>2, <3>2, <3>3, <3>4, <1>1
      <4>2. \A x \in jobs'[a].slots : x \in S
        BY <3>1
      <4> QED  BY <4>1, <4>2, <3>2
    <3>6. jobs'[a].slots \cap fired[c] = {}
      <4>1. \A x \in S : x \notin fired[c]
        BY <3>2, <3>3, <3>4
      <4> QED  BY <3>1, <4>1
    <3>7. jobs'[a].phase = "anchor" <=> jobs'[a].slots = {}
      BY <3>1, <3>2
    <3> QED  BY <2>3, <3>1, <3>5, <3>6, <3>7, <1>1, <1>5 DEF Unfired
  <2> QED  BY <2>1, <2>2, <2>3
<1> QED  BY <1>1, <1>5, <1>6, <1>7 DEF Once

LEMMA AnchorOnce ==
  ASSUME Types, HandsOff, Once, NEW a \in Actors, Anchor(a)
  PROVE  Once'
<1>0. PICK c \in Crons : c = jobs[a].cron
  BY AnchorStep
<1> DEFINE q == Anchored(c, row[c], jobs[a])
           t == jobs[a].at - jobs[a].jit
<1>1. /\ UNCHANGED <<fired, again, now, pol>>
      /\ jobs[a].phase = "anchor" /\ jobs'[a].phase = "rows" /\ t \in Nat
      /\ row'[c] = IF row[c].live THEN q ELSE row[c]
      /\ \A d \in Crons \ {c} : row'[d] = row[d]
      /\ ~q.enabled \/ q.due - Jitter(c, q.sched) = After(q.sched, t)
      /\ Armed(c, q)
  BY <1>0, AnchorStep DEF history, slots
<1>2. /\ a \in Ticks /\ Busy(a) /\ \A b \in Ticks \ {a} : jobs'[b] = jobs[b]
  BY <1>0, <1>1, AnchorStep, ActorIs DEF HandsOff, Busy
<1>3. \A b \in Ticks, d \in Crons : ~At(b, d)'
  BY <1>1, <1>2, Alone DEF At
<1> HIDE DEF q, t
<1>4. \A d \in Crons \ {c} : Before(d)'
  <2>1. \A d \in Crons \ {c} : Before(d)
    BY <1>0, <1>2, FreeIsBefore DEF At
  <2> QED  BY <2>1, <1>1, BeforeKeeps DEF Like
<1>5. Before(c)'
  <2> SUFFICES ASSUME row'[c].live, row'[c].enabled, NEW x \in fired[c]
               PROVE  x + Jitter(c, row'[c].sched) < row'[c].due
    BY <1>1 DEF Before
  <2>1. CASE ~row[c].live
    BY <2>1, <1>1
  <2>2. CASE row[c].live
    <3>1. row'[c] = q /\ q.due - Jitter(c, q.sched) = After(q.sched, t)
      BY <2>2, <1>1
    <3>2. x <= t /\ x \in Nat
      <4>1. Unfired(a, c) /\ At(a, c)
        BY <1>0, <1>1, <1>2 DEF Once, At
      <4> QED  BY <4>1 DEF Unfired, Once, t
    <3>3. q.sched \in Nat \ {0} /\ Jitter(c, q.sched) \in Nat /\ q.due \in Nat
      BY <1>1, JitterIs DEF Armed, RowOf
    <3>4. t < After(q.sched, t) /\ After(q.sched, t) \in Nat
      BY <3>3, <1>1, AfterIs
    <3> QED  BY <3>1, <3>2, <3>3, <3>4, <1>1
  <2> QED  BY <2>1, <2>2
<1>6. OnePass'
  BY <1>1, <1>2 DEF Once, OnePass, Busy
<1>7. \A b \in Ticks, d \in Crons : Unfired(b, d)'
  BY <1>3, UnfiredFree
<1> QED  BY <1>1, <1>4, <1>5, <1>6, <1>7 DEF Once

\* The slot a fire stands for is among those it serves; it serves all, or
\* the tick catches up.
LEMMA SlotIs ==
  ASSUME NEW c \in Crons, NEW S \in SUBSET Nat, NEW m \in Nat, S # {}, \A x \in S : x <= m
  PROVE  /\ Slot(c, S) \in S /\ Slot(c, S) \in Served(c, S) /\ Served(c, S) \in SUBSET S
         /\ pol[c].catchup # "all" => Served(c, S) = S
<1>1. S \in SUBSET Int /\ \A x \in S : 0 <= x
  OBVIOUS
<1>2. 0 \in Int /\ m \in Int
  OBVIOUS
<1>3. Min(S) \in S
  BY <1>1, <1>2, MinIs
<1>4. Max(S) \in S
  BY <1>1, <1>2, MaxIs
<1> QED  BY <1>3, <1>4 DEF Slot, Served

LEMMA WaitingOnce ==
  ASSUME Types, Once, NEW a \in Ticks, Waiting(a), UNCHANGED <<now, pol, human>>
  PROVE  Once'
<1>1. /\ \A b \in Ticks \ {a} : jobs'[b] = jobs[b]
      /\ UNCHANGED <<row, fired, again>>
      /\ jobs'[a].phase \in {"carry", "tab"} /\ jobs'[a].cron = jobs[a].cron
      /\ jobs[a].phase \in {"fire", "carry"} /\ jobs'[a].at = jobs[a].at
      /\ jobs'[a].jit = jobs[a].jit /\ jobs'[a].slots = jobs[a].slots
      /\ pol[jobs[a].cron].tab \/ pol[jobs[a].cron].rotate
  BY ActorIs DEF Waiting, slots
<1>2. \A c \in Crons : Before(c)' <=> Before(c)
  BY <1>1 DEF Before
<1>3. \A b \in Ticks, c \in Crons : At(b, c)' <=> At(b, c)
  BY <1>1 DEF At
<1>4. OnePass'
  BY <1>1 DEF Once, OnePass, Busy
<1>5. ASSUME NEW b \in Ticks, NEW c \in Crons
      PROVE  Unfired(b, c)'
  <2>1. CASE b # a
    BY <2>1, <1>1, <1>2, UnfiredKeeps DEF Once
  <2>2. CASE b = a
    <3>1. CASE ~At(a, c)'
      BY <2>2, <3>1, UnfiredFree
    <3>2. CASE At(a, c)'
      <4>1. Unfired(a, c) /\ At(a, c) /\ c = jobs[a].cron
        BY <3>2, <1>1, <1>3 DEF Once, At
      <4> QED  BY <2>2, <3>2, <4>1, <1>1, <1>2 DEF Unfired
    <3> QED  BY <3>1, <3>2
  <2> QED  BY <2>1, <2>2
<1> QED  BY <1>1, <1>2, <1>3, <1>4, <1>5 DEF Once

LEMMA VerdictOnce ==
  ASSUME Types, NoneStartsOver, Once, NEW a \in Ticks, jobs[a].phase \in {"fire", "carry", "tab"},
         NEW r, NEW res, Verdict(a, r, res), UNCHANGED <<now, pol, human>>
  PROVE  Once'
<1>0. a \in Actors /\ a # ByHand /\ Busy(a)
  BY ActorIs DEF Busy
<1>1. PICK c \in Crons : c = jobs[a].cron
  BY <1>0, TypesGive, PhaseIs DEF JobsHold
<1> DEFINE S == jobs[a].slots
           rest == S \ Served(c, S)
           t == jobs[a].at - jobs[a].jit
           sent == res \in {"sent", "queued"}
<1>2. /\ At(a, c) /\ Unfired(a, c) /\ S \in SUBSET Nat /\ t \in Nat /\ t <= now /\ now \in Nat
      /\ pol[c] \in Policies
  <2>1. JobOK(jobs[a]) /\ now \in Nat /\ pol[c] \in Policies
    BY <1>0, TypesGive DEF JobsHold, Types
  <2>2. At(a, c) /\ Unfired(a, c)
    BY <1>1 DEF At, Once
  <2>3. jobs[a].at \in Nat /\ jobs[a].jit \in Nat /\ t \in Nat /\ S \in SUBSET Nat /\ jobs[a].at <= now
    BY <2>1, PhaseIs
  <2> QED  BY <2>1, <2>2, <2>3
<1>3. /\ \A x \in S \cup fired[c] : x <= t
      /\ S \cap fired[c] = {} /\ S # {}
      /\ pol[c].catchup # "all" => Before(c)
      /\ jobs[a].phase = "fire" /\ ~pol[c].tab /\ pol[c].quiet => Before(c) \/ ~InQuiet(jobs[a].at)
      /\ jobs[a].phase \in {"carry", "tab"} => pol[c].tab \/ pol[c].rotate
  BY <1>2 DEF Unfired
<1>4. /\ jobs'[a] = JobAfter(a, res) /\ \A b \in Ticks \ {a} : jobs'[b] = jobs[b]
      /\ \A d \in Crons : Like(row'[d], row[d]) /\ (row'[d].enabled => row[d].enabled)
  <2>1. JobsHold /\ RowsHold /\ Armed(c, r) /\ Record(a, r, res) /\ Like(r, row[c])
        /\ r.enabled = row[c].enabled
    BY <1>1, TypesGive DEF Verdict
  <2>2. /\ jobs'[a] = JobAfter(a, res) /\ \A b \in Actors \ {a} : jobs'[b] = jobs[b]
        /\ \A d \in Crons \ {c} : row'[d] = row[d]
        /\ row'[c] = IF row[c].live THEN Recorded(r, res, a = ByHand) ELSE row[c]
        /\ Like(Recorded(r, res, a = ByHand), r)
        /\ Recorded(r, res, a = ByHand).enabled => r.enabled
    BY <1>0, <1>1, <2>1, RecordStep
  <2> QED  BY <2>1, <2>2, ActorIs DEF Like
<1>5. /\ res = "deferred" => jobs'[a].phase = "rows"
      /\ res # "deferred" =>
           /\ jobs'[a].phase = (IF rest = {} THEN "anchor" ELSE "fire")
           /\ jobs'[a].cron = c /\ jobs'[a].at = jobs[a].at /\ jobs'[a].jit = jobs[a].jit
           /\ jobs'[a].slots = rest
  BY <1>0, <1>1, <1>4, TypesGive, AfterFire
<1>6. /\ fired' = IF sent THEN [fired EXCEPT ![c] = @ \cup {Slot(c, S)}] ELSE fired
      /\ again' = (again \/ (sent /\ Slot(c, S) \in fired[c]))
  BY <1>0, <1>1 DEF Verdict, Record
<1>7. /\ res = "deferred" => /\ jobs[a].phase = "fire" /\ ~pol[c].tab
                             /\ pol[c].quiet /\ InQuiet(jobs[a].at)
      /\ jobs[a].phase = "fire" /\ ~pol[c].tab /\ pol[c].quiet /\ InQuiet(jobs[a].at) => ~sent
  BY <1>1 DEF Verdict
<1>8. OnePass'
  BY <1>0, <1>4 DEF Once, OnePass, Busy
<1>9. \A b \in Ticks \ {a}, d \in Crons : ~At(b, d)'
  BY <1>0, <1>4, Alone DEF At
<1>10. \A d \in Crons \ {c} : Before(d) /\ ~At(a, d)
  <2>1. \A d \in Crons \ {c} : ~At(a, d)
    BY <1>1 DEF At
  <2> QED  BY <2>1, <1>0, FreeIsBefore
<1>11. CASE res = "deferred"
  <2>1. ~sent /\ Before(c)
    BY <1>11, <1>3, <1>7
  <2>2. fired' = fired /\ ~again'
    BY <2>1, <1>6 DEF Once
  <2>3. \A d \in Crons : Before(d)'
    BY <1>4, <1>10, <2>1, <2>2, BeforeKeeps
  <2>4. \A b \in Ticks, d \in Crons : ~At(b, d)'
    BY <1>5, <1>9, <1>11 DEF At
  <2>5. \A b \in Ticks, d \in Crons : Unfired(b, d)'
    BY <2>4, UnfiredFree
  <2> HIDE DEF sent
  <2> QED  BY <2>2, <2>3, <2>5, <1>8 DEF Once
<1>12. CASE res # "deferred"
  <2>1. /\ Slot(c, S) \in S /\ Slot(c, S) \in Served(c, S)
        /\ pol[c].catchup # "all" => Served(c, S) = S
    <3>1. S \in SUBSET Nat /\ t \in Nat /\ S # {} /\ \A x \in S : x <= t
      BY <1>2, <1>3
    <3> HIDE DEF S, t
    <3> QED  BY <3>1, SlotIs
  <2>2. ~again'
    BY <2>1, <1>3, <1>6 DEF Once
  <2>3. /\ DOMAIN fired' = Crons /\ \A d \in Crons \ {c} : fired'[d] = fired[d]
        /\ fired'[c] \subseteq fired[c] \cup {Slot(c, S)}
        /\ ~sent => fired'[c] = fired[c]
    BY <1>6 DEF Once
  <2> HIDE DEF sent
  <2>4. /\ \A x \in rest \cup fired'[c] : x <= t
        /\ rest \cap fired'[c] = {}
    BY <2>1, <2>3, <1>3
  <2>5. rest # {} => pol[c].catchup = "all"
    BY <2>1
  <2>6. \A d \in Crons \ {c} : Before(d)'
    BY <1>4, <1>10, <2>3, BeforeKeeps
  <2>7. rest # {} /\ ~pol[c].tab /\ pol[c].quiet => Before(c)' \/ ~InQuiet(jobs[a].at)
    <3> SUFFICES ASSUME rest # {}, ~pol[c].tab, pol[c].quiet, InQuiet(jobs[a].at)
                 PROVE  Before(c)'
      OBVIOUS
    <3>1. ~pol[c].rotate
      BY <2>5, <1>2 DEF NoneStartsOver
    <3>2. jobs[a].phase = "fire"
      BY <3>1, <1>3
    <3>3. Before(c) /\ ~sent
      BY <3>2, <1>3, <1>7
    <3> QED  BY <3>3, <2>3, <1>4, BeforeKeeps
  <2>8. /\ jobs'[a].phase = (IF rest = {} THEN "anchor" ELSE "fire")
        /\ jobs'[a].cron = c /\ jobs'[a].at = jobs[a].at /\ jobs'[a].jit = jobs[a].jit
        /\ jobs'[a].slots = rest /\ At(a, c)'
    BY <1>5, <1>12 DEF At
  <2>9. Unfired(a, c)'
    <3>1. InQuiet(jobs[a].at)' <=> InQuiet(jobs[a].at)
      BY <2>8 DEF InQuiet
    <3> DEFINE Q == InQuiet(jobs[a].at)
    <3>2. Q' <=> Q
      BY <3>1
    <3> DEFINE B == Before(c)
    <3>3. rest # {} /\ ~pol[c].tab /\ pol[c].quiet => B' \/ ~Q'
      BY <2>7, <3>2
    <3>4. jobs'[a].phase # "anchor" => pol[c].catchup = "all"
      BY <2>5, <2>8
    <3>5. /\ \A x \in jobs'[a].slots \cup fired'[c] : x <= jobs'[a].at - jobs'[a].jit
          /\ jobs'[a].slots \cap fired'[c] = {}
          /\ jobs'[a].phase = "anchor" <=> jobs'[a].slots = {}
          /\ jobs'[a].phase \in {"anchor", "fire"}
      BY <2>4, <2>8
    <3>6. jobs'[a].phase = "fire" /\ ~pol'[c].tab /\ pol'[c].quiet => B' \/ ~Q'
      BY <3>3, <2>8
    <3> QED  BY <3>4, <3>5, <3>6 DEF Unfired
  <2>10. ASSUME NEW b \in Ticks, NEW d \in Crons
         PROVE  Unfired(b, d)'
    <3>1. CASE b = a /\ d = c
      BY <3>1, <2>9
    <3>2. CASE b # a \/ d # c
      <4>1. ~At(b, d)'
        BY <3>2, <2>8, <1>9 DEF At
      <4> QED  BY <4>1, UnfiredFree
    <3> QED  BY <3>1, <3>2
  <2>11. \A d \in Crons : \A x \in fired'[d] : x \in Nat /\ x <= now'
    <3>1. \A x \in fired'[c] : x \in Nat /\ x <= now
      <4>1. \A x \in fired'[c] : x \in Nat
        BY <2>1, <2>3, <1>2 DEF Once
      <4> QED  BY <2>4, <4>1, <1>2
    <3> QED  BY <3>1, <2>3 DEF Once
  <2>12. \A d \in Crons : (\A b \in Ticks : ~At(b, d)') => Before(d)'
    BY <2>6, <2>8
  <2> QED  BY <2>2, <2>3, <2>10, <2>11, <2>12, <1>8 DEF Once
<1> QED  BY <1>11, <1>12

LEMMA PatchOnce ==
  ASSUME Types, Once, NEW c \in Crons, NEW r, Patches(c, r)
  PROVE  Once'
<1>1. /\ row'[c] = r /\ \A d \in Crons \ {c} : row'[d] = row[d]
      /\ UNCHANGED <<jobs, fired, again, now, human, pol>> /\ now \in Nat /\ Armed(c, r)
  BY PatchedIs, TypesGive DEF Patches, memory, slots, time
<1>2. Before(c)'
  <2>1. CASE ~r.live \/ ~r.enabled
    BY <2>1, <1>1 DEF Before
  <2>2. CASE Moved(c, r, row[c], now)
    <3>1. r.sched \in Nat \ {0} /\ Jitter(c, r.sched) \in Nat /\ r.due \in Nat
      BY <1>1, JitterIs DEF Armed, RowOf
    <3>2. r.due - Jitter(c, r.sched) > now
      BY <2>2, <3>1, <1>1, AfterIs DEF Moved
    <3>3. \A x \in fired[c] : x \in Nat /\ x <= now
      BY DEF Once
    <3>4. \A x \in fired[c] : x + Jitter(c, r.sched) < r.due
      BY <3>1, <3>2, <3>3, <1>1
    <3> QED  BY <3>4, <1>1 DEF Before
  <2> QED  BY <2>1, <2>2 DEF Patches
<1>3. \A d \in Crons : Before(d) => Before(d)'
  BY <1>1, <1>2, BeforeKeeps DEF Like
<1>4. \A b \in Ticks, d \in Crons : Unfired(b, d)'
  BY <1>1, <1>3, UnfiredKeeps DEF Once
<1>5. \A b \in Ticks, d \in Crons : At(b, d)' <=> At(b, d)
  BY <1>1 DEF At
<1>6. OnePass'
  BY <1>1 DEF Once, OnePass, Busy
<1> QED  BY <1>1, <1>3, <1>4, <1>5, <1>6 DEF Once

LEMMA RestartOnce ==
  ASSUME Types, Once, Restart
  PROVE  Once'
<1>1. /\ UNCHANGED <<row, now, again>> /\ \A a \in Ticks : jobs'[a] = NoJob
      /\ fired' = [c \in Crons |-> Excused(c)]
  BY RestartStep, ActorIs DEF time
<1>2. \A a \in Ticks, c \in Crons : ~At(a, c)' /\ ~Busy(a)'
  BY <1>1 DEF At, Busy, NoJob
<1>3. \A c \in Crons : Before(c)'
  <2> SUFFICES ASSUME NEW c \in Crons
               PROVE  Before(c)'
    OBVIOUS
  <2>1. CASE Holds(c)
    <3>1. fired'[c] = {x \in fired[c] : x + Jitter(c, row[c].sched) < row[c].due}
      BY <2>1, <1>1 DEF Excused
    <3> QED  BY <3>1, <1>1 DEF Before
  <2>2. CASE ~Holds(c)
    <3>1. \A a \in Ticks : ~At(a, c)
      BY <2>2 DEF Holds, At, Busy
    <3>2. Before(c) /\ fired'[c] = fired[c]
      BY <2>2, <3>1, <1>1 DEF Once, Excused
    <3> QED  BY <3>2, <1>1 DEF Before
  <2> QED  BY <2>1, <2>2
<1>4. \A c \in Crons : fired'[c] \subseteq fired[c]
  BY <1>1 DEF Excused
<1>5. \A a \in Ticks, c \in Crons : Unfired(a, c)'
  BY <1>2, UnfiredFree
<1>6. OnePass'
  BY <1>1 DEF OnePass, Busy, NoJob
<1> QED  BY <1>1, <1>3, <1>4, <1>5, <1>6 DEF Once

LEMMA ByHandFires ==
  ASSUME Types, Once, jobs[ByHand].phase \in {"fire", "carry", "tab"}, UNCHANGED <<now, pol>>,
         Waiting(ByHand) \/ \E r, res : Verdict(ByHand, r, res)
  PROVE  /\ \A b \in Ticks : jobs'[b] = jobs[b]
         /\ \A d \in Crons : Like(row'[d], row[d]) /\ (row'[d].enabled => row[d].enabled)
         /\ fired' = fired /\ ~again'
<1>1. CASE Waiting(ByHand)
  BY <1>1, ActorIs DEF Waiting, Like, slots, Once
<1>2. ASSUME NEW r, NEW res, Verdict(ByHand, r, res)
      PROVE  /\ \A b \in Ticks : jobs'[b] = jobs[b]
             /\ \A d \in Crons : Like(row'[d], row[d]) /\ (row'[d].enabled => row[d].enabled)
             /\ fired' = fired /\ ~again'
  <2> DEFINE c == jobs[ByHand].cron
  <2>1. /\ ByHand \in Actors /\ JobsHold /\ RowsHold /\ Armed(c, r) /\ Record(ByHand, r, res)
        /\ Like(r, row[c]) /\ r.enabled = row[c].enabled
    BY <1>2, ActorIs, TypesGive DEF Verdict
  <2>2. /\ \A b \in Actors \ {ByHand} : jobs'[b] = jobs[b]
        /\ \A d \in Crons \ {c} : row'[d] = row[d]
        /\ row'[c] = IF row[c].live THEN Recorded(r, res, ByHand = ByHand) ELSE row[c]
        /\ Like(Recorded(r, res, ByHand = ByHand), r)
        /\ Recorded(r, res, ByHand = ByHand).enabled => r.enabled
    BY <2>1, RecordStep
  <2>3. fired' = fired /\ ~again'
    BY <2>1 DEF Record, Once
  <2> HIDE DEF c
  <2> QED  BY <2>1, <2>2, <2>3, ActorIs DEF Like
<1> QED  BY <1>1, <1>2

LEMMA NextOnce ==
  ASSUME Types, NoneStartsOver, HandsOff, Once, [Next]_vars
  PROVE  Once'
<1>0. now \in Nat
  BY TypesGive
<1>1. ASSUME UNCHANGED <<row, jobs, fired, again, pol, now>>,
             human' = human \/ \A a \in Ticks : Waits(a)
      PROVE  Once'
  <2>1. OnePass'
    BY <1>1 DEF Once, OnePass, Busy
  <2>2. ~again'
    BY <1>1 DEF Once
  <2> QED  BY <1>0, <1>1, <2>1, <2>2, OnceSame DEF Like
<1>2. CASE UNCHANGED vars
  BY <1>1, <1>2 DEF vars, memory, history, slots, time
<1>3. CASE Clock
  <2>1. UNCHANGED <<row, jobs, fired, again, pol, human>> /\ now' >= now /\ now' \in Nat
    BY <1>0, <1>3, ClockStep DEF memory, history, slots
  <2>2. OnePass' /\ ~again'
    BY <2>1 DEF Once, OnePass, Busy
  <2> QED  BY <1>0, <2>1, <2>2, OnceSame DEF Like
<1>4. ASSUME NEW a \in Ticks, TickStart(a)
      PROVE  Once'
  <2>1. /\ UNCHANGED <<row, fired, again, pol, now, human>>
        /\ jobs'[a].phase = "rows" /\ \A b \in Ticks \ {a} : jobs'[b] = jobs[b]
        /\ \A b \in Ticks : ~Busy(b)
    BY <1>4, TickStartStep, ActorIs DEF history, slots
  <2>2. OnePass' /\ ~again'
    BY <2>1 DEF Once, OnePass, Busy
  <2>3. \A b \in Ticks : \/ jobs'[b] = jobs[b]
                         \/ jobs[b].phase \in {"none", "rows"} /\ jobs'[b].phase \in {"none", "rows"}
    BY <2>1 DEF Busy
  <2> QED  BY <1>0, <2>1, <2>2, <2>3, OnceSame DEF Like
<1>5. ASSUME NEW c \in Crons, RunNow(c)
      PROVE  Once'
  <2>1. /\ UNCHANGED <<row, fired, again, pol, now, human>>
        /\ \A b \in Ticks : jobs'[b] = jobs[b]
    BY <1>5, RunNowStep DEF history, slots
  <2>2. OnePass' /\ ~again'
    BY <2>1 DEF Once, OnePass, Busy
  <2> QED  BY <1>0, <2>1, <2>2, OnceSame DEF Like
<1>6. ASSUME NEW c \in Crons,
             Pause(c) \/ Resume(c) \/ DeleteRow(c) \/ \E s \in Intervals : Edit(c, s)
      PROVE  Once'
  BY <1>6, PatchStep, PatchOnce
<1>7. CASE Idle /\ PaneEvent
  <2>1. \A a \in Ticks : Waits(a)
    BY <1>7, ActorIs DEF Idle
  <2> QED  BY <1>1, <1>7, <2>1, PaneEventIs DEF slots
<1>8. ASSUME NEW t \in Tabs, CloseTab(t)
      PROVE  Once'
  <2>1. /\ UNCHANGED <<jobs, fired, again, pol, now, human>>
        /\ \A c \in Crons : Like(row'[c], row[c]) /\ row'[c].enabled = row[c].enabled
    BY <1>8, CloseTabStep DEF slots, time
  <2>2. OnePass' /\ ~again'
    BY <2>1 DEF Once, OnePass, Busy
  <2> QED  BY <1>0, <2>1, <2>2, OnceSame
<1>9. ASSUME NEW a \in Actors, TickEnd(a)
      PROVE  Once'
  <2>1. /\ UNCHANGED <<row, fired, again, pol, now, human>>
        /\ jobs[a].phase = "rows" /\ jobs'[a].phase = "none"
        /\ \A b \in Actors \ {a} : jobs'[b] = jobs[b]
    BY <1>9, TickEndStep DEF history, slots
  <2>2. \A b \in Ticks : \/ jobs'[b] = jobs[b]
                         \/ jobs[b].phase = "rows" /\ jobs'[b].phase = "none"
    BY <2>1, ActorIs
  <2>3. OnePass' /\ ~again'
    BY <2>1, <2>2 DEF Once, OnePass, Busy
  <2> QED  BY <1>0, <2>1, <2>2, <2>3, OnceSame DEF Like
<1>10. ASSUME NEW a \in Actors, Acting(a)
       PROVE  Once'
  <2>1. /\ jobs[a].phase \in {"fire", "carry", "tab"} /\ UNCHANGED <<now, pol, human>>
        /\ Waiting(a) \/ \E r, res : Verdict(a, r, res)
    BY <1>10, ActingStep
  <2>2. CASE a \in Ticks
    <3>1. CASE Waiting(a)
      BY <2>1, <2>2, <3>1, WaitingOnce
    <3>2. CASE \E r, res : Verdict(a, r, res)
      BY <2>1, <2>2, <3>2, VerdictOnce
    <3> QED  BY <2>1, <3>1, <3>2
  <2>3. CASE a = ByHand
    <3>1. /\ \A b \in Ticks : jobs'[b] = jobs[b]
          /\ \A d \in Crons : Like(row'[d], row[d]) /\ (row'[d].enabled => row[d].enabled)
          /\ fired' = fired /\ ~again'
      BY <2>1, <2>3, ByHandFires
    <3>2. OnePass'
      BY <3>1 DEF Once, OnePass, Busy
    <3> QED  BY <1>0, <2>1, <3>1, <3>2, OnceSame
  <2> QED  BY <2>2, <2>3, ActorIs
<1>11. CASE Restart
  BY <1>11, RestartOnce
<1> QED  BY <1>2, <1>3, <1>4, <1>5, <1>6, <1>7, <1>8, <1>9, <1>10, <1>11, NextCases,
            AnchorOnce, RunDueOnce

(* A slot is fired once: callbacks of the interval that overlap, a slow     *)
(* fire, a catch-up, an edit or a resume do not fire it again.  The crons   *)
(* of which that holds are all but those that catch up on everything, wait  *)
(* for quiet hours to end and rotate.                                       *)
THEOREM SlotsFireOnce ==
  ASSUME NoneStartsOver
  PROVE  Spec => []SlotOnce
<1> DEFINE IInv == TypeInv /\ HandsOff /\ Once
<1>1. Init => IInv
  BY InitTypes, InitHands, InitOnce, TypesAre
<1>2. IInv /\ [Next]_vars => IInv'
  <2>1. Types' <=> TypeInv'
    BY TypesAre, PTL
  <2> QED  BY <2>1, TypesAre, NextTypes, NextHands, NextOnce
<1>3. IInv => SlotOnce
  BY DEF Once, SlotOnce
<1> QED  BY <1>1, <1>2, <1>3, PTL DEF Spec

-----------------------------------------------------------------------------
(* The fires of a cron do not pile up in the pane                           *)

LEMMA QueueIs ==
  ASSUME NEW T, NEW q \in Seq(T), NEW c, Single(q, c)
  PROVE  /\ c \in ToSet(q) <=> In(q, c)
         /\ \A x \in T : /\ Append(q, x) \in Seq(T)
                         /\ x # c \/ ~In(q, c) => Single(Append(q, x), c)
                         /\ In(Append(q, x), c) <=> In(q, c) \/ x = c
         /\ q # <<>> => /\ Single(Tail(q), c)
                        /\ Head(q) = c => ~In(Tail(q), c)
                        /\ Head(q) \in T
<1>1. c \in ToSet(q) <=> In(q, c)
  BY DEF ToSet, In
<1>2. ASSUME NEW x \in T
      PROVE  /\ Append(q, x) \in Seq(T) /\ Len(Append(q, x)) = Len(q) + 1
             /\ \A i \in 1 .. Len(q) : Append(q, x)[i] = q[i]
             /\ Append(q, x)[Len(q) + 1] = x
             /\ Len(q) \in Nat
  OBVIOUS
<1>3. ASSUME NEW x \in T, x # c \/ ~In(q, c)
      PROVE  Single(Append(q, x), c)
  <2> SUFFICES ASSUME NEW i \in 1 .. Len(Append(q, x)), NEW j \in 1 .. Len(Append(q, x)),
                      Append(q, x)[i] = c, Append(q, x)[j] = c
               PROVE  i = j
    BY DEF Single
  <2> DEFINE w == Append(q, x)
             n == Len(q)
  <2>1. /\ i \in 1 .. n + 1 /\ j \in 1 .. n + 1 /\ n \in Nat
        /\ \A k \in 1 .. n : w[k] = q[k]
        /\ w[n + 1] = x /\ w[i] = c /\ w[j] = c
    BY <1>2
  <2> HIDE DEF w
  <2>2. CASE x # c
    <3>1. i \in 1 .. n /\ j \in 1 .. n
      BY <2>1, <2>2
    <3> QED  BY <3>1, <2>1 DEF Single
  <2>3. CASE ~In(q, c)
    <3>1. \A k \in 1 .. n : q[k] # c
      BY <2>3 DEF In
    <3> QED  BY <3>1, <2>1
  <2> QED  BY <1>3, <2>2, <2>3
<1>4. ASSUME NEW x \in T
      PROVE  In(Append(q, x), c) <=> In(q, c) \/ x = c
  <2> DEFINE w == Append(q, x)
             n == Len(q)
  <2>1. /\ Len(w) = n + 1 /\ n \in Nat /\ \A k \in 1 .. n : w[k] = q[k]
        /\ w[n + 1] = x
    BY <1>2
  <2> HIDE DEF w
  <2>2. In(w, c) <=> \E k \in 1 .. n + 1 : w[k] = c
    BY <2>1 DEF In
  <2> QED  BY <2>1, <2>2 DEF In, w
<1>5. ASSUME q # <<>>
      PROVE  /\ Single(Tail(q), c)
             /\ Head(q) = c => ~In(Tail(q), c)
             /\ Head(q) \in T
  <2> DEFINE w == Tail(q)
             n == Len(q)
  <2>1. /\ Len(w) = n - 1 /\ n \in Nat /\ n > 0 /\ \A k \in 1 .. n - 1 : w[k] = q[k + 1]
        /\ Head(q) = q[1] /\ Head(q) \in T
    BY <1>5
  <2> HIDE DEF w
  <2>2. \A i, j \in 1 .. n : q[i] = c /\ q[j] = c => i = j
    BY DEF Single
  <2>3. Single(w, c)
    <3> SUFFICES ASSUME NEW i \in 1 .. n - 1, NEW j \in 1 .. n - 1, w[i] = c, w[j] = c
                 PROVE  i = j
      BY <2>1 DEF Single
    <3>1. i + 1 \in 1 .. n /\ j + 1 \in 1 .. n /\ q[i + 1] = c /\ q[j + 1] = c
      BY <2>1
    <3>2. i + 1 = j + 1
      BY <3>1, <2>2
    <3> QED  BY <3>2
  <2>4. ASSUME Head(q) = c, NEW i \in 1 .. n - 1, w[i] = c
        PROVE  FALSE
    <3>1. i + 1 \in 1 .. n /\ q[i + 1] = c /\ 1 \in 1 .. n /\ q[1] = c
      BY <2>1, <2>4
    <3>2. i + 1 = 1
      BY <3>1, <2>2
    <3> QED  BY <3>2
  <2>5. Head(q) = c => ~In(w, c)
    BY <2>1, <2>4 DEF In
  <2>6. Head(q) \in T /\ w = Tail(q)
    BY <2>1 DEF w
  <2> QED  BY <2>3, <2>5, <2>6, Zenon
<1> QED  BY <1>1, <1>2, <1>3, <1>4, <1>5

LEMMA EmptyQueue == \A c : Single(<<>>, c) /\ ~In(<<>>, c)
BY DEF Single, In

LEMMA MainIs ==
  ASSUME PanesOK
  PROVE  /\ Main \in Panes /\ queue[Main] \in Seq(Crons \cup {Human})
         /\ \A c \in Crons : c # Human /\ c # None
         /\ \A t \in Tabs : t # Main
<1>1. Main \in Panes
  BY DEF Panes
<1>2. queue[Main] \in Seq(Crons \cup {Human})
  BY <1>1 DEF PanesOK
<1> QED  BY <1>1, <1>2, CronAssumption

\* What happens in another pane.
LEMMA Elsewhere ==
  ASSUME PanesOK, NEW p \in Panes, p # Main, NEW v
  PROVE  /\ conn' = Set(conn, p, v) => conn'[Main] = conn[Main]
         /\ turn' = Set(turn, p, v) => turn'[Main] = turn[Main]
         /\ queue' = Set(queue, p, v) => queue'[Main] = queue[Main]
         /\ Note(p, v) => inflight' = inflight
<1>1. Main \in DOMAIN conn /\ Main \in DOMAIN turn /\ Main \in DOMAIN queue
  BY MainIs DEF PanesOK
<1> QED  BY <1>1 DEF Set, Note

\* The runner is given the head of its queue.
LEMMA DrainOne ==
  ASSUME PanesOK, NEW p \in Panes, NEW known, Drain(p, known), NEW c \in Crons,
         Single(queue[Main], c), NEW b
  PROVE  /\ p # Main => UNCHANGED <<queue[Main], turn[Main], inflight>>
         /\ p = Main => OneFire(queue'[Main], turn'[Main], inflight', TRUE, b, c)
<1>1. /\ queue \in [Panes -> Seq(Crons \cup {Human})] /\ Main \in Panes
      /\ turn \in [Panes -> Crons \cup {Human, None}]
      /\ queue[Main] \in Seq(Crons \cup {Human}) /\ c # None /\ c # Human
  BY MainIs DEF PanesOK
<1>2. CASE queue[p] = <<>>
  <2>1. turn' = Set(turn, p, None) /\ Note(p, known) /\ queue' = queue
    BY <1>2 DEF Drain
  <2>2. p # Main => UNCHANGED <<queue[Main], turn[Main], inflight>>
    BY <2>1, Elsewhere
  <2>3. p = Main => turn'[Main] = None
    BY <2>1, <1>1 DEF Set
  <2> QED  BY <1>1, <2>1, <2>2, <2>3 DEF OneFire
<1>3. CASE queue[p] # <<>>
  <2> DEFINE who == Head(queue[p])
  <2>1. /\ turn' = Set(turn, p, who) /\ queue' = Set(queue, p, Tail(queue[p]))
        /\ Note(p, IF who \in Crons THEN who ELSE None)
    BY <1>3 DEF Drain
  <2>2. CASE p # Main
    BY <2>1, <2>2, Elsewhere
  <2>3. CASE p = Main
    <3>1. /\ turn'[Main] = who /\ queue'[Main] = Tail(queue[Main])
          /\ inflight' = (IF who \in Crons THEN who ELSE None)
      BY <2>1, <2>3, <1>1 DEF Set, Note
    <3>2. Single(Tail(queue[Main]), c) /\ (who = c => ~In(Tail(queue[Main]), c))
      BY <1>1, <1>3, <2>3, QueueIs
    <3> QED  BY <3>1, <3>2, <2>3 DEF OneFire
  <2> QED  BY <2>2, <2>3
<1> QED  BY <1>2, <1>3

\* A message into a pane.
LEMMA SendsOne ==
  ASSUME PanesOK, NEW p \in Panes, NEW who \in Crons \cup {Human}, NEW res, Sends(p, who, res)
  PROVE  /\ p # Main => UNCHANGED <<queue[Main], turn[Main]>>
         /\ p = Main => /\ turn'[Main] = IF res = "sent" THEN who ELSE turn[Main]
                        /\ queue'[Main] = IF res = "queued" THEN Append(queue[Main], who)
                                          ELSE queue[Main]
<1>1. /\ Main \in DOMAIN turn /\ Main \in DOMAIN queue
  BY MainIs DEF PanesOK
<1>2. /\ turn' = IF res = "sent" THEN Set(turn, p, who) ELSE turn
      /\ queue' = IF res = "queued" THEN Set(queue, p, Append(queue[p], who)) ELSE queue
  BY DEF Sends
<1>3. turn'[Main] = IF res = "sent" /\ p = Main THEN who ELSE turn[Main]
  BY <1>1, <1>2 DEF Set
<1>4. queue'[Main] = IF res = "queued" /\ p = Main THEN Append(queue[Main], who) ELSE queue[Main]
  BY <1>1, <1>2 DEF Set
<1> QED  BY <1>3, <1>4

LEMMA InitSkips == Init => SkipsHold
<1> SUFFICES ASSUME Init
             PROVE  SkipsHold
  OBVIOUS
<1>1. queue[Main] = <<>> /\ turn[Main] = None /\ blind = FALSE
  BY DEF Init, Panes
<1>2. \A c \in Crons : turn[Main] # c
  BY <1>1, CronAssumption
<1> QED  BY <1>1, <1>2, EmptyQueue DEF SkipsHold, OneFire

LEMMA SkipsSame ==
  ASSUME SkipsHold, UNCHANGED <<pol, queue[Main], turn[Main], inflight, conn[Main], blind>>
  PROVE  SkipsHold'
BY DEF SkipsHold, Skips

\* Nothing of a cron runs in the pane, or the server is told it lost sight.
LEMMA SkipsQuiet ==
  ASSUME PanesOK, SkipsHold, UNCHANGED pol, blind' \in BOOLEAN,
         queue'[Main] = queue[Main] \/ queue'[Main] = <<>>,
         blind' \/ turn'[Main] \in {None, Human}
  PROVE  SkipsHold'
<1>1. ASSUME NEW c \in Crons, Skips(c)'
      PROVE  OneFire(queue'[Main], turn'[Main], inflight', conn'[Main], blind', c)
  <2>1. Skips(c) /\ Single(queue[Main], c) /\ c # None /\ c # Human
    BY <1>1, MainIs DEF SkipsHold, OneFire, Skips
  <2>2. Single(queue'[Main], c)
    BY <2>1, EmptyQueue
  <2> QED  BY <2>1, <2>2 DEF OneFire
<1> QED  BY <1>1 DEF SkipsHold

LEMMA DrainSkips ==
  ASSUME PanesOK, SkipsHold, UNCHANGED pol, NEW p \in Panes, NEW known, Drain(p, known),
         blind' \in BOOLEAN, p = Main => conn'[Main] = TRUE,
         p # Main => UNCHANGED <<blind, conn[Main]>>
  PROVE  SkipsHold'
<1>1. CASE p = Main
  <2>1. ASSUME NEW c \in Crons, Skips(c)'
        PROVE  OneFire(queue'[Main], turn'[Main], inflight', conn'[Main], blind', c)
    <3>1. Single(queue[Main], c)
      BY <2>1 DEF SkipsHold, OneFire, Skips
    <3> QED  BY <3>1, <1>1, DrainOne
  <2> QED  BY <2>1 DEF SkipsHold
<1>2. CASE p # Main
  <2>1. UNCHANGED <<queue[Main], turn[Main], inflight>>
    <3>1. CASE queue[p] = <<>>
      BY <1>2, <3>1, Elsewhere DEF Drain
    <3>2. CASE queue[p] # <<>>
      BY <1>2, <3>2, Elsewhere DEF Drain
    <3> QED  BY <3>1, <3>2
  <2> QED  BY <1>2, <2>1, SkipsSame
<1> QED  BY <1>1, <1>2

LEMMA FirePaneSkips ==
  ASSUME Types, SkipsHold, NEW a \in Actors, FirePane(a)
  PROVE  SkipsHold'
<1>0. PICK c \in Crons : c = jobs[a].cron
  BY ActingStep DEF Acting
<1>1. PanesOK /\ UNCHANGED <<pol, conn, blind>> /\ ~pol[c].tab
  BY <1>0 DEF Types, FirePane
<1>2. PICK high \in BOOLEAN :
        LET res == PaneVerdict(c, jobs[a].at, high)
        IN  IF res = "rotate" THEN UNCHANGED <<inflight, turn, queue>>
            ELSE Sends(Main, c, res) /\ inflight' = IF res = "sent" THEN c ELSE inflight
  BY <1>0 DEF FirePane
<1> DEFINE res == PaneVerdict(c, jobs[a].at, high)
           q == queue[Main]
<1>3. /\ Main \in Panes /\ q \in Seq(Crons \cup {Human})
      /\ turn[Main] \in Crons \cup {Human, None} /\ c # Human /\ c # None
  BY <1>1, MainIs DEF PanesOK
<1>4. /\ res = "sent" => conn[Main] /\ turn[Main] = None /\ q = <<>>
      /\ res = "queued" => ~(pol[c].skip /\ IsOutstanding(c))
  BY DEF PaneVerdict, SubmitSend
<1> HIDE DEF res
<1>5. CASE res \notin {"sent", "queued"}
  <2>1. UNCHANGED <<inflight, turn, queue>>
    BY <1>2, <1>5 DEF Sends, res
  <2> QED  BY <2>1, <1>1, SkipsSame
<1>6. CASE res \in {"sent", "queued"}
  <2>1. Sends(Main, c, res) /\ inflight' = IF res = "sent" THEN c ELSE inflight
    BY <1>2, <1>6 DEF res
  <2>2. /\ turn'[Main] = IF res = "sent" THEN c ELSE turn[Main]
        /\ queue'[Main] = IF res = "queued" THEN Append(q, c) ELSE q
    BY <2>1, <1>1, <1>3, SendsOne
  <2>3. ASSUME NEW d \in Crons, Skips(d)'
        PROVE  OneFire(queue'[Main], turn'[Main], inflight', conn'[Main], blind', d)
    <3>1. Skips(d) /\ OneFire(q, turn[Main], inflight, conn[Main], blind, d) /\ d # None
      BY <2>3, <1>1, MainIs DEF SkipsHold, Skips
    <3>2. CASE res = "sent"
      BY <3>1, <3>2, <2>1, <2>2, <1>1, <1>4, EmptyQueue DEF OneFire
    <3>3. CASE res = "queued" /\ d # c
      <4>1. Single(q, d)
        BY <3>1 DEF OneFire
      <4>2. Single(Append(q, c), d) /\ (In(Append(q, c), d) <=> In(q, d))
        BY <4>1, <3>3, <1>3, QueueIs
      <4>3. turn'[Main] = turn[Main] /\ queue'[Main] = Append(q, c) /\ inflight' = inflight
        BY <3>3, <2>1, <2>2
      <4> QED  BY <4>2, <4>3, <3>1, <1>1 DEF OneFire
    <3>4. CASE res = "queued" /\ d = c
      <4>1. Single(q, c) /\ (~blind /\ turn[Main] = c => inflight = c /\ conn[Main])
        BY <3>1, <3>4 DEF OneFire
      <4>2. ~IsOutstanding(c)
        BY <3>1, <3>4, <1>4 DEF Skips
      <4>3. ~In(q, c)
        BY <4>1, <4>2, <1>3, QueueIs DEF IsOutstanding
      <4>4. Single(Append(q, c), c)
        BY <4>1, <4>3, <1>3, QueueIs
      <4>5. ~(inflight = c /\ conn[Main] /\ turn[Main] = c)
        BY <4>2, <1>3 DEF IsOutstanding, TurnActive
      <4>6. turn'[Main] = turn[Main] /\ queue'[Main] = Append(q, c) /\ inflight' = inflight
        BY <3>4, <2>1, <2>2
      <4> QED  BY <4>1, <4>4, <4>5, <4>6, <3>4, <1>1 DEF OneFire
    <3> QED  BY <1>6, <3>2, <3>3, <3>4
  <2> QED  BY <2>3, <1>1 DEF SkipsHold
<1> QED  BY <1>5, <1>6

LEMMA TabUpSkips ==
  ASSUME Types, SkipsHold, NEW a \in Actors, TabUp(a)
  PROVE  SkipsHold'
<1> DEFINE t == jobs[a].tab
           c == jobs[a].cron
<1>1. PanesOK /\ UNCHANGED <<pol, conn, blind, inflight>> /\ Sends(t, c, SubmitSend(t))
  BY DEF Types, TabUp
<1>2. c \in Crons /\ t \in Panes /\ t # Main
  <2>1. JobOK(jobs[a]) /\ jobs[a].phase = "tab"
    BY TypesGive DEF JobsHold, TabUp
  <2>2. t \in Tabs
    BY <2>1 DEF JobOK, NoJob, PassJob
  <2> QED  BY <2>1, <2>2, <1>1, PhaseIs, MainIs DEF Panes
<1> HIDE DEF t, c
<1>3. UNCHANGED <<queue[Main], turn[Main]>>
  BY <1>1, <1>2, SendsOne
<1> QED  BY <1>1, <1>3, SkipsSame

LEMMA ActingSkips ==
  ASSUME Types, SkipsHold, NEW a \in Actors, Acting(a)
  PROVE  SkipsHold'
<1>1. ASSUME UNCHANGED <<pol, inflight, runners, blind>>
      PROVE  SkipsHold'
  BY <1>1, SkipsSame DEF runners
<1>2. CASE NewTab(a)
  BY <1>1, <1>2 DEF NewTab, TabsFull, TabOpens
<1>3. CASE Carried(a)
  BY <1>1, <1>2, <1>3 DEF Carried
<1> QED  BY <1>2, <1>3, FirePaneSkips, TabUpSkips DEF Acting, FireNewTab

LEMMA TeardownSkips ==
  ASSUME PanesOK, SkipsHold, NEW p \in Panes, NEW t, Teardown(p, t)
  PROVE  SkipsHold'
<1>1. /\ UNCHANGED <<pol, queue>> /\ conn' = Set(conn, p, FALSE) /\ turn' = Set(turn, p, t)
      /\ blind' = IF p = Main THEN t # None ELSE blind
      /\ UNCHANGED inflight \/ Note(p, None)
  BY DEF Teardown
<1>2. blind' \in BOOLEAN
  BY <1>1 DEF SkipsHold
<1>3. CASE p # Main
  <2>1. UNCHANGED <<turn[Main], conn[Main], inflight>>
    BY <1>1, <1>3, Elsewhere
  <2> QED  BY <2>1, <1>1, <1>3, SkipsSame
<1>4. CASE p = Main
  <2>1. Main \in DOMAIN turn
    BY MainIs DEF PanesOK
  <2>2. turn'[Main] = t /\ (blind' \/ t = None)
    BY <2>1, <1>1, <1>4 DEF Set
  <2> QED  BY <2>2, <1>1, <1>2, SkipsQuiet
<1> QED  BY <1>3, <1>4

LEMMA GoneSkips ==
  ASSUME PanesOK, SkipsHold, NEW p \in Panes, Gone(p)
  PROVE  SkipsHold'
<1>1. /\ UNCHANGED pol /\ conn' = Set(conn, p, FALSE) /\ turn' = Set(turn, p, None)
      /\ queue' = Set(queue, p, <<>>) /\ Note(p, None) /\ blind' = (blind /\ p # Main)
  BY DEF Gone
<1>2. blind' \in BOOLEAN /\ (p # Main => blind' = blind)
  BY <1>1 DEF SkipsHold
<1>3. CASE p # Main
  <2>1. UNCHANGED <<turn[Main], conn[Main], queue[Main], inflight>>
    BY <1>1, <1>3, Elsewhere
  <2> QED  BY <2>1, <1>1, <1>2, <1>3, SkipsSame
<1>4. CASE p = Main
  <2>1. Main \in DOMAIN turn /\ Main \in DOMAIN queue
    BY MainIs DEF PanesOK
  <2>2. turn'[Main] = None /\ queue'[Main] = <<>>
    BY <2>1, <1>1, <1>4 DEF Set
  <2> QED  BY <2>2, <1>1, <1>2, SkipsQuiet
<1> QED  BY <1>3, <1>4

LEMMA PaneEventSkips ==
  ASSUME PanesOK, SkipsHold, PaneEvent
  PROVE  SkipsHold'
<1>0. blind \in BOOLEAN /\ Main \in DOMAIN turn /\ Main \in DOMAIN queue /\ Main \in DOMAIN conn
  BY MainIs DEF SkipsHold, PanesOK
<1>1. CASE Respawn
  BY <1>1, SkipsSame DEF Respawn, memory, history
<1>2. CASE GiveUp
  <2>1. /\ UNCHANGED pol /\ turn'[Main] = None /\ queue'[Main] = <<>> /\ blind' = FALSE
    BY <1>0, <1>2 DEF GiveUp, Set
  <2> QED  BY <2>1, SkipsQuiet
<1>3. ASSUME NEW p \in Panes, SendByHuman(p)
      PROVE  SkipsHold'
  <2>1. UNCHANGED <<pol, inflight, conn, blind>> /\ Sends(p, Human, SubmitSend(p))
    BY <1>3 DEF SendByHuman, memory, history
  <2> DEFINE res == SubmitSend(p)
  <2> HIDE DEF res
  <2>2. Sends(p, Human, res)
    BY <2>1 DEF res
  <2>3. CASE p # Main
    <3>1. UNCHANGED <<queue[Main], turn[Main]>>
      BY <2>2, <2>3, SendsOne
    <3> QED  BY <2>1, <3>1, SkipsSame
  <2>4. CASE p = Main
    <3>1. /\ turn'[Main] = IF res = "sent" THEN Human ELSE turn[Main]
          /\ queue'[Main] = IF res = "queued" THEN Append(queue[Main], Human) ELSE queue[Main]
      BY <2>2, <2>4, SendsOne
    <3>2. ASSUME NEW c \in Crons, Skips(c)'
          PROVE  OneFire(queue'[Main], turn'[Main], inflight', conn'[Main], blind', c)
      <4>1. /\ OneFire(queue[Main], turn[Main], inflight, conn[Main], blind, c) /\ c # Human
            /\ queue[Main] \in Seq(Crons \cup {Human})
        BY <3>2, <2>1, MainIs DEF SkipsHold, Skips
      <4>2. Single(Append(queue[Main], Human), c)
            /\ (In(Append(queue[Main], Human), c) <=> In(queue[Main], c))
        BY <4>1, QueueIs DEF OneFire
      <4>3. Single(queue'[Main], c) /\ (In(queue'[Main], c) <=> In(queue[Main], c))
        BY <3>1, <4>1, <4>2 DEF OneFire
      <4>4. turn'[Main] = c => turn[Main] = c
        BY <3>1, <4>1
      <4> QED  BY <4>1, <4>3, <4>4, <2>1 DEF OneFire
    <3> QED  BY <3>2, <2>1 DEF SkipsHold
  <2> QED  BY <2>3, <2>4
<1>4. ASSUME NEW p \in Panes, Delete(p)
      PROVE  SkipsHold'
  BY <1>4, GoneSkips DEF Delete
<1>5. ASSUME NEW p \in Panes, TurnEndsUnseen(p)
      PROVE  SkipsHold'
  <2>1. /\ UNCHANGED <<pol, inflight, conn, queue>> /\ turn' = Set(turn, p, None)
        /\ blind' = (blind /\ p # Main)
    BY <1>5 DEF TurnEndsUnseen, memory
  <2>2. CASE p # Main
    BY <1>0, <2>1, <2>2, Elsewhere, SkipsSame
  <2>3. CASE p = Main
    BY <1>0, <2>1, <2>3, SkipsQuiet DEF Set
  <2> QED  BY <2>2, <2>3
<1>6. ASSUME NEW p \in Panes, Hello(p)
      PROVE  SkipsHold'
  <2>1. /\ UNCHANGED <<pol, blind>> /\ conn' = Set(conn, p, TRUE) /\ ~conn[p]
        /\ IF turn[p] # None THEN UNCHANGED <<turn, queue, inflight>> ELSE Drain(p, inflight)
    BY <1>6 DEF Hello, history
  <2>2. /\ p = Main => conn'[Main] = TRUE
        /\ p # Main => UNCHANGED <<blind, conn[Main]>>
    BY <1>0, <2>1, Elsewhere DEF Set
  <2>3. CASE turn[p] # None
    <3>1. ASSUME NEW c \in Crons, Skips(c)'
          PROVE  OneFire(queue'[Main], turn'[Main], inflight', conn'[Main], blind', c)
      <4>1. OneFire(queue[Main], turn[Main], inflight, conn[Main], blind, c)
        BY <3>1, <2>1 DEF SkipsHold, Skips
      <4> QED  BY <4>1, <2>1, <2>2, <2>3 DEF OneFire
    <3> QED  BY <3>1, <2>1, <1>0 DEF SkipsHold
  <2>4. CASE turn[p] = None
    BY <2>1, <2>2, <2>4, <1>0, DrainSkips
  <2> QED  BY <2>3, <2>4
<1>7. ASSUME NEW p \in Panes, Blip(p) \/ Die(p)
      PROVE  SkipsHold'
  BY <1>7, TeardownSkips DEF Blip, Die
<1>8. ASSUME NEW p \in Panes, Fatal(p)
      PROVE  SkipsHold'
  <2>1. /\ UNCHANGED <<pol, queue>> /\ conn' = Set(conn, p, FALSE) /\ turn' = Set(turn, p, None)
        /\ Note(p, None) /\ blind' = (blind /\ p # Main)
    BY <1>8 DEF Fatal
  <2>2. CASE p # Main
    BY <1>0, <2>1, <2>2, Elsewhere, SkipsSame
  <2>3. CASE p = Main
    BY <1>0, <2>1, <2>3, SkipsQuiet DEF Set
  <2> QED  BY <2>2, <2>3
<1>9. ASSUME NEW p \in Panes, NEW keep \in BOOLEAN, TurnDone(p, keep)
      PROVE  SkipsHold'
  <2>1. /\ Drain(p, None) /\ UNCHANGED <<pol, conn>> /\ conn[p] /\ blind' = (blind /\ p # Main)
    BY <1>9 DEF TurnDone, TurnActive
  <2>2. /\ p = Main => conn'[Main] = TRUE
        /\ p # Main => UNCHANGED <<blind, conn[Main]>>
    <3>1. conn[p] \in BOOLEAN
      BY DEF PanesOK
    <3> QED  BY <1>0, <2>1, <3>1
  <2>3. blind' \in BOOLEAN
    BY <1>0, <2>1
  <2> QED  BY <2>1, <2>2, <2>3, DrainSkips
<1> QED  BY <1>1, <1>2, <1>3, <1>4, <1>5, <1>6, <1>7, <1>8, <1>9 DEF PaneEvent

LEMMA NextSkips ==
  ASSUME Types, SkipsHold, [Next]_vars
  PROVE  SkipsHold'
<1>0. PanesOK
  BY DEF Types
<1>1. ASSUME UNCHANGED <<pol, inflight, runners, blind>>
      PROVE  SkipsHold'
  BY <1>1, SkipsSame DEF runners
<1>2. CASE UNCHANGED vars
  BY <1>1, <1>2 DEF vars, memory, history
<1>3. CASE Clock
  BY <1>1, <1>3 DEF Clock, memory, history
<1>4. ASSUME NEW a \in Ticks, TickStart(a)
      PROVE  SkipsHold'
  BY <1>1, <1>4 DEF TickStart, history
<1>5. ASSUME NEW c \in Crons, RunNow(c)
      PROVE  SkipsHold'
  BY <1>1, <1>5 DEF RunNow, history
<1>6. ASSUME NEW c \in Crons,
             Pause(c) \/ Resume(c) \/ DeleteRow(c) \/ \E s \in Intervals : Edit(c, s)
      PROVE  SkipsHold'
  <2>1. UNCHANGED <<pol, memory, runners, blind>>
    BY <1>6, PatchStep, PatchedIs
  <2> QED  BY <2>1, <1>1 DEF memory
<1>7. CASE PaneEvent
  BY <1>0, <1>7, PaneEventSkips
<1>8. ASSUME NEW t \in Tabs, CloseTab(t)
      PROVE  SkipsHold'
  BY <1>0, <1>8, GoneSkips DEF CloseTab, Panes
<1>9. ASSUME NEW a \in Actors, TickEnd(a) \/ Anchor(a) \/ \E c \in Crons : RunDue(a, c)
      PROVE  SkipsHold'
  BY <1>1, <1>9 DEF TickEnd, Anchor, RunDue, history
<1>10. ASSUME NEW a \in Actors, Acting(a)
       PROVE  SkipsHold'
  BY <1>10, ActingSkips
<1>11. CASE Restart
  <2>1. UNCHANGED <<pol, queue, turn>> /\ blind' = (turn[Main] # None)
    BY <1>11 DEF Restart
  <2> QED  BY <1>0, <2>1, SkipsQuiet
<1> QED  BY <1>2, <1>3, <1>4, <1>5, <1>6, <1>7, <1>8, <1>9, <1>10, <1>11, NextCases

LEMMA OneOrNone ==
  ASSUME NEW T, NEW q \in Seq(T), NEW c, Single(q, c)
  PROVE  LET D == {i \in DOMAIN q : q[i] = c}
         IN  /\ Cardinality(D) \in {0, 1}
             /\ ~In(q, c) => Cardinality(D) = 0
<1> DEFINE D == {i \in DOMAIN q : q[i] = c}
<1>1. D = {i \in 1 .. Len(q) : q[i] = c}
  OBVIOUS
<1> HIDE DEF D
<1>2. ~In(q, c) => D = {}
  BY <1>1 DEF In
<1>3. D # {} => \E i \in D : D = {i}
  BY <1>1 DEF Single
<1>4. D = {} => Cardinality(D) = 0
  BY FS_EmptySet
<1>5. ASSUME NEW i \in D, D = {i}
      PROVE  Cardinality(D) = 1
  BY <1>5, FS_Singleton
<1> QED  BY <1>2, <1>3, <1>4, <1>5 DEF D

LEMMA SkipsBound ==
  ASSUME PanesOK, SkipsHold
  PROVE  OverlapBounded
<1> SUFFICES ASSUME NEW c \in Crons, Skips(c)
             PROVE  Outstanding(c) <= IF blind THEN 2 ELSE 1
  BY DEF OverlapBounded, Skips
<1> DEFINE n == Cardinality({i \in DOMAIN queue[Main] : queue[Main][i] = c})
<1>1. OneFire(queue[Main], turn[Main], inflight, conn[Main], blind, c)
  BY DEF SkipsHold
<1>2. n \in {0, 1} /\ (~In(queue[Main], c) => n = 0)
  BY <1>1, MainIs, OneOrNone DEF OneFire
<1>3. ~blind /\ turn[Main] = c => n = 0
  BY <1>1, <1>2 DEF OneFire
<1> HIDE DEF n
<1>4. n + (IF turn[Main] = c THEN 1 ELSE 0) <= IF blind THEN 2 ELSE 1
  BY <1>2, <1>3
<1> QED  BY <1>4 DEF Outstanding, n

(* With overlap=skip one fire of a cron is outstanding in its pane, waiting *)
(* in the queue or running; one more only while the server lost sight of a  *)
(* turn that goes on, through a restart or a socket that broke.             *)
THEOREM FiresDoNotPileUp == Spec => []OverlapBounded
<1> DEFINE IInv == TypeInv /\ SkipsHold
<1>1. Init => IInv
  BY InitTypes, InitSkips, TypesAre
<1>2. IInv /\ [Next]_vars => IInv'
  <2>1. Types' <=> TypeInv'
    BY TypesAre, PTL
  <2> QED  BY <2>1, TypesAre, NextTypes, NextSkips
<1>3. IInv => OverlapBounded
  BY TypesAre, SkipsBound DEF Types
<1> QED  BY <1>1, <1>2, <1>3, PTL DEF Spec

-----------------------------------------------------------------------------
(* The tabs of a cron are bounded                                           *)

LEMMA WithinLess ==
  ASSUME NEW own, NEW open, NEW x \in Int, NEW n \in Int, Within(own, open, x, n),
         NEW own2, own2 \subseteq own, NEW open2, IsFiniteSet(open2),
         own2 \ open2 \subseteq own \ open,
         NEW y \in Int, NEW m \in Int, x + n <= y + m
  PROVE  Within(own2, open2, y, m)
<1>1. IsFiniteSet(own) /\ IsFiniteSet(own2)
  BY FS_Subset DEF Within
<1>2. IsFiniteSet(own \ open)
  BY <1>1, FS_Difference
<1>3. /\ Cardinality(own2 \ open2) <= Cardinality(own \ open)
      /\ Cardinality(own2 \ open2) \in Nat /\ Cardinality(own \ open) \in Nat
  BY <1>2, FS_Subset, FS_CardinalityType
<1> QED  BY <1>1, <1>3 DEF Within

LEMMA WithinMore ==
  ASSUME NEW own, NEW open, NEW x \in Int, NEW n \in Int, Within(own, open, x, n), NEW t
  PROVE  /\ Within(own \cup {t}, open, x, n + 1)
         /\ Within(own \cup {t}, open \cup {t}, x, n)
<1>1. /\ IsFiniteSet(own) /\ IsFiniteSet(open) /\ Cardinality(own \ open) <= x + n
      /\ IsFiniteSet(own \cup {t}) /\ IsFiniteSet(open \cup {t})
  BY FS_AddElement DEF Within
<1> DEFINE D == own \ open
           E == (own \cup {t}) \ open
           F == (own \cup {t}) \ (open \cup {t})
<1>2. IsFiniteSet(D)
  BY <1>1, FS_Difference
<1>3. /\ IsFiniteSet(D \cup {t}) /\ Cardinality(D) \in Nat
      /\ Cardinality(D \cup {t}) <= Cardinality(D) + 1
  BY <1>2, FS_AddElement, FS_CardinalityType
<1>4. E \subseteq D \cup {t} /\ F \subseteq D
  OBVIOUS
<1> HIDE DEF D, E, F
<1>5. /\ IsFiniteSet(E) /\ Cardinality(E) <= Cardinality(D \cup {t})
  BY <1>3, <1>4, FS_Subset
<1>6. /\ IsFiniteSet(F) /\ Cardinality(F) <= Cardinality(D)
  BY <1>2, <1>4, FS_Subset
<1>7. /\ Cardinality(E) \in Nat /\ Cardinality(F) \in Nat /\ Cardinality(D \cup {t}) \in Nat
  BY <1>3, <1>5, <1>6, FS_CardinalityType
<1>8. Cardinality(D) <= x + n
  BY <1>1 DEF D
<1>9. Cardinality(E) <= x + (n + 1)
  BY <1>3, <1>5, <1>7, <1>8
<1>10. Cardinality(F) <= x + n
  BY <1>3, <1>6, <1>7, <1>8
<1> QED  BY <1>1, <1>9, <1>10 DEF Within, E, F

LEMMA WithinAll ==
  ASSUME NEW own, NEW open, NEW x \in Int, NEW n \in Int, Within(own, open, x, n),
         NEW m \in Int, Cardinality(own \cap open) <= m
  PROVE  Within(own, {}, m + x, n)
<1>1. /\ IsFiniteSet(own) /\ Cardinality(own \ open) <= x + n
      /\ Cardinality(own \ open) = Cardinality(own) - Cardinality(own \cap open)
      /\ IsFiniteSet(own \cap open)
  BY FS_Difference, FS_Subset DEF Within
<1>2. Cardinality(own) \in Nat /\ Cardinality(own \cap open) \in Nat
  BY <1>1, FS_CardinalityType
<1>3. own \ {} = own
  OBVIOUS
<1>4. Cardinality(own) <= (m + x) + n
  BY <1>1, <1>2
<1> QED  BY <1>1, <1>3, <1>4, FS_EmptySet DEF Within

LEMMA ListedIs ==
  ASSUME TabsHold, NEW c \in Crons, row[c].live
  PROVE  /\ extra[c] \in Nat /\ Pending(c) \in {0, 1}
         /\ Within(Owned(c), row[c].open, extra[c], Pending(c))
         /\ \A a \in OpeningFor(c) :
              Within(Owned(c), jobs[a].open \cup {jobs[a].tab}, extra[c], 0)
         /\ Within(Owned(c), {}, MaxOpen + extra[c], 0)
         /\ IsFiniteSet(Owned(c)) /\ IsFiniteSet(row[c].open)
BY DEF TabsHold, Listed, Pending, Within

LEMMA MaxOpenIs == MaxOpen \in Nat /\ MaxOpen > 0
BY CronAssumption

\* A step that opens no tab and shortens the list by what goes.
LEMMA ListedKeeps ==
  ASSUME TabsHold, NEW c \in Crons, extra'[c] = extra[c], row'[c].live => row[c].live,
         Owned(c)' \subseteq Owned(c), row'[c].open \subseteq row[c].open,
         Owned(c)' \ row'[c].open \subseteq Owned(c) \ row[c].open,
         OpeningFor(c)' = OpeningFor(c),
         \A a \in OpeningFor(c) : jobs'[a].open = jobs[a].open /\ jobs'[a].tab = jobs[a].tab
  PROVE  Listed(c)'
<1> SUFFICES ASSUME row'[c].live
             PROVE  /\ Within(Owned(c)', row'[c].open, extra'[c], Pending(c)')
                    /\ \A a \in OpeningFor(c)' :
                         Within(Owned(c)', jobs'[a].open \cup {jobs'[a].tab}, extra'[c], 0)
                    /\ Within(Owned(c)', {}, MaxOpen + extra'[c], 0)
  BY DEF Listed, Within
<1>1. /\ extra[c] \in Nat /\ Pending(c) \in {0, 1} /\ Pending(c)' = Pending(c)
      /\ Within(Owned(c), row[c].open, extra[c], Pending(c))
      /\ \A a \in OpeningFor(c) :
           Within(Owned(c), jobs[a].open \cup {jobs[a].tab}, extra[c], 0)
      /\ Within(Owned(c), {}, MaxOpen + extra[c], 0)
      /\ IsFiniteSet(row[c].open)
  BY ListedIs DEF Pending
<1>2. PICK P : P = Owned(c)'
  OBVIOUS
<1>3. PICK O : O = Owned(c)
  OBVIOUS
<1>4. /\ P \subseteq O /\ P \ row'[c].open \subseteq O \ row[c].open
      /\ IsFiniteSet(row'[c].open)
  BY <1>1, <1>2, <1>3, FS_Subset
<1>5. Within(P, row'[c].open, extra'[c], Pending(c)')
  BY <1>1, <1>3, <1>4, WithinLess
<1>6. ASSUME NEW a \in OpeningFor(c)'
      PROVE  Within(P, jobs'[a].open \cup {jobs'[a].tab}, extra'[c], 0)
  <2> DEFINE L == jobs[a].open \cup {jobs[a].tab}
  <2>1. Within(O, L, extra[c], 0) /\ jobs'[a].open \cup {jobs'[a].tab} = L
    BY <1>1, <1>3, <1>6
  <2> HIDE DEF L
  <2>2. IsFiniteSet(L) /\ P \ L \subseteq O \ L
    BY <2>1, <1>4 DEF Within
  <2>3. Within(P, L, extra[c], 0)
    BY <1>1, <1>4, <2>1, <2>2, WithinLess
  <2> QED  BY <2>1, <2>3
<1>7. Within(P, {}, MaxOpen + extra'[c], 0)
  <2>1. Within(O, {}, MaxOpen + extra[c], 0) /\ P \ {} \subseteq O \ {} /\ IsFiniteSet({})
    BY <1>1, <1>3, <1>4, FS_EmptySet
  <2>2. MaxOpen + extra[c] \in Int
    BY <1>1, MaxOpenIs
  <2> QED  BY <1>4, <2>1, <2>2, WithinLess
<1> QED  BY <1>2, <1>5, <1>6, <1>7

\* No fire starts or ends to open a tab.
LEMMA OpeningSame ==
  ASSUME NEW c, \A a \in Actors : \/ jobs'[a] = jobs[a]
                                  \/ jobs[a].phase # "tab" /\ jobs'[a].phase # "tab"
  PROVE  /\ OpeningFor(c)' = OpeningFor(c)
         /\ \A a \in OpeningFor(c) : jobs'[a].open = jobs[a].open /\ jobs'[a].tab = jobs[a].tab
BY DEF OpeningFor, Opening

LEMMA TabsSame ==
  ASSUME TabsHold, extra' = extra, owner' = owner,
         \A a \in Actors : \/ jobs'[a] = jobs[a]
                           \/ jobs[a].phase # "tab" /\ jobs'[a].phase # "tab",
         \A c \in Crons : row'[c].live => row[c].live /\ row'[c].open = row[c].open
  PROVE  TabsHold'
<1>1. ASSUME NEW c \in Crons, row'[c].live
      PROVE  Listed(c)'
  <2>1. Owned(c)' = Owned(c)
    BY DEF Owned
  <2>2. /\ OpeningFor(c)' = OpeningFor(c)
        /\ \A a \in OpeningFor(c) : jobs'[a].open = jobs[a].open /\ jobs'[a].tab = jobs[a].tab
    BY OpeningSame
  <2> QED  BY <1>1, <2>1, <2>2, ListedKeeps
<1>2. \A c \in Crons : Listed(c)'
  BY <1>1 DEF Listed
<1> QED  BY <1>2 DEF TabsHold

LEMMA InitTabs == Init => TabsHold
<1> SUFFICES ASSUME Init
             PROVE  TabsHold
  OBVIOUS
<1>1. /\ \A c \in Crons : row[c].open = {} /\ extra[c] = 0 /\ c # None
      /\ \A a \in Actors : jobs[a].phase = "none"
      /\ \A t \in Tabs : owner[t] = None
      /\ extra = [c \in Crons |-> 0]
  BY CronAssumption DEF Init, NoJob, Panes
<1>2. ASSUME NEW c \in Crons
      PROVE  Listed(c)
  <2>1. Owned(c) = {} /\ OpeningFor(c) = {} /\ Pending(c) = 0
    BY <1>1 DEF Owned, OpeningFor, Opening, Pending
  <2>2. Within({}, {}, 0, 0) /\ Within({}, {}, MaxOpen + 0, 0)
    BY FS_EmptySet, MaxOpenIs DEF Within
  <2> QED  BY <1>1, <2>1, <2>2 DEF Listed
<1> QED  BY <1>1, <1>2 DEF TabsHold

LEMMA OwnedLive ==
  ASSUME NEW c \in Crons, NEW t \in Owned(c)
  PROVE  t \in Tabs /\ Live(t)
BY CronAssumption DEF Owned, Live

LEMMA TabOpensListed ==
  ASSUME Types, TabsHold, NEW a \in Actors, jobs[a].phase \in {"fire", "carry"}, TabOpens(a)
  PROVE  TabsHold'
<1>0. PICK c \in Crons : c = jobs[a].cron
  BY TypesGive, PhaseIs DEF JobsHold
<1>1. PICK t : t = Min(Fresh)
  OBVIOUS
<1>2. /\ t \in Tabs /\ ~Live(t) /\ Cardinality(Open(c)) < MaxOpen
      /\ owner' = Set(owner, t, c) /\ UNCHANGED row
      /\ extra' = IF OpeningFor(c) = {} THEN extra ELSE [extra EXCEPT ![c] = @ + 1]
      /\ extra \in [Crons -> Nat] /\ owner \in [Panes -> Crons \cup {Human, None}]
  BY <1>0, <1>1, FreshIs DEF TabOpens, Fresh, Types, PanesOK, TabsHold
<1>3. /\ jobs'[a].phase = "tab" /\ jobs'[a].cron = c
      /\ jobs'[a].open = Open(c) /\ jobs'[a].tab = t
      /\ \A b \in Actors \ {a} : jobs'[b] = jobs[b]
  BY <1>0, <1>1, TabOpensStep
<1>4. /\ Owned(c)' = Owned(c) \cup {t}
      /\ \A d \in Crons \ {c} : Owned(d)' = Owned(d)
  <2>1. /\ \A u \in Tabs : owner'[u] = IF u = t THEN c ELSE owner[u]
        /\ owner[t] = None /\ \A d \in Crons : d # None
    BY <1>2, CronAssumption DEF Set, Panes, Live
  <2> QED  BY <1>2, <2>1 DEF Owned
<1>5. /\ OpeningFor(c)' = OpeningFor(c) \cup {a} /\ a \notin OpeningFor(c)
      /\ \A d \in Crons \ {c} : OpeningFor(d)' = OpeningFor(d)
      /\ \A b \in OpeningFor(c) : jobs'[b] = jobs[b]
  BY <1>0, <1>3 DEF OpeningFor, Opening
<1>6. ASSUME NEW d \in Crons \ {c}
      PROVE  Listed(d)'
  <2>1. \A b \in OpeningFor(d) : jobs'[b] = jobs[b]
    BY <1>0, <1>3 DEF OpeningFor, Opening
  <2>2. extra'[d] = extra[d]
    BY <1>2
  <2> QED  BY <1>2, <1>4, <1>5, <2>1, <2>2, ListedKeeps
<1>7. ASSUME row[c].live
      PROVE  Listed(c)'
  <2>1. PICK O : O = Owned(c)
    OBVIOUS
  <2>2. PICK L : L = Open(c)
    OBVIOUS
  <2>3. PICK n : n = Pending(c)
    OBVIOUS
  <2>4. PICK x : x = extra[c]
    OBVIOUS
  <2>5. /\ x \in Nat /\ n \in {0, 1} /\ Within(O, row[c].open, x, n)
        /\ \A b \in OpeningFor(c) : Within(O, jobs[b].open \cup {jobs[b].tab}, x, 0)
        /\ IsFiniteSet(row[c].open) /\ IsFiniteSet(O)
    BY <1>7, <2>1, <2>3, <2>4, ListedIs
  <2>6. extra'[c] = x + n /\ (OpeningFor(c) # {} => n = 1)
    BY <1>2, <2>3, <2>4, <2>5 DEF Pending
  <2>7. Pending(c)' = 1
    BY <1>5 DEF Pending
  <2>8. /\ O \ L = O \ row[c].open /\ O \cap row[c].open \subseteq L /\ L \subseteq row[c].open
    BY <2>1, <2>2, OwnedLive DEF Open
  <2>9. /\ IsFiniteSet(L) /\ Cardinality(L) + 1 <= MaxOpen /\ Cardinality(L) \in Nat
    <3>1. IsFiniteSet(L)
      BY <2>5, <2>8, FS_Subset
    <3>2. Cardinality(L) \in Nat
      BY <3>1, FS_CardinalityType
    <3> QED  BY <1>2, <2>2, <3>1, <3>2, MaxOpenIs
  <2>10. Within(O \cup {t}, row[c].open, x + n, 1)
    <3>1. Within(O \cup {t}, row[c].open, x, n + 1)
      <4>1. x \in Int /\ n \in Int
        BY <2>5
      <4> QED  BY <4>1, <2>5, WithinMore
    <3>2. x \in Int /\ n + 1 \in Int /\ x + n \in Int /\ 1 \in Int /\ x + (n + 1) <= (x + n) + 1
      BY <2>5
    <3> QED  BY <3>1, <3>2, <2>5, WithinLess
  <2>11. Within(O \cup {t}, L \cup {t}, x + n, 0)
    <3>1. x \in Int /\ n \in Int /\ x + n \in Int /\ 0 \in Int /\ x + n <= (x + n) + 0
      BY <2>5
    <3>2. Within(O, L, x, n)
      BY <3>1, <2>5, <2>8, <2>9, WithinLess
    <3>3. Within(O \cup {t}, L \cup {t}, x, n) /\ IsFiniteSet(L \cup {t})
      BY <3>1, <3>2, WithinMore DEF Within
    <3> QED  BY <3>1, <3>3, WithinLess
  <2>12. ASSUME NEW b \in OpeningFor(c)
         PROVE  Within(O \cup {t}, jobs[b].open \cup {jobs[b].tab}, x + n, 0)
    <3>1. PICK M : M = jobs[b].open \cup {jobs[b].tab}
      OBVIOUS
    <3>2. Within(O, M, x, 0) /\ n = 1
      BY <3>1, <2>5, <2>6, <2>12
    <3>3. Within(O \cup {t}, M, x, 0 + 1) /\ IsFiniteSet(M)
      <4>1. x \in Int /\ 0 \in Int
        BY <2>5
      <4> QED  BY <4>1, <3>2, WithinMore DEF Within
    <3>4. x \in Int /\ 0 + 1 \in Int /\ x + n \in Int /\ 0 \in Int /\ x + (0 + 1) <= (x + n) + 0
      BY <3>2, <2>5
    <3> QED  BY <3>1, <3>3, <3>4, WithinLess
  <2>13. Within(O \cup {t}, {}, MaxOpen + (x + n), 0)
    <3>1. PICK m \in Nat : m = Cardinality(L)
      BY <2>9
    <3>2. Cardinality(O \cap row[c].open) <= m
      BY <3>1, <2>8, <2>9, FS_Subset
    <3>3. Within(O, {}, m + x, n)
      BY <3>2, <2>5, WithinAll
    <3>4. Within(O \cup {t}, {}, m + x, n + 1)
      <4>1. m + x \in Int /\ n \in Int
        BY <3>1, <2>5
      <4> QED  BY <4>1, <3>3, WithinMore
    <3>5. /\ m + x \in Int /\ n + 1 \in Int /\ MaxOpen + (x + n) \in Int /\ 0 \in Int
          /\ (m + x) + (n + 1) <= (MaxOpen + (x + n)) + 0
      BY <3>1, <2>5, <2>9, MaxOpenIs
    <3> QED  BY <3>4, <3>5, FS_EmptySet, WithinLess
  <2>14. \A b \in OpeningFor(c)' :
            Within(O \cup {t}, jobs'[b].open \cup {jobs'[b].tab}, x + n, 0)
    BY <1>3, <1>5, <2>2, <2>11, <2>12
  <2>15. row' = row /\ Owned(c)' = O \cup {t}
    BY <1>2, <1>4, <2>1
  <2> QED  BY <2>6, <2>7, <2>10, <2>13, <2>14, <2>15 DEF Listed
<1>8. Listed(c)'
  BY <1>2, <1>7 DEF Listed
<1>9. extra' \in [Crons -> Nat]
  BY <1>2
<1> QED  BY <1>6, <1>8, <1>9 DEF TabsHold

LEMMA RecordListed ==
  ASSUME Types, TabsHold, NEW a \in Actors, jobs[a].phase \in {"fire", "carry"},
         NEW r, NEW res, Armed(jobs[a].cron, r), Like(r, row[jobs[a].cron]), Record(a, r, res),
         UNCHANGED <<now, pol, owner, extra>>,
         r.open = row[jobs[a].cron].open \/ r.open = Open(jobs[a].cron)
  PROVE  TabsHold'
<1>0. PICK c \in Crons : c = jobs[a].cron
  BY TypesGive, PhaseIs DEF JobsHold
<1> DEFINE q == Recorded(r, res, a = ByHand)
<1>1. /\ jobs'[a] = JobAfter(a, res) /\ \A b \in Actors \ {a} : jobs'[b] = jobs[b]
      /\ \A d \in Crons \ {c} : row'[d] = row[d]
      /\ row'[c] = IF row[c].live THEN q ELSE row[c]
      /\ q.open = r.open
  BY <1>0, TypesGive, RecordStep
<1>2. jobs'[a].phase # "tab"
  <2>1. JobsHold
    BY TypesGive
  <2>2. /\ a = ByHand => JobAfter(a, res) = NoJob
        /\ a # ByHand /\ res = "deferred" => JobAfter(a, res).phase = "rows"
        /\ a # ByHand /\ res # "deferred" =>
             JobAfter(a, res).phase = (IF jobs[a].slots \ Served(jobs[a].cron, jobs[a].slots) = {}
                                        THEN "anchor" ELSE "fire")
    BY <2>1, AfterFire
  <2> QED  BY <2>2, <1>1 DEF NoJob
<1> HIDE DEF q
<1>3. ASSUME NEW d \in Crons
      PROVE  Listed(d)'
  <2>1. Owned(d)' = Owned(d)
    BY DEF Owned
  <2>2. /\ OpeningFor(d)' = OpeningFor(d)
        /\ \A b \in OpeningFor(d) : jobs'[b].open = jobs[b].open /\ jobs'[b].tab = jobs[b].tab
    BY <1>1, <1>2, OpeningSame
  <2>3. row'[d].open = row[d].open \/ row'[d].open = Open(d)
    BY <1>0, <1>1
  <2>4. row'[d].live => row[d].live
    BY <1>1
  <2>5. /\ row'[d].open \subseteq row[d].open
        /\ Owned(d)' \ row'[d].open \subseteq Owned(d) \ row[d].open
    BY <2>1, <2>3, OwnedLive DEF Open
  <2> QED  BY <2>1, <2>2, <2>4, <2>5, ListedKeeps
<1> QED  BY <1>3 DEF TabsHold

LEMMA TabUpListed ==
  ASSUME Types, TabsHold, NEW a \in Actors, TabUp(a)
  PROVE  TabsHold'
<1>0. PICK c \in Crons : c = jobs[a].cron
  BY TypesGive, PhaseIs DEF JobsHold, TabUp
<1>1. PICK L : L = jobs[a].open \cup {jobs[a].tab}
  OBVIOUS
<1> DEFINE res == SubmitSend(jobs[a].tab)
           r == [row[c] EXCEPT !.open = L]
           q == Recorded(r, res, a = ByHand)
<1>2. /\ Record(a, r, res) /\ UNCHANGED <<owner, extra, now, pol>> /\ jobs[a].phase = "tab"
      /\ Armed(c, row[c]) /\ jobs[a] \in FireJob /\ JobOK(jobs[a])
  <2>1. /\ Record(a, r, res) /\ UNCHANGED <<owner, extra, now, pol>> /\ jobs[a].phase = "tab"
    BY <1>0, <1>1 DEF TabUp, time
  <2>2. JobOK(jobs[a]) /\ Armed(c, row[c])
    BY TypesGive DEF JobsHold
  <2>3. jobs[a] \in FireJob
    BY <2>1, <2>2, PhaseIs
  <2> QED  BY <2>1, <2>2, <2>3
<1>3. L \in SUBSET Tabs
  <2>1. jobs[a].tab \in Tabs
    BY <1>2 DEF JobOK, NoJob, PassJob
  <2> QED  BY <1>1, <1>2, <2>1 DEF FireJob
<1>4. Armed(c, r) /\ r.open = L
  BY <1>2, <1>3, OpenSet
<1> HIDE DEF r, res
<1>5. /\ jobs'[a] = JobAfter(a, res) /\ \A b \in Actors \ {a} : jobs'[b] = jobs[b]
      /\ \A d \in Crons \ {c} : row'[d] = row[d]
      /\ row'[c] = IF row[c].live THEN q ELSE row[c]
      /\ q.open = r.open
  BY <1>0, <1>2, <1>4, TypesGive, RecordStep
<1> HIDE DEF q
<1>6. jobs'[a].phase # "tab"
  <2>1. /\ a = ByHand => JobAfter(a, res) = NoJob
        /\ a # ByHand /\ res = "deferred" => JobAfter(a, res).phase = "rows"
        /\ a # ByHand /\ res # "deferred" =>
             JobAfter(a, res).phase = (IF jobs[a].slots \ Served(jobs[a].cron, jobs[a].slots) = {}
                                        THEN "anchor" ELSE "fire")
    BY <1>2, TypesGive, AfterFire
  <2> QED  BY <2>1, <1>5 DEF NoJob
<1>7. \A d \in Crons : Owned(d)' = Owned(d)
  BY <1>2 DEF Owned
<1>8. ASSUME NEW d \in Crons \ {c}
      PROVE  Listed(d)'
  <2>1. /\ OpeningFor(d)' = OpeningFor(d)
        /\ \A b \in OpeningFor(d) : jobs'[b] = jobs[b]
    BY <1>0, <1>5, <1>6 DEF OpeningFor, Opening
  <2> QED  BY <1>2, <1>5, <1>7, <2>1, ListedKeeps
<1>9. ASSUME row[c].live
      PROVE  Listed(c)'
  <2>1. PICK O : O = Owned(c)
    OBVIOUS
  <2>2. /\ OpeningFor(c)' = OpeningFor(c) \ {a} /\ a \in OpeningFor(c)
        /\ \A b \in OpeningFor(c)' : jobs'[b] = jobs[b]
    BY <1>0, <1>2, <1>5, <1>6 DEF OpeningFor, Opening
  <2>3. /\ extra[c] \in Nat /\ Within(O, L, extra[c], 0)
        /\ \A b \in OpeningFor(c) : Within(O, jobs[b].open \cup {jobs[b].tab}, extra[c], 0)
        /\ Within(O, {}, MaxOpen + extra[c], 0)
    BY <1>1, <1>9, <2>1, <2>2, ListedIs
  <2>4. Pending(c)' \in {0, 1}
    BY DEF Pending
  <2>5. Within(O, L, extra[c], Pending(c)')
    <3>1. PICK m : m = Pending(c)'
      OBVIOUS
    <3>2. extra[c] \in Int /\ 0 \in Int /\ m \in Int /\ extra[c] + 0 <= extra[c] + m
      BY <3>1, <2>3, <2>4
    <3>3. IsFiniteSet(L)
      BY <2>3 DEF Within
    <3> QED  BY <3>1, <3>2, <3>3, <2>3, WithinLess
  <2>6. row'[c].open = L /\ Owned(c)' = O /\ extra'[c] = extra[c]
    BY <1>2, <1>4, <1>5, <1>7, <1>9, <2>1
  <2>7. \A b \in OpeningFor(c)' : Within(O, jobs'[b].open \cup {jobs'[b].tab}, extra[c], 0)
    BY <2>2, <2>3
  <2> QED  BY <2>3, <2>5, <2>6, <2>7 DEF Listed
<1>10. CASE ~row[c].live
  <2>1. ~row'[c].live
    BY <1>5, <1>10
  <2>2. Listed(c)'
    BY <2>1 DEF Listed
  <2> QED  BY <1>2, <1>8, <2>2 DEF TabsHold
<1>11. CASE row[c].live
  BY <1>2, <1>8, <1>9, <1>11 DEF TabsHold
<1> QED  BY <1>10, <1>11

LEMMA ActingTabs ==
  ASSUME Types, TabsHold, NEW a \in Actors, Acting(a)
  PROVE  TabsHold'
<1>0. PICK c \in Crons : c = jobs[a].cron
  BY ActingStep
<1>1. Armed(c, row[c]) /\ Like(row[c], row[c])
  BY TypesGive DEF Like
<1>2. ASSUME NewTab(a), jobs[a].phase \in {"fire", "carry"}
      PROVE  TabsHold'
  <2>1. CASE TabsFull(a)
    <3>1. Record(a, [row[c] EXCEPT !.open = Open(c)], "skipped")
          /\ UNCHANGED <<now, pol, owner, extra>>
      BY <1>0, <2>1 DEF TabsFull, time
    <3>2. Open(c) \in SUBSET Tabs
      BY <1>1 DEF Open, Armed, RowOf
    <3>3. LET r == [row[c] EXCEPT !.open = Open(c)]
          IN  Armed(c, r) /\ Like(r, row[c]) /\ r.open = Open(c)
      BY <1>1, <3>2, OpenSet
    <3> QED  BY <1>0, <1>2, <3>1, <3>3, RecordListed
  <2>2. CASE TabOpens(a)
    BY <1>2, <2>2, TabOpensListed
  <2> QED  BY <1>2, <2>1, <2>2 DEF NewTab
<1>3. CASE FirePane(a)
  <2>1. /\ UNCHANGED <<now, pol, owner, extra>> /\ jobs[a].phase = "fire"
        /\ \/ jobs' = [jobs EXCEPT ![a].phase = "carry"] /\ UNCHANGED row
           \/ \E res : Record(a, row[c], res)
    BY <1>0, <1>3 DEF FirePane, time
  <2>2. CASE jobs' = [jobs EXCEPT ![a].phase = "carry"] /\ UNCHANGED row
    <3>1. jobs \in [Actors -> {NoJob} \cup PassJob \cup FireJob] /\ jobs[a] \in FireJob
      BY <2>1, TypesGive, PhaseIs DEF JobsHold
    <3>2. jobs'[a].phase = "carry" /\ \A b \in Actors \ {a} : jobs'[b] = jobs[b]
      <4>1. jobs' = [jobs EXCEPT ![a] = [jobs[a] EXCEPT !.phase = "carry"]]
        BY <2>2, <3>1
      <4> QED  BY <4>1, <3>1 DEF FireJob
    <3> QED  BY <2>1, <2>2, <3>2, TabsSame
  <2>3. CASE \E res : Record(a, row[c], res)
    BY <1>0, <1>1, <2>1, <2>3, RecordListed
  <2> QED  BY <2>1, <2>2, <2>3
<1>4. CASE FireNewTab(a)
  BY <1>2, <1>4 DEF FireNewTab
<1>5. CASE Carried(a)
  <2>1. CASE NewTab(a)
    BY <1>2, <1>5, <2>1 DEF Carried
  <2>2. CASE Record(a, row[c], "skipped") /\ UNCHANGED <<now, pol, owner, extra>>
    BY <1>0, <1>1, <1>5, <2>2, RecordListed DEF Carried
  <2> QED  BY <1>0, <1>5, <2>1, <2>2 DEF Carried, time
<1> QED  BY <1>3, <1>4, <1>5, TabUpListed DEF Acting

\* A tab goes, and its place on the lists.
LEMMA GoneTabs ==
  ASSUME Types, TabsHold, NEW p \in Panes, Gone(p),
         \A c \in Crons : row'[c].live => row[c].live,
         \/ row' = row
         \/ \A c \in Crons : row'[c].open = row[c].open \ {p}
  PROVE  TabsHold'
<1>1. UNCHANGED <<jobs, extra>> /\ owner' = Set(owner, p, None)
      /\ owner \in [Panes -> Crons \cup {Human, None}]
  BY DEF Gone, Types, PanesOK
<1>2. ASSUME NEW c \in Crons
      PROVE  Listed(c)'
  <2>1. /\ \A t \in Tabs : owner'[t] = IF t = p THEN None ELSE owner[t]
        /\ c # None
    BY <1>1, CronAssumption DEF Set, Panes
  <2>2. Owned(c)' = Owned(c) \ {p}
    BY <2>1 DEF Owned
  <2>3. /\ OpeningFor(c)' = OpeningFor(c)
        /\ \A b \in OpeningFor(c) : jobs'[b].open = jobs[b].open /\ jobs'[b].tab = jobs[b].tab
    BY <1>1, OpeningSame
  <2>4. /\ row'[c].open \subseteq row[c].open
        /\ Owned(c)' \ row'[c].open \subseteq Owned(c) \ row[c].open
    BY <2>2
  <2>5. Owned(c)' \subseteq Owned(c) /\ extra'[c] = extra[c]
    BY <1>1, <2>2
  <2> QED  BY <2>3, <2>4, <2>5, ListedKeeps
<1> QED  BY <1>1, <1>2 DEF TabsHold

LEMMA RestartTabs ==
  ASSUME Types, TabsHold, Restart
  PROVE  TabsHold'
<1>1. /\ UNCHANGED <<row, owner>> /\ \A a \in Actors : jobs'[a].phase = "none"
      /\ extra' = [c \in Crons |-> extra[c] + Cardinality(OpeningFor(c))]
  BY RestartStep DEF Restart, NoJob
<1>2. ASSUME NEW c \in Crons
      PROVE  /\ Cardinality(OpeningFor(c)) \in Nat
             /\ Pending(c) <= Cardinality(OpeningFor(c))
  <2>1. OpeningFor(c) \subseteq 1 .. 3
    BY DEF OpeningFor, Opening, Actors, Ticks, ByHand
  <2>2. IsFiniteSet(OpeningFor(c))
    <3>1. IsFiniteSet(1 .. 3)
      <4>1. 1 \in Int /\ 3 \in Int
        OBVIOUS
      <4> QED  BY <4>1, FS_Interval
    <3> QED  BY <2>1, <3>1, FS_Subset
  <2>3. Cardinality(OpeningFor(c)) \in Nat
    BY <2>2, FS_CardinalityType
  <2>4. Cardinality(OpeningFor(c)) = 0 <=> OpeningFor(c) = {}
    BY <2>2, FS_EmptySet
  <2> QED  BY <2>3, <2>4 DEF Pending
<1>3. ASSUME NEW c \in Crons, row[c].live
      PROVE  Listed(c)'
  <2>1. PICK O : O = Owned(c)
    OBVIOUS
  <2>2. PICK x : x = extra[c]
    OBVIOUS
  <2>3. PICK n : n = Pending(c)
    OBVIOUS
  <2>4. PICK y : y = extra'[c]
    OBVIOUS
  <2>5. /\ x \in Int /\ n \in Int /\ y \in Int /\ x + n <= y + 0 /\ x <= y
        /\ Within(O, row[c].open, x, n) /\ Within(O, {}, MaxOpen + x, 0)
        /\ IsFiniteSet(row[c].open)
    <3>1. /\ x \in Nat /\ n \in {0, 1} /\ Within(O, row[c].open, x, n)
          /\ Within(O, {}, MaxOpen + x, 0) /\ IsFiniteSet(row[c].open)
      BY <1>3, <2>1, <2>2, <2>3, ListedIs
    <3>2. y = x + Cardinality(OpeningFor(c))
      BY <1>1, <2>2, <2>4
    <3> QED  BY <3>1, <3>2, <2>3, <1>2
  <2>6. Within(O, row[c].open, y, 0)
    <3>1. 0 \in Int
      OBVIOUS
    <3> QED  BY <2>5, <3>1, WithinLess
  <2>7. Within(O, {}, MaxOpen + y, 0)
    <3>1. /\ MaxOpen + x \in Int /\ MaxOpen + y \in Int /\ 0 \in Int
          /\ (MaxOpen + x) + 0 <= (MaxOpen + y) + 0
      BY <2>5, MaxOpenIs
    <3> QED  BY <2>5, <3>1, FS_EmptySet, WithinLess
  <2>8. OpeningFor(c)' = {} /\ Pending(c)' = 0 /\ Owned(c)' = O
    BY <1>1, <2>1 DEF OpeningFor, Opening, Pending, Owned
  <2> QED  BY <1>1, <2>4, <2>6, <2>7, <2>8 DEF Listed
<1>4. \A c \in Crons : Listed(c)'
  BY <1>1, <1>3 DEF Listed
<1>5. extra' \in [Crons -> Nat]
  BY <1>1, <1>2 DEF TabsHold
<1> QED  BY <1>4, <1>5 DEF TabsHold

LEMMA NextTabs ==
  ASSUME Types, TabsHold, [Next]_vars
  PROVE  TabsHold'
<1>1. ASSUME UNCHANGED <<row, jobs, owner, extra>>
      PROVE  TabsHold'
  BY <1>1, TabsSame
<1>2. CASE UNCHANGED vars
  BY <1>1, <1>2 DEF vars, memory, history
<1>3. CASE Clock
  BY <1>1, <1>3 DEF Clock, memory, history
<1>4. ASSUME NEW a \in Ticks, TickStart(a)
      PROVE  TabsHold'
  <2>1. /\ UNCHANGED <<row, owner, extra>> /\ jobs[a].phase = "none" /\ jobs'[a].phase = "rows"
        /\ \A b \in Actors \ {a} : jobs'[b] = jobs[b]
    BY <1>4, TickStartStep DEF TickStart, history, Busy
  <2> QED  BY <2>1, TabsSame
<1>5. ASSUME NEW c \in Crons, RunNow(c)
      PROVE  TabsHold'
  <2>1. /\ UNCHANGED <<row, owner, extra>> /\ jobs[ByHand].phase = "none"
        /\ jobs'[ByHand].phase = "fire" /\ \A b \in Ticks : jobs'[b] = jobs[b]
    BY <1>5, RunNowStep DEF RunNow, history, Busy
  <2> QED  BY <2>1, ActorIs, TabsSame
<1>6. ASSUME NEW c \in Crons,
             Pause(c) \/ Resume(c) \/ DeleteRow(c) \/ \E s \in Intervals : Edit(c, s)
      PROVE  TabsHold'
  <2>1. PICK r : Patches(c, r)
    BY <1>6, PatchStep
  <2>2. /\ row'[c] = r /\ \A d \in Crons \ {c} : row'[d] = row[d]
        /\ row[c].live /\ UNCHANGED <<jobs, owner, extra>>
    BY <2>1, PatchedIs DEF memory
  <2>3. r.live => r.open = row[c].open
    BY <2>1 DEF Patches, Moved
  <2>4. \A d \in Crons : row'[d].live => row[d].live /\ row'[d].open = row[d].open
    BY <2>2, <2>3
  <2> QED  BY <2>2, <2>4, TabsSame
<1>7. CASE PaneEvent
  <2>1. ASSUME NEW p \in Panes, Delete(p)
        PROVE  TabsHold'
    BY <2>1, GoneTabs DEF Delete
  <2>2. ASSUME NEW p \in Panes, SendByHuman(p) \/ TurnEndsUnseen(p) \/ Hello(p) \/ Blip(p)
                                \/ Die(p) \/ Fatal(p) \/ \E keep \in BOOLEAN : TurnDone(p, keep)
        PROVE  owner' = owner
    BY <2>2 DEF SendByHuman, TurnEndsUnseen, Hello, Blip, Die, Teardown, Fatal, TurnDone
  <2>3. UNCHANGED <<row, jobs, extra>>
    BY <1>7, PaneEventIs
  <2>4. (Respawn => owner' = owner) /\ (GiveUp => owner' = owner)
    BY DEF Respawn, GiveUp
  <2> QED  BY <1>1, <1>7, <2>1, <2>2, <2>3, <2>4 DEF PaneEvent
<1>8. ASSUME NEW t \in Tabs, CloseTab(t)
      PROVE  TabsHold'
  <2>1. /\ Gone(t) /\ t \in Panes
        /\ \A c \in Crons : row'[c].live = row[c].live /\ row'[c].open = row[c].open \ {t}
    BY <1>8, CloseTabStep DEF CloseTab, Panes, Like
  <2> QED  BY <2>1, GoneTabs
<1>9. ASSUME NEW a \in Actors, TickEnd(a)
      PROVE  TabsHold'
  <2>1. /\ UNCHANGED <<row, owner, extra>> /\ jobs[a].phase = "rows" /\ jobs'[a].phase = "none"
        /\ \A b \in Actors \ {a} : jobs'[b] = jobs[b]
    BY <1>9, TickEndStep DEF TickEnd, history
  <2> QED  BY <2>1, TabsSame
<1>10. ASSUME NEW a \in Actors, Anchor(a)
       PROVE  TabsHold'
  <2>1. PICK c \in Crons : c = jobs[a].cron
    BY <1>10, AnchorStep
  <2> DEFINE q == Anchored(c, row[c], jobs[a])
  <2>2. /\ UNCHANGED <<owner, extra>> /\ jobs[a].phase = "anchor" /\ jobs'[a].phase = "rows"
        /\ \A b \in Actors \ {a} : jobs'[b] = jobs[b]
        /\ row'[c] = IF row[c].live THEN q ELSE row[c]
        /\ \A d \in Crons \ {c} : row'[d] = row[d]
        /\ q.live = row[c].live /\ q.open = row[c].open
    BY <1>10, <2>1, AnchorStep DEF Anchor, history
  <2> HIDE DEF q
  <2>3. \A d \in Crons : row'[d].live => row[d].live /\ row'[d].open = row[d].open
    BY <2>1, <2>2
  <2> QED  BY <2>2, <2>3, TabsSame
<1>11. ASSUME NEW a \in Actors, NEW c \in Crons, RunDue(a, c)
       PROVE  TabsHold'
  <2>1. /\ UNCHANGED <<owner, extra>> /\ jobs[a].phase = "rows"
        /\ jobs'[a].phase \in {"rows", "fire", "anchor"}
        /\ \A b \in Actors \ {a} : jobs'[b] = jobs[b]
        /\ row' = row \/ row' = Set(row, c, Recorded(row[c], "missed", FALSE))
        /\ Armed(c, row[c]) /\ row \in [Crons -> RowOf]
    BY <1>11, RunDueStep, TypesGive DEF RunDue, RowsHold
  <2>2. /\ Recorded(row[c], "missed", FALSE).open = row[c].open
        /\ Like(Recorded(row[c], "missed", FALSE), row[c])
    BY <2>1, RecordedIs
  <2>3. \A d \in Crons : row'[d].live => row[d].live /\ row'[d].open = row[d].open
    BY <2>1, <2>2 DEF Set, Like
  <2> QED  BY <2>1, <2>3, TabsSame
<1>12. CASE Restart
  BY <1>12, RestartTabs
<1> QED  BY <1>2, <1>3, <1>4, <1>5, <1>6, <1>7, <1>8, <1>9, <1>10, <1>11, <1>12, NextCases,
            ActingTabs

LEMMA TabsBound ==
  ASSUME TabsHold
  PROVE  TabsBounded
<1> SUFFICES ASSUME NEW c \in Crons, row[c].live
             PROVE  Cardinality(Owned(c)) <= MaxOpen + extra[c]
  BY DEF TabsBounded, Owned
<1>1. /\ Within(Owned(c), {}, MaxOpen + extra[c], 0) /\ extra[c] \in Nat
      /\ Owned(c) \ {} = Owned(c)
  BY ListedIs
<1>2. MaxOpen + extra[c] \in Int
  BY <1>1, MaxOpenIs
<1> QED  BY <1>1, <1>2 DEF Within

(* A cron leaves at most max_open tabs behind: the list of its row, read    *)
(* before the await of an opening and written after it, misses no tab but   *)
(* one for each fire that overlapped another and each crash in between.     *)
THEOREM TabsAreBounded == Spec => []TabsBounded
<1> DEFINE IInv == TypeInv /\ TabsHold
<1>1. Init => IInv
  BY InitTypes, InitTabs, TypesAre
<1>2. IInv /\ [Next]_vars => IInv'
  <2>1. Types' <=> TypeInv'
    BY TypesAre, PTL
  <2> QED  BY <2>1, TypesAre, NextTypes, NextTabs
<1>3. IInv => TabsBounded
  BY TabsBound
<1> QED  BY <1>1, <1>2, <1>3, PTL DEF Spec
=============================================================================
